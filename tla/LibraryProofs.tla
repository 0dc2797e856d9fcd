---------------------------- MODULE LibraryProofs ----------------------------
(***************************************************************************)
(* Theorems about Library for any operations, attempts, changes and        *)
(* faults: a completed operation has its project in the list, a valid      *)
(* database stays valid when it is copied, and staging with all its        *)
(* crashes and retries implements ProjectCreation.                         *)
(***************************************************************************)
EXTENDS Library, TLAPS

-----------------------------------------------------------------------------
\* The inductive invariant, by parts.

Kinds == {"create", "duplicate", "recover", "import"}
Stories == 0..ChangeLimit + 1
Names == {None, Live} \cup Identities
Dbs == [story : Stories, ident : Names, pins : Names, manifest : Names, ready : BOOLEAN]
Folders == [db : Dbs, marker : Names, origin : BOOLEAN, exists : BOOLEAN]
Writing == {"db", "copy", "rotate", "marker", "origin", "populate"}
Steps == {"begin", "look", "read", "mkdir", "install", "register", "complete", "insert"} \cup Writing
Commands == [at : Steps, op : Operations, kind : Kinds, basis : Stories, held : Dbs]

TypeOK ==
    /\ lib \in [ops : [Operations -> [kind : Kinds \cup {"none"}, basis : Stories, completed : BOOLEAN]],
                entries : [Identities -> {None} \cup (Operations \X Places)],
                archived : SUBSET Identities]
    /\ folders \in [Operations -> [Places -> Folders]]
    /\ source \in [duplicate : Dbs, recover : Dbs, import : Dbs]
    /\ cmd \in {Idle} \cup Commands
    /\ budget \in [changes : 0..ChangeLimit, faults : Nat, staged : [Operations -> 0..AttemptLimit]]

\* A database that can be copied, and the sources, whose story the author's
\* changes bound.
Readable(db) == ValidDatabase(db, db.ident) /\ db.story > 0
SourcesOK ==
    /\ Readable(source.duplicate)
    /\ source.recover # NoDb => Readable(source.recover)
    /\ \A db \in {source.duplicate, source.recover, source.import} : db.story <= 1 + budget.changes

OpsOK ==
    \A op \in Operations :
      /\ lib.ops[op].kind = "none" => lib.ops[op] = NoOp
      /\ lib.ops[op].kind = "create" => lib.ops[op].basis = 0

\* What a database of an operation has to be once its project appears.
Asked(op, db) ==
    /\ lib.ops[op].kind \in {"create", "duplicate", "import"} => db.story = lib.ops[op].basis
    /\ lib.ops[op].kind = "recover" => db.story > 0

\* A project that was made for an operation.
Made(op, f) ==
    /\ lib.ops[op].kind \in Kinds
    /\ f.origin /\ f.marker = f.db.ident /\ ValidDatabase(f.db, f.db.ident) /\ ~f.db.ready
    /\ Asked(op, f.db)
    /\ lib.ops[op].kind = "import" => f.db.manifest = f.db.ident

\* The identity of the project that is staged, and of those staged before.
Own(op) == <<op, budget.staged[op]>>
Earlier(op, ident) ==
    \E n \in 1..budget.staged[op] :
       /\ ident = <<op, n>>
       /\ folders[op]["staging"].exists => n < budget.staged[op]

ProjectsOK ==
    \A op \in Operations, p \in {"final", "away"} :
      folders[op][p].exists => Made(op, folders[op][p]) /\ Earlier(op, folders[op][p].db.ident)

\* A staging folder, whoever left it: once its origin is written only the
\* contents of an import can be missing.
StagedAs(op, f) ==
    /\ f.exists => budget.staged[op] >= 1
    /\ f.exists /\ f.origin =>
         /\ lib.ops[op].kind \in Kinds
         /\ f.db.ident = Own(op) /\ f.marker = Own(op)
         /\ ValidDatabase(f.db, f.db.ident) /\ ~f.db.ready
         /\ lib.ops[op].kind # "import" \/ f.db.manifest = f.db.ident => Asked(op, f.db)
StagedOK == \A op \in Operations : StagedAs(op, folders[op]["staging"])

\* The new database of a command, before its origin is written.
NewDb(db) ==
    /\ db.ident = Own(cmd.op) /\ ~db.ready /\ ValidDatabase(db, db.ident)
    /\ cmd.kind = "import" => db.manifest = None
    /\ cmd.kind = "create" => db.story = 0
    /\ cmd.kind \in {"duplicate", "recover"} => db.story = cmd.held.story

\* How far the staging folder of the command under way is.
WritingOK ==
    /\ cmd.at \in Writing => Staging.exists
    /\ cmd.at \in {"db", "copy"} => Staging = [NoFolder EXCEPT !.exists = TRUE]
    /\ cmd.at = "rotate" => Staging.db = cmd.held
    /\ cmd.at \in {"rotate", "marker", "origin"} => ~Staging.origin
    /\ cmd.at \in {"marker", "origin"} => NewDb(Staging.db)
    /\ cmd.at = "origin" => Staging.marker = Staging.db.ident
    /\ cmd.at = "populate" => Staging.origin
    /\ cmd.at = "install" => Staging.exists /\ Prepared(Staging, cmd.kind)

\* What the command holds for its operation.
HeldOK ==
    cmd.at \in {"mkdir"} \cup Writing =>
      /\ cmd.kind \in {"duplicate", "recover"} => Readable(cmd.held)
      /\ cmd.kind \in {"duplicate", "import"} => cmd.held.story = cmd.basis

CommandOK ==
    cmd # Idle =>
      /\ IF cmd.at = "begin"
         THEN lib.ops[cmd.op] = NoOp /\ (cmd.kind = "create" => cmd.basis = 0)
         ELSE lib.ops[cmd.op].kind = cmd.kind /\ lib.ops[cmd.op].basis = cmd.basis
      /\ cmd.at = "look" => (lib.ops[cmd.op].completed => Final.exists)
      /\ cmd.at \in {"read", "mkdir", "install"} \cup Writing => ~lib.ops[cmd.op].completed /\ ~Final.exists
      /\ cmd.at \in {"read", "mkdir"} => ~Staging.exists /\ budget.staged[cmd.op] < AttemptLimit
      /\ cmd.at = "read" => cmd.kind = "recover"
      /\ cmd.at = "db" => cmd.kind \in {"create", "import"}
      /\ cmd.at \in {"copy", "rotate"} => cmd.kind \in {"duplicate", "recover"}
      /\ cmd.at = "populate" => cmd.kind = "import"
      /\ cmd.at \in {"register", "complete", "insert"} => Final.exists
      /\ cmd.at = "complete" => lib.entries[Final.db.ident] # None

Inv == /\ TypeOK /\ SourcesOK /\ OpsOK /\ ProjectsOK /\ StagedOK
       /\ WritingOK /\ HeldOK /\ CommandOK /\ CompletedIsListed

-----------------------------------------------------------------------------
\* Facts about the names.

\* None and the live project are not projects of an operation.
LEMMA IdentFacts ==
  /\ None \notin Identities /\ Live \notin Identities /\ None # Live
  /\ \A op, x \in Operations, n, m \in Nat : <<op, n>> = <<x, m>> => op = x /\ n = m
  /\ \A op \in Operations, n \in 1..AttemptLimit : <<op, n>> \in Identities
  /\ \A op \in Operations, p \in Places : <<op, p>> # None /\ <<op, p>> \in Operations \X Places
BY LibraryConstants DEF None, Live, Identities

\* The empty values are typed.
LEMMA EmptyTyped ==
  /\ NoDb \in Dbs /\ NoFolder \in Folders /\ ~NoFolder.exists /\ Idle.at = "idle" /\ Idle \notin Commands
  /\ [NoFolder EXCEPT !.exists = TRUE] \in Folders
<1>1. NoDb \in Dbs
  BY LibraryConstants DEF NoDb, Dbs, Stories, Names
<1>2. NoFolder \in Folders /\ [NoFolder EXCEPT !.exists = TRUE] \in Folders
  <2> HIDE DEF NoDb
  <2> QED BY <1>1 DEF NoFolder, Folders, Names
<1>3. Idle.at = "idle" /\ "idle" \notin Steps
  BY DEF Idle, Steps, Writing
<1> QED
  BY <1>1, <1>2, <1>3 DEF NoFolder, Commands

-----------------------------------------------------------------------------
\* Frames: what a step that leaves part of the state alone keeps.

\* Projects and staging folders depend on the operations, the folders and the
\* attempts only.
LEMMA FoldersFrame ==
  ASSUME OpsOK, ProjectsOK, StagedOK, lib'.ops = lib.ops, folders' = folders, budget'.staged = budget.staged
  PROVE  OpsOK' /\ ProjectsOK' /\ StagedOK'
BY DEF OpsOK, ProjectsOK, StagedOK, StagedAs, Made, Earlier, Own, Asked

\* Without a command nothing is owed for one.
LEMMA IdleFrame ==
  ASSUME cmd' = Idle
  PROVE  WritingOK' /\ HeldOK' /\ CommandOK'
BY EmptyTyped DEF WritingOK, HeldOK, CommandOK, Writing

\* The sources bound what was asked for.
LEMMA SourcesFrame ==
  ASSUME SourcesOK, source' = source, budget'.changes = budget.changes
  PROVE  SourcesOK'
BY DEF SourcesOK, Readable, ValidDatabase, PinsValid, ImportValid

\* The list depends on the library alone.
LEMMA ListFrame ==
  ASSUME CompletedIsListed, lib'.ops = lib.ops, lib'.entries = lib.entries
  PROVE  CompletedIsListed'
BY DEF CompletedIsListed

-----------------------------------------------------------------------------
\* Each step keeps the invariant.

\* A command that has not come to its files owes nothing for them.
LEMMA BeforeFiles ==
  ASSUME cmd'.at \in {"begin", "look", "read", "register", "complete", "insert"}
  PROVE  WritingOK' /\ HeldOK'
BY DEF WritingOK, HeldOK, Writing

\* A request finds the row of its operation, or makes one.
LEMMA RequestStep ==
  ASSUME Inv, NEW op \in Operations, NEW kind \in Kinds, Request(op, kind)
  PROVE  Inv'
<1> USE DEF Inv
<1>1. Basis(kind) \in Stories /\ (kind = "create" => Basis(kind) = 0)
  <2>1. 0 \in Stories
    BY LibraryConstants DEF Stories
  <2> QED
    BY <2>1 DEF Basis, TypeOK, Dbs, Kinds
<1>2. OpsOK' /\ ProjectsOK' /\ StagedOK' /\ SourcesOK' /\ CompletedIsListed'
  BY FoldersFrame, SourcesFrame, ListFrame DEF Request
<1>3. CASE cmd' = [at |-> "begin", op |-> op, kind |-> kind, basis |-> Basis(kind), held |-> NoDb]
           /\ lib.ops[op] = NoOp
  <2>1. cmd' \in Commands
    BY <1>1, <1>3, EmptyTyped DEF Commands, Steps
  <2>2. TypeOK'
    BY <2>1 DEF TypeOK, Request
  <2>3. CommandOK'
    BY <1>1, <1>3 DEF CommandOK, Request, Writing
  <2> QED
    BY <1>2, <1>3, <2>2, <2>3, BeforeFiles
<1>4. CASE /\ lib.ops[op].kind = kind /\ Available(op)
           /\ cmd' = [at |-> "look", op |-> op, kind |-> kind, basis |-> lib.ops[op].basis, held |-> NoDb]
  <2>1. cmd' \in Commands
    BY <1>4, EmptyTyped DEF Commands, Steps, TypeOK
  <2>2. TypeOK'
    BY <2>1 DEF TypeOK, Request
  <2>3. CommandOK'
    BY <1>4 DEF CommandOK, Request, Writing, Available, Final
  <2> QED
    BY <1>2, <1>4, <2>2, <2>3, BeforeFiles
<1> QED
  BY <1>3, <1>4 DEF Request

\* The row of the operation is recorded.
LEMMA BeginStep ==
  ASSUME Inv, Begin
  PROVE  Inv'
<1> USE DEF Inv
<1> DEFINE op == cmd.op
           row == [kind |-> cmd.kind, basis |-> cmd.basis, completed |-> FALSE]
<1>1. cmd \in Commands /\ cmd.at = "begin" /\ lib.ops[op] = NoOp /\ op \in Operations
      /\ (cmd.kind = "create" => cmd.basis = 0)
  BY DEF Begin, TypeOK, CommandOK, Idle, Commands
<1>2. /\ lib'.ops = [lib.ops EXCEPT ![op] = row] /\ lib'.entries = lib.entries
      /\ lib'.archived = lib.archived
      /\ cmd'.at = "look" /\ cmd'.op = op /\ cmd'.kind = cmd.kind /\ cmd'.basis = cmd.basis
      /\ cmd' \in Commands /\ folders' = folders /\ source' = source /\ budget' = budget
  BY <1>1 DEF Begin, TypeOK, Commands, Steps
<1>3. row \in [kind : Kinds \cup {"none"}, basis : Stories, completed : BOOLEAN] /\ row.kind \in Kinds
  BY <1>1 DEF Commands
<1>4. lib' = [lib EXCEPT !.ops[op] = row]
  BY DEF Begin
<1>5. \A x \in Operations : x # op => lib'.ops[x] = lib.ops[x]
  BY <1>1, <1>2 DEF TypeOK
<1>6. lib'.ops[op] = row
  BY <1>1, <1>2 DEF TypeOK
<1>7. lib' \in [ops : [Operations -> [kind : Kinds \cup {"none"}, basis : Stories, completed : BOOLEAN]],
                entries : [Identities -> {None} \cup (Operations \X Places)], archived : SUBSET Identities]
  <2> HIDE DEF row
  <2> QED BY <1>1, <1>3, <1>4 DEF TypeOK
<1>8. TypeOK'
  BY <1>2, <1>7 DEF TypeOK
<1>9. OpsOK'
  BY <1>1, <1>3, <1>5, <1>6 DEF OpsOK, Kinds
<1>10. \A p \in {"final", "away"} : ~folders[op][p].exists
  BY <1>1 DEF ProjectsOK, Made, NoOp, Kinds
<1>11. ~(folders[op]["staging"].exists /\ folders[op]["staging"].origin)
  BY <1>1 DEF StagedOK, StagedAs, NoOp, Kinds
<1>12. ProjectsOK'
  BY <1>2, <1>5, <1>10, SMTT(40) DEF ProjectsOK, Made, Earlier, Asked
<1>13. StagedOK'
  BY <1>2, <1>5, <1>11 DEF StagedOK, StagedAs, Own, Asked
<1>14. CommandOK'
  BY <1>2, <1>6, EmptyTyped DEF CommandOK, Writing
<1>15. CompletedIsListed'
  BY <1>2, <1>5, <1>6 DEF CompletedIsListed
<1> QED
  BY <1>2, <1>8, <1>9, <1>12, <1>13, <1>14, <1>15, SourcesFrame, BeforeFiles

\* Looking at what an earlier attempt left changes the command only.
LEMMA LookStep ==
  ASSUME Inv, Reuse \/ Resume \/ RefuseStaging \/ Fresh \/ ReadArchive
  PROVE  Inv'
<1> USE DEF Inv
<1>1. lib' = lib /\ folders' = folders /\ source' = source /\ budget' = budget
  BY DEF Reuse, Resume, RefuseStaging, Fresh, ReadArchive
<1>2. OpsOK' /\ ProjectsOK' /\ StagedOK' /\ SourcesOK' /\ CompletedIsListed'
  BY <1>1, FoldersFrame, SourcesFrame, ListFrame
<1>3. cmd \in Commands /\ cmd # Idle
  BY EmptyTyped DEF Reuse, Resume, RefuseStaging, Fresh, ReadArchive, TypeOK
<1>4. ASSUME cmd' \in {Idle} \cup Commands PROVE TypeOK'
  BY <1>1, <1>4 DEF TypeOK
<1>5. CASE cmd' = Idle
  BY <1>2, <1>4, <1>5, IdleFrame
<1>6. CASE Reuse
  <2>1. cmd' \in Commands /\ cmd'.at = "register" /\ cmd'.op = cmd.op /\ cmd'.kind = cmd.kind
        /\ cmd'.basis = cmd.basis
    BY <1>3, <1>6 DEF Reuse, Commands, Steps
  <2>2. CommandOK'
    BY <1>1, <1>3, <1>6, <2>1 DEF CommandOK, Reuse, Final, Writing
  <2> QED
    BY <1>2, <1>4, <2>1, <2>2, BeforeFiles
<1>7. CASE Resume
  <2>1. cmd' \in Commands /\ cmd'.at = "install" /\ cmd'.op = cmd.op /\ cmd'.kind = cmd.kind
        /\ cmd'.basis = cmd.basis
    BY <1>3, <1>7 DEF Resume, Commands, Steps
  <2>2. CommandOK'
    BY <1>1, <1>3, <1>7, <2>1 DEF CommandOK, Resume, Final, Writing
  <2>3. WritingOK' /\ HeldOK'
    BY <1>1, <1>7, <2>1 DEF WritingOK, HeldOK, Writing, Resume, Staging
  <2> QED
    BY <1>2, <1>4, <2>1, <2>2, <2>3
<1>8. CASE Fresh /\ cmd' # Idle
  <2>1. /\ cmd.at = "look" /\ ~Final.exists /\ ~Staging.exists /\ budget.staged[cmd.op] < AttemptLimit
        /\ ~lib.ops[cmd.op].completed /\ lib.ops[cmd.op].kind = cmd.kind /\ lib.ops[cmd.op].basis = cmd.basis
    BY <1>3, <1>8 DEF Fresh, CommandOK
  <2>2. cmd.kind \in Kinds /\ cmd.held \in Dbs
    BY <1>3 DEF Commands
  <2>3. /\ cmd' \in Commands /\ cmd'.op = cmd.op /\ cmd'.kind = cmd.kind /\ cmd'.basis = cmd.basis
        /\ \/ cmd'.at = "read" /\ cmd.kind = "recover"
           \/ /\ cmd'.at = "mkdir"
              /\ cmd.kind = "duplicate" => Readable(cmd'.held)
              /\ cmd.kind \in {"duplicate", "import"} => cmd'.held.story = cmd.basis
              /\ cmd.kind # "recover"
    <3>1. CASE cmd.kind = "create"
      BY <1>3, <1>8, <3>1 DEF Fresh, FromNothing, Commands, Steps
    <3>2. CASE cmd.kind = "recover"
      BY <1>3, <1>8, <3>2 DEF Fresh, FromBackup, Commands, Steps
    <3>3. CASE cmd.kind = "duplicate"
      <4>1. /\ cmd' = [cmd EXCEPT !.at = "mkdir", !.held = Backup(source.duplicate)]
            /\ SameBasis(Backup(source.duplicate))
        BY <1>8, <3>3 DEF Fresh, FromProject
      <4>2. Backup(source.duplicate) \in Dbs /\ Readable(Backup(source.duplicate))
        BY EmptyTyped DEF Backup, TypeOK, SourcesOK, Readable
      <4> HIDE DEF Inv
      <4> QED
        BY <1>3, <3>3, <4>1, <4>2 DEF SameBasis, Commands, Steps
    <3>4. CASE cmd.kind = "import"
      <4>1. cmd' = [cmd EXCEPT !.at = "mkdir", !.held = source.import] /\ SameBasis(source.import)
        BY <1>8, <3>4 DEF Fresh, FromV2
      <4>2. source.import \in Dbs
        BY DEF TypeOK
      <4> QED
        BY <1>3, <3>4, <4>1, <4>2 DEF SameBasis, Commands, Steps
    <3> QED
      BY <2>2, <3>1, <3>2, <3>3, <3>4 DEF Kinds
  <2>4. CommandOK'
    BY <1>1, <2>1, <2>3 DEF CommandOK, Final, Staging, Writing
  <2>5. WritingOK' /\ HeldOK'
    BY <2>3 DEF WritingOK, HeldOK, Writing
  <2> QED
    BY <1>2, <1>4, <2>3, <2>4, <2>5
<1>9. CASE ReadArchive /\ cmd' # Idle
  <2>1. cmd.at = "read" /\ source.recover # NoDb /\ cmd' = [cmd EXCEPT !.at = "mkdir", !.held = source.recover]
    BY <1>9 DEF ReadArchive
  <2>2. source.recover \in Dbs /\ Readable(source.recover)
    BY <2>1 DEF TypeOK, SourcesOK
  <2>3. /\ cmd' \in Commands /\ cmd'.at = "mkdir" /\ cmd'.op = cmd.op /\ cmd'.kind = cmd.kind
        /\ cmd'.basis = cmd.basis /\ cmd'.held = source.recover
    BY <1>3, <2>1, <2>2 DEF Commands, Steps
  <2>4. CommandOK' /\ cmd.kind = "recover"
    BY <1>1, <1>3, <2>1, <2>3 DEF CommandOK, Final, Staging, Writing
  <2>5. WritingOK' /\ HeldOK'
    BY <2>2, <2>3, <2>4 DEF WritingOK, HeldOK, Writing
  <2> QED
    BY <1>2, <1>4, <2>3, <2>4, <2>5
<1>10. CASE RefuseStaging
  BY <1>5, <1>10 DEF RefuseStaging
<1> QED
  BY <1>5, <1>6, <1>7, <1>8, <1>9, <1>10

\* The order in which the files of each kind of project are written.
LEMMA FilesInOrder ==
  /\ \A kind \in {"create", "import"} : After(kind, "mkdir") = "db" /\ After(kind, "db") = "marker"
  /\ \A kind \in {"duplicate", "recover"} :
       After(kind, "mkdir") = "copy" /\ After(kind, "copy") = "rotate" /\ After(kind, "rotate") = "marker"
  /\ \A kind \in Kinds : After(kind, "marker") = "origin"
  /\ \A kind \in {"create", "duplicate", "recover"} : After(kind, "origin") = "install"
  /\ After("import", "origin") = "populate" /\ After("import", "populate") = "install"
<1>1. ASSUME NEW kind \in Kinds,
             \A i, j \in 1..Len(Files(kind)) - 1 : Files(kind)[i] = Files(kind)[j] => i = j,
             NEW n \in 1..Len(Files(kind)) - 1
      PROVE  After(kind, Files(kind)[n]) = Files(kind)[n + 1]
  <2>1. (CHOOSE i \in 1..Len(Files(kind)) - 1 : Files(kind)[i] = Files(kind)[n]) = n
    BY <1>1
  <2> QED
    BY <2>1 DEF After
<1>2. ASSUME NEW kind \in {"create"}
      PROVE  /\ After(kind, "mkdir") = "db"
             /\ After(kind, "db") = "marker"
             /\ After(kind, "marker") = "origin"
             /\ After(kind, "origin") = "install"
  <2>1. /\ Len(Files(kind)) = 5
        /\ Files(kind)[1] = "mkdir" /\ Files(kind)[2] = "db" /\ Files(kind)[3] = "marker"
        /\ Files(kind)[4] = "origin" /\ Files(kind)[5] = "install"
    BY <1>2 DEF Files
  <2>2. \A i, j \in 1..4 : Files(kind)[i] = Files(kind)[j] => i = j
    BY <2>1
  <2>3. \A m \in 1..4 : After(kind, Files(kind)[m]) = Files(kind)[m + 1]
    <3>1. kind \in Kinds /\ \A i, j \in 1..Len(Files(kind)) - 1 : Files(kind)[i] = Files(kind)[j] => i = j
      BY <2>1, <2>2 DEF Kinds
    <3>2. \A m \in 1..Len(Files(kind)) - 1 : After(kind, Files(kind)[m]) = Files(kind)[m + 1]
      BY <1>1, <3>1, Zenon
    <3> QED
      BY <2>1, <3>2
  <2> QED
    BY <2>1, <2>3
<1>3. ASSUME NEW kind \in {"import"}
      PROVE  /\ After(kind, "mkdir") = "db"
             /\ After(kind, "db") = "marker"
             /\ After(kind, "marker") = "origin"
             /\ After(kind, "origin") = "populate"
             /\ After(kind, "populate") = "install"
  <2>1. /\ Len(Files(kind)) = 6
        /\ Files(kind)[1] = "mkdir" /\ Files(kind)[2] = "db" /\ Files(kind)[3] = "marker"
        /\ Files(kind)[4] = "origin" /\ Files(kind)[5] = "populate" /\ Files(kind)[6] = "install"
    BY <1>3 DEF Files
  <2>2. \A i, j \in 1..5 : Files(kind)[i] = Files(kind)[j] => i = j
    BY <2>1
  <2>3. \A m \in 1..5 : After(kind, Files(kind)[m]) = Files(kind)[m + 1]
    <3>1. kind \in Kinds /\ \A i, j \in 1..Len(Files(kind)) - 1 : Files(kind)[i] = Files(kind)[j] => i = j
      BY <2>1, <2>2 DEF Kinds
    <3>2. \A m \in 1..Len(Files(kind)) - 1 : After(kind, Files(kind)[m]) = Files(kind)[m + 1]
      BY <1>1, <3>1, Zenon
    <3> QED
      BY <2>1, <3>2
  <2> QED
    BY <2>1, <2>3
<1>4. ASSUME NEW kind \in {"duplicate", "recover"}
      PROVE  /\ After(kind, "mkdir") = "copy"
             /\ After(kind, "copy") = "rotate"
             /\ After(kind, "rotate") = "marker"
             /\ After(kind, "marker") = "origin"
             /\ After(kind, "origin") = "install"
  <2>1. /\ Len(Files(kind)) = 6
        /\ Files(kind)[1] = "mkdir" /\ Files(kind)[2] = "copy" /\ Files(kind)[3] = "rotate"
        /\ Files(kind)[4] = "marker" /\ Files(kind)[5] = "origin" /\ Files(kind)[6] = "install"
    BY <1>4 DEF Files
  <2>2. \A i, j \in 1..5 : Files(kind)[i] = Files(kind)[j] => i = j
    BY <2>1
  <2>3. \A m \in 1..5 : After(kind, Files(kind)[m]) = Files(kind)[m + 1]
    <3>1. kind \in Kinds /\ \A i, j \in 1..Len(Files(kind)) - 1 : Files(kind)[i] = Files(kind)[j] => i = j
      BY <2>1, <2>2 DEF Kinds
    <3>2. \A m \in 1..Len(Files(kind)) - 1 : After(kind, Files(kind)[m]) = Files(kind)[m + 1]
      BY <1>1, <3>1, Zenon
    <3> QED
      BY <2>1, <3>2
  <2> QED
    BY <2>1, <2>3
<1> QED
  BY <1>2, <1>3, <1>4 DEF Kinds

\* What a valid database is.
LEMMA ValidMeans ==
  \A db, ident : ValidDatabase(db, ident) <=>
    db.ident = ident /\ db.pins \in {None, db.ident} /\ db.manifest \in {None, db.ident}
BY DEF ValidDatabase, PinsValid, ImportValid

\* What is copied is valid before its identity changes and after.
LEMMA CopyableHolds ==
  ASSUME Inv
  PROVE  Copyable
<1> USE DEF Inv
<1>1. ASSUME cmd.at = "rotate" PROVE ValidDatabase(Staging.db, Staging.db.ident)
  <2>1. cmd # Idle
    BY <1>1, EmptyTyped
  <2>2. Staging.db = cmd.held /\ Readable(cmd.held)
    BY <1>1, <2>1 DEF WritingOK, HeldOK, CommandOK, Writing
  <2> QED
    BY <2>2 DEF Readable
<1>2. ASSUME cmd.at = "origin" PROVE ValidDatabase(Staging.db, Ident)
  BY <1>2 DEF WritingOK, NewDb, Own, Ident
<1> QED
  BY <1>1, <1>2 DEF Copyable

\* A change of the staging folder of one operation.
LEMMA StagingFrame ==
  ASSUME Inv, NEW op \in Operations, NEW g \in Folders,
         folders' = [folders EXCEPT ![op]["staging"] = g],
         lib' = lib, budget'.staged = budget.staged,
         folders[op]["staging"].exists, g.exists,
         StagedAs(op, g)
  PROVE  /\ folders' \in [Operations -> [Places -> Folders]] /\ folders'[op]["staging"] = g
         /\ \A x \in Operations : folders'[x]["final"] = folders[x]["final"]
         /\ OpsOK' /\ ProjectsOK' /\ StagedOK' /\ CompletedIsListed'
<1> USE DEF Inv
<1>1. folders \in [Operations -> [Places -> Folders]] /\ Places = {"staging", "final", "away"}
  BY DEF TypeOK, Places
<1>2. folders' \in [Operations -> [Places -> Folders]]
  BY <1>1
<1>3. /\ folders'[op]["staging"] = g
      /\ \A x \in Operations, p \in {"final", "away"} : folders'[x][p] = folders[x][p]
      /\ \A x \in Operations : x # op => folders'[x]["staging"] = folders[x]["staging"]
  BY <1>1
<1>4. \A x \in Operations : folders'[x]["staging"].exists = folders[x]["staging"].exists
  BY <1>1, <1>3 DEF Folders
<1>5. ProjectsOK'
  BY <1>3, <1>4 DEF ProjectsOK, Made, Earlier, Asked
<1>6. StagedOK'
  <2>1. \A x \in Operations, f \in Folders : StagedAs(x, f) => StagedAs(x, f)'
    BY DEF StagedAs, Own, Asked
  <2> QED
    BY <1>1, <1>2, <1>3, <2>1 DEF StagedOK
<1>7. OpsOK' /\ CompletedIsListed'
  BY DEF OpsOK, CompletedIsListed
<1> QED
  BY <1>2, <1>3, <1>5, <1>6, <1>7

\* A file is written and the command goes on to the next one, n.
LEMMA WritingStep ==
  ASSUME Inv, cmd \in Commands, cmd.at \in Writing,
         NEW n \in {"rotate", "marker", "origin", "populate", "install"}, cmd' = [cmd EXCEPT !.at = n],
         NEW g \in Folders, g.exists, StagedAs(cmd.op, g),
         folders' = [folders EXCEPT ![cmd.op]["staging"] = g], UNCHANGED <<lib, source, open, budget>>,
         n = "rotate" => g.db = cmd.held /\ cmd.kind \in {"duplicate", "recover"},
         n \in {"rotate", "marker", "origin"} => ~g.origin,
         n \in {"marker", "origin"} => NewDb(g.db),
         n = "origin" => g.marker = g.db.ident,
         n = "populate" => g.origin /\ cmd.kind = "import",
         n = "install" => Prepared(g, cmd.kind)
  PROVE  Inv'
<1> USE DEF Inv
<1>1. /\ cmd' \in Commands /\ cmd'.at = n /\ cmd'.op = cmd.op /\ cmd'.kind = cmd.kind
      /\ cmd'.basis = cmd.basis /\ cmd'.held = cmd.held /\ cmd.op \in Operations /\ cmd # Idle /\ cmd' # Idle
  BY EmptyTyped DEF Commands, Steps, Writing
<1>2. Staging.exists
  BY DEF WritingOK
<1>3. /\ folders' \in [Operations -> [Places -> Folders]] /\ folders'[cmd.op]["staging"] = g
      /\ \A x \in Operations : folders'[x]["final"] = folders[x]["final"]
      /\ OpsOK' /\ ProjectsOK' /\ StagedOK' /\ CompletedIsListed'
  BY <1>1, <1>2, StagingFrame DEF Staging
<1>4. TypeOK'
  BY <1>1, <1>3 DEF TypeOK
<1>5. /\ lib.ops[cmd.op].kind = cmd.kind /\ lib.ops[cmd.op].basis = cmd.basis
      /\ ~lib.ops[cmd.op].completed /\ ~Final.exists
  BY <1>1 DEF CommandOK, Writing
<1>6. Final' = Final /\ Staging' = g
  BY <1>1, <1>3 DEF Final, Staging
<1>7. CommandOK'
  BY <1>1, <1>5, <1>6 DEF CommandOK, Writing
<1>8. NewDb(g.db) => NewDb(g.db)'
  BY <1>1 DEF NewDb, Own, ValidDatabase, PinsValid, ImportValid
<1>9. WritingOK'
  BY <1>1, <1>6, <1>8 DEF WritingOK, Writing, Prepared, ImportRead, ValidDatabase, PinsValid, ImportValid
<1>10. HeldOK'
  BY <1>1 DEF HeldOK, Readable, Writing
<1> QED
  BY <1>3, <1>4, <1>7, <1>9, <1>10, SourcesFrame

\* The folder is made, its files are written, and at last its origin; an import
\* is populated after that.
LEMMA StageStep ==
  ASSUME Inv, Stage
  PROVE  Inv'
<1> USE DEF Inv
<1> DEFINE op == cmd.op
           f == Staging
           g == Written(cmd.at, f)
           n == After(cmd.kind, cmd.at)
<1>1. /\ cmd \in Commands /\ cmd # Idle /\ op \in Operations /\ cmd.kind \in Kinds /\ cmd.held \in Dbs
      /\ cmd.at \in {"mkdir"} \cup Writing
  BY EmptyTyped DEF Stage, TypeOK, Commands, Writing
<1>2. /\ folders' = [folders EXCEPT ![op]["staging"] = g] /\ cmd' = [cmd EXCEPT !.at = n]
      /\ lib' = lib /\ source' = source /\ open' = open
      /\ budget' = IF cmd.at = "mkdir" THEN [budget EXCEPT !.staged[op] = @ + 1] ELSE budget
  BY CopyableHolds DEF Stage, Staging
<1>3. /\ lib.ops[op].kind = cmd.kind /\ lib.ops[op].basis = cmd.basis
      /\ ~lib.ops[op].completed /\ ~Final.exists
  BY <1>1 DEF CommandOK, Writing
<1>4. f \in Folders /\ f.db \in Dbs /\ StagedAs(op, f)
  BY <1>1 DEF TypeOK, Staging, Places, StagedOK, Folders
<1>5. cmd.at \in Writing => f.exists /\ Ident = Own(op) /\ Own(op) \in Identities
  BY <1>1, <1>4, IdentFacts DEF WritingOK, StagedAs, Ident, Own, TypeOK
<1>6. Identities \subseteq Names /\ None \in Names /\ 0 \in Stories
  BY LibraryConstants DEF Names, Stories
<1>7. CASE cmd.at = "mkdir"
  <2>1. n \in {"db", "copy"} /\ (n = "db" => cmd.kind \in {"create", "import"})
        /\ (n = "copy" => cmd.kind \in {"duplicate", "recover"})
    BY <1>1, <1>7, FilesInOrder DEF Kinds
  <2>2. /\ cmd' \in Commands /\ cmd'.at = n /\ cmd'.op = op /\ cmd'.kind = cmd.kind
        /\ cmd'.basis = cmd.basis /\ cmd'.held = cmd.held
    <3> HIDE DEF n
    <3> QED BY <1>1, <1>2, <2>1 DEF Commands, Steps, Writing
  <2>3. g = [NoFolder EXCEPT !.exists = TRUE] /\ g \in Folders /\ ~g.origin
    BY <1>7, EmptyTyped DEF Written, NoFolder
  <2>4. ~f.exists /\ budget.staged[op] < AttemptLimit
    BY <1>1, <1>7 DEF CommandOK
  <2>5. budget' = [budget EXCEPT !.staged[op] = @ + 1]
    BY <1>2, <1>7
  <2>6. /\ budget' \in [changes : 0..ChangeLimit, faults : Nat, staged : [Operations -> 0..AttemptLimit]]
        /\ budget'.staged[op] = budget.staged[op] + 1 /\ budget'.changes = budget.changes
        /\ \A x \in Operations : x # op => budget'.staged[x] = budget.staged[x]
    <3>1. budget \in [changes : 0..ChangeLimit, faults : Nat, staged : [Operations -> 0..AttemptLimit]]
      BY DEF TypeOK
    <3>2. budget.staged[op] + 1 \in 0..AttemptLimit
      BY <1>1, <2>4, <3>1, LibraryConstants
    <3>3. budget' = [budget EXCEPT !.staged = [budget.staged EXCEPT ![op] = budget.staged[op] + 1]]
      BY <2>5
    <3> HIDE DEF op, f, g, n, Inv
    <3> QED
      BY <1>1, <3>1, <3>2, <3>3
  <2> HIDE DEF g, n
  <2>7. /\ folders' \in [Operations -> [Places -> Folders]] /\ folders'[op]["staging"] = g
        /\ \A x \in Operations, p \in {"final", "away"} : folders'[x][p] = folders[x][p]
        /\ \A x \in Operations : x # op => folders'[x]["staging"] = folders[x]["staging"]
    BY <1>1, <1>2, <2>3 DEF TypeOK, Places
  <2>8. TypeOK'
    BY <1>2, <2>2, <2>6, <2>7 DEF TypeOK
  <2>9. ProjectsOK'
    <3>1. SUFFICES ASSUME NEW x \in Operations, NEW p \in {"final", "away"}, folders[x][p].exists
                   PROVE  /\ Made(x, folders[x][p])'
                          /\ Earlier(x, folders[x][p].db.ident)'
      BY <2>7 DEF ProjectsOK
    <3>2. Made(x, folders[x][p]) /\ Earlier(x, folders[x][p].db.ident)
      BY <3>1 DEF ProjectsOK
    <3>3. Made(x, folders[x][p])'
      BY <1>2, <2>7, <3>2 DEF Made, Asked
    <3>4. CASE x # op
      BY <1>2, <2>6, <2>7, <3>2, <3>3, <3>4 DEF Earlier
    <3>5. CASE x = op
      <4>1. budget.staged[op] \in Nat
        BY <1>1 DEF TypeOK
      <4>2. \E m \in 1..budget'.staged[op] : folders[x][p].db.ident = <<op, m>> /\ m < budget'.staged[op]
        BY <2>6, <3>2, <3>5, <4>1 DEF Earlier
      <4> QED
        BY <2>7, <3>3, <3>5, <4>2 DEF Earlier
    <3> QED
      BY <3>4, <3>5
  <2>10. StagedOK'
    <3>1. budget'.staged[op] >= 1
      BY <1>1, <2>6 DEF TypeOK
    <3>2. \A x \in Operations : x # op => StagedAs(x, folders[x]["staging"])'
      BY <1>2, <2>6, <2>7 DEF StagedOK, StagedAs, Own, Asked
    <3> QED
      BY <2>3, <2>7, <3>1, <3>2 DEF StagedOK, StagedAs
  <2>11. Staging' = g /\ Final' = Final /\ g.exists
    BY <1>1, <2>2, <2>3, <2>7, EmptyTyped DEF Staging, Final, NoFolder
  <2>12. WritingOK' /\ HeldOK'
    BY <1>7, <2>1, <2>2, <2>3, <2>11 DEF WritingOK, HeldOK, Writing, Readable
  <2>13. CommandOK'
    BY <1>2, <1>3, <2>1, <2>2, <2>11 DEF CommandOK, Writing
  <2>14. OpsOK' /\ CompletedIsListed' /\ SourcesOK'
    BY <1>2, <2>6, SourcesFrame DEF OpsOK, CompletedIsListed
  <2> QED
    BY <2>8, <2>9, <2>10, <2>12, <2>13, <2>14
<1>8. CASE cmd.at = "db"
  <2>1. n = "marker" /\ cmd.kind \in {"create", "import"}
    BY <1>1, <1>8, FilesInOrder DEF CommandOK
  <2>2. g = [f EXCEPT !.db = [NoDb EXCEPT !.ident = Own(op)]]
    BY <1>5, <1>8 DEF Written, WriteProject, Writing
  <2> DEFINE d == [NoDb EXCEPT !.ident = Own(op)]
  <2>3. /\ d \in Dbs /\ d.ident = Own(op) /\ ~d.ready /\ d.pins = None /\ d.manifest = None /\ d.story = 0
    BY <1>5, <1>6, <1>8, EmptyTyped DEF Dbs, NoDb, Writing
  <2>4. NewDb(d)
    BY <2>1, <2>3, ValidMeans DEF NewDb
  <2>5. ~f.origin /\ f.exists
    BY <1>8 DEF WritingOK, NoFolder
  <2> HIDE DEF d
  <2>6. g \in Folders /\ g.exists /\ ~g.origin /\ g.db = d
    BY <1>4, <2>2, <2>3, <2>5 DEF Folders, d
  <2>7. StagedAs(op, g)
    BY <1>4, <2>5, <2>6 DEF StagedAs
  <2> HIDE DEF g, n
  <2> QED
    BY <1>1, <1>2, <1>8, <2>1, <2>4, <2>6, <2>7, WritingStep DEF Writing
<1>9. CASE cmd.at = "copy"
  <2>1. n = "rotate" /\ cmd.kind \in {"duplicate", "recover"}
    BY <1>1, <1>9, FilesInOrder DEF CommandOK
  <2>2. g = [f EXCEPT !.db = cmd.held]
    BY <1>9 DEF Written, CopyDatabase
  <2>3. ~f.origin /\ f.exists
    BY <1>9 DEF WritingOK, NoFolder
  <2>4. g \in Folders /\ g.exists /\ ~g.origin /\ g.db = cmd.held
    BY <1>1, <1>4, <2>2, <2>3 DEF Folders
  <2>5. StagedAs(op, g)
    BY <1>4, <2>3, <2>4 DEF StagedAs
  <2> HIDE DEF g, n
  <2> QED
    BY <1>1, <1>2, <1>9, <2>1, <2>4, <2>5, WritingStep DEF Writing
<1>10. CASE cmd.at = "rotate"
  <2>1. n = "marker" /\ cmd.kind \in {"duplicate", "recover"}
    BY <1>1, <1>10, FilesInOrder DEF CommandOK
  <2> DEFINE d == [f.db EXCEPT !.ident = Ident, !.ready = FALSE,
                               !.pins = IF @ = None THEN None ELSE Ident,
                               !.manifest = IF @ = None THEN None ELSE Ident]
  <2>2. g = [f EXCEPT !.db = d]
    BY <1>10 DEF Written, RotateIdentity
  <2>3. f.db = cmd.held /\ ~f.origin /\ f.exists
    BY <1>10 DEF WritingOK, Writing
  <2>4. /\ d \in Dbs /\ d.ident = Own(op) /\ ~d.ready /\ d.pins \in {None, Own(op)}
        /\ d.manifest \in {None, Own(op)} /\ d.story = cmd.held.story
    BY <1>4, <1>5, <1>6, <1>10, <2>3 DEF Dbs, Writing
  <2> HIDE DEF d
  <2>5. NewDb(d)
    BY <2>1, <2>4, ValidMeans DEF NewDb
  <2>6. g \in Folders /\ g.exists /\ ~g.origin /\ g.db = d
    BY <1>4, <2>2, <2>3, <2>4 DEF Folders
  <2>7. StagedAs(op, g)
    BY <1>4, <2>3, <2>6 DEF StagedAs
  <2> HIDE DEF g, n
  <2> QED
    BY <1>1, <1>2, <1>10, <2>1, <2>5, <2>6, <2>7, WritingStep DEF Writing
<1>11. CASE cmd.at = "marker"
  <2>1. n = "origin"
    BY <1>1, <1>11, FilesInOrder
  <2>2. g = [f EXCEPT !.marker = f.db.ident]
    BY <1>11 DEF Written, WriteMarker
  <2>3. NewDb(f.db) /\ ~f.origin /\ f.exists
    BY <1>11 DEF WritingOK, Writing
  <2>4. g \in Folders /\ g.exists /\ ~g.origin /\ g.db = f.db /\ g.marker = g.db.ident
    BY <1>4, <2>2, <2>3 DEF Folders, Dbs
  <2>5. StagedAs(op, g)
    BY <1>4, <2>3, <2>4 DEF StagedAs
  <2> HIDE DEF g, n
  <2> QED
    BY <1>1, <1>2, <1>11, <2>1, <2>3, <2>4, <2>5, WritingStep DEF Writing
<1>12. CASE cmd.at = "origin"
  <2>1. n = (IF cmd.kind = "import" THEN "populate" ELSE "install")
    BY <1>1, <1>12, FilesInOrder DEF Kinds
  <2>2. g = [f EXCEPT !.origin = TRUE]
    BY <1>12 DEF Written, WriteOrigin
  <2>3. NewDb(f.db) /\ f.exists /\ f.marker = f.db.ident
    BY <1>12 DEF WritingOK, Writing
  <2>4. g \in Folders /\ g.exists /\ g.origin /\ g.db = f.db /\ g.marker = f.db.ident
    BY <1>4, <2>2, <2>3 DEF Folders
  <2>5. /\ f.db.ident = Own(op) /\ ValidDatabase(f.db, f.db.ident) /\ ~f.db.ready
        /\ cmd.kind = "import" => f.db.manifest # f.db.ident
    BY <1>5, <1>12, <2>3, IdentFacts DEF NewDb, Writing
  <2>6. cmd.kind # "import" => Asked(op, f.db)
    <3>1. cmd.kind = "create" => f.db.story = 0 /\ lib.ops[op].basis = 0
      BY <1>1, <1>3, <2>3 DEF NewDb, OpsOK
    <3>2. cmd.kind = "duplicate" => f.db.story = lib.ops[op].basis
      BY <1>1, <1>3, <1>12, <2>3 DEF NewDb, HeldOK, Writing
    <3>3. cmd.kind = "recover" => f.db.story > 0
      BY <1>1, <1>12, <2>3 DEF NewDb, HeldOK, Readable, Writing
    <3> QED
      BY <1>3, <3>1, <3>2, <3>3 DEF Asked
  <2>7. StagedAs(op, g)
    BY <1>1, <1>3, <1>4, <2>3, <2>4, <2>5, <2>6 DEF StagedAs
  <2>8. n = "install" => Prepared(g, cmd.kind)
    BY <2>1, <2>4, <2>5 DEF Prepared
  <2>9. n \in {"populate", "install"} /\ (n = "populate" => cmd.kind = "import")
    BY <2>1
  <2> HIDE DEF g, n
  <2> QED
    BY <1>1, <1>2, <1>12, <2>4, <2>7, <2>8, <2>9, WritingStep DEF Writing
<1>13. CASE cmd.at = "populate"
  <2>1. n = "install" /\ cmd.kind = "import"
    BY <1>1, <1>13, FilesInOrder DEF CommandOK
  <2>2. g = [f EXCEPT !.db.story = cmd.held.story, !.db.manifest = f.db.ident]
    BY <1>13 DEF Written, Populate
  <2>3. f.exists /\ f.origin
    BY <1>13 DEF WritingOK, Writing
  <2>4. /\ f.db.ident = Own(op) /\ f.marker = Own(op) /\ ValidDatabase(f.db, f.db.ident) /\ ~f.db.ready
        /\ lib.ops[op].kind \in Kinds /\ budget.staged[op] >= 1
    BY <1>4, <2>3 DEF StagedAs
  <2> DEFINE d == [f.db EXCEPT !.story = cmd.held.story, !.manifest = f.db.ident]
  <2>5. g = [f EXCEPT !.db = d]
    BY <1>4, <2>2 DEF Folders, Dbs
  <2>6. /\ d \in Dbs /\ d.ident = Own(op) /\ ~d.ready /\ d.pins = f.db.pins
        /\ d.manifest = Own(op) /\ d.story = cmd.held.story
    BY <1>1, <1>4, <2>4 DEF Dbs
  <2> HIDE DEF d
  <2>7. g \in Folders /\ g.exists /\ g.origin /\ g.db = d /\ g.marker = Own(op)
    BY <1>4, <2>3, <2>4, <2>5, <2>6 DEF Folders
  <2>8. ValidDatabase(d, d.ident)
    BY <2>4, <2>6, ValidMeans
  <2>9. Asked(op, d)
    BY <1>1, <1>3, <1>13, <2>1, <2>6 DEF Asked, HeldOK, Writing
  <2>10. StagedAs(op, g)
    BY <2>4, <2>6, <2>7, <2>8, <2>9 DEF StagedAs
  <2>11. Prepared(g, cmd.kind)
    BY <2>1, <2>6, <2>7, <2>8 DEF Prepared, ImportRead
  <2> HIDE DEF g, n
  <2> QED
    BY <1>1, <1>2, <1>13, <2>1, <2>7, <2>10, <2>11, WritingStep DEF Writing
<1> QED
  BY <1>1, <1>7, <1>8, <1>9, <1>10, <1>11, <1>12, <1>13 DEF Writing

\* What is installed is a project of its operation, of an identity no project has.
LEMMA PreparedIsMade ==
  ASSUME Inv, cmd.at = "install"
  PROVE  /\ cmd \in Commands /\ cmd.op \in Operations /\ Staging \in Folders /\ Staging.exists
         /\ Made(cmd.op, Staging) /\ Staging.db.ident = Own(cmd.op) /\ Own(cmd.op) \in Identities
         /\ budget.staged[cmd.op] \in 1..AttemptLimit
         /\ lib.ops[cmd.op].kind = cmd.kind /\ ~lib.ops[cmd.op].completed /\ ~Final.exists
<1> USE DEF Inv
<1>1. cmd \in Commands /\ cmd # Idle /\ cmd.op \in Operations
  BY EmptyTyped DEF TypeOK, Commands
<1>2. Staging \in Folders /\ Staging.exists /\ Prepared(Staging, cmd.kind)
  BY <1>1 DEF TypeOK, Staging, Places, WritingOK
<1>3. lib.ops[cmd.op].kind = cmd.kind /\ ~lib.ops[cmd.op].completed /\ ~Final.exists
  BY <1>1 DEF CommandOK, Writing
<1>4. Staging.origin /\ (cmd.kind = "import" => Staging.db.manifest = Staging.db.ident)
  BY <1>2 DEF Prepared, ImportRead
<1>5. StagedAs(cmd.op, Staging)
  BY <1>1 DEF StagedOK, Staging
<1>6. budget.staged[cmd.op] \in 1..AttemptLimit
  BY <1>1, <1>2, <1>5, LibraryConstants DEF StagedAs, TypeOK
<1> QED
  BY <1>1, <1>2, <1>3, <1>4, <1>5, <1>6, IdentFacts DEF StagedAs, Made, Own

\* The prepared folder takes the place of the final one.
LEMMA InstallStep ==
  ASSUME Inv, Install
  PROVE  Inv'
<1> USE DEF Inv
<1> PICK op \in Operations : op = cmd.op
  BY PreparedIsMade DEF Install
<1> PICK f \in Folders : f = Staging
  BY PreparedIsMade DEF Install
<1>1. /\ cmd \in Commands /\ cmd.op = op /\ op \in Operations /\ f.exists
      /\ Made(op, f) /\ f.db.ident = Own(op) /\ Own(op) \in Identities
      /\ budget.staged[op] \in 1..AttemptLimit
      /\ lib.ops[op].kind = cmd.kind /\ ~lib.ops[op].completed /\ ~Final.exists
  BY PreparedIsMade DEF Install
<1>2. /\ folders' = [folders EXCEPT ![op]["final"] = f, ![op]["staging"] = NoFolder]
      /\ cmd' = [cmd EXCEPT !.at = "register"] /\ lib' = lib /\ source' = source /\ budget' = budget
  BY DEF Install
<1>3. /\ cmd' \in Commands /\ cmd'.at = "register" /\ cmd'.op = op /\ cmd'.kind = cmd.kind /\ cmd'.basis = cmd.basis
      /\ cmd # Idle /\ cmd.at = "install"
  BY <1>1, <1>2, EmptyTyped DEF Commands, Steps, Install
<1>4. folders \in [Operations -> [Places -> Folders]] /\ NoFolder \in Folders /\ ~NoFolder.exists
  BY EmptyTyped DEF TypeOK
<1> HIDE DEF Inv
<1>5. /\ folders' \in [Operations -> [Places -> Folders]]
      /\ folders'[op]["final"] = f /\ folders'[op]["staging"] = NoFolder
      /\ folders'[op]["away"] = folders[op]["away"]
      /\ \A x \in Operations, p \in Places : x # op => folders'[x][p] = folders[x][p]
  BY <1>1, <1>2, <1>4 DEF Places
<1> USE DEF Inv
<1>6. TypeOK'
  BY <1>2, <1>3, <1>5 DEF TypeOK
<1>7. \A x, g : (Made(x, g) => Made(x, g)') /\ (StagedAs(x, g) => StagedAs(x, g)')
  BY <1>2 DEF Made, Asked, StagedAs, Own
<1>8. ProjectsOK'
  <2>1. \A ident : ident = <<op, budget.staged[op]>> => Earlier(op, ident)'
    BY <1>1, <1>2, <1>4, <1>5 DEF Earlier
  <2>2. \A ident : ident = f.db.ident => Earlier(op, ident)'
    BY <1>1, <2>1 DEF Own
  <2>3. \A x \in Operations : \A ident : Earlier(x, ident) => Earlier(x, ident)'
    BY <1>2, <1>4, <1>5 DEF Earlier, Places
  <2>4. \A x \in Operations, p \in {"final", "away"} :
          \/ folders'[x][p] = folders[x][p]
          \/ x = op /\ p = "final" /\ folders'[x][p] = f
    BY <1>5 DEF Places
  <2>5. ASSUME NEW x \in Operations, NEW p \in {"final", "away"}, NEW g, NEW i, 
               g = folders'[x][p], i = g.db.ident, g.exists
        PROVE  Made(x, g)' /\ Earlier(x, i)'
    <3>1. CASE g = folders[x][p]
      BY <1>7, <2>3, <2>5, <3>1 DEF ProjectsOK
    <3>2. CASE x = op /\ g = f
      BY <1>1, <1>7, <2>2, <2>5, <3>2
    <3> QED BY <2>4, <2>5, <3>1, <3>2
  <2> QED
    BY <2>5 DEF ProjectsOK
<1>9. StagedOK'
  <2>1. ASSUME NEW x \in Operations, NEW g, g = folders'[x]["staging"]
        PROVE  StagedAs(x, g)'
    <3>1. CASE g = folders[x]["staging"]
      BY <1>7, <2>1, <3>1 DEF StagedOK
    <3>2. CASE g = NoFolder
      BY <1>4, <3>2 DEF StagedAs
    <3> QED BY <1>5, <2>1, <3>1, <3>2 DEF Places
  <2> QED
    BY <2>1 DEF StagedOK
<1>10. CommandOK'
  BY <1>1, <1>2, <1>3, <1>5 DEF CommandOK, Final, Writing
<1> QED
  BY <1>2, <1>3, <1>6, <1>8, <1>9, <1>10, BeforeFiles, SourcesFrame, ListFrame DEF OpsOK

\* The project of a command that came to its end.
LEMMA FinalFacts ==
  ASSUME Inv, cmd.at \in {"register", "complete", "insert"}
  PROVE  /\ cmd \in Commands /\ cmd # Idle /\ cmd.op \in Operations /\ Final.exists
         /\ Final = folders[cmd.op]["final"] /\ Made(cmd.op, Final)
         /\ lib.ops[cmd.op].kind = cmd.kind /\ lib.ops[cmd.op].basis = cmd.basis /\ cmd.kind \in Kinds
         /\ \E n \in 1..AttemptLimit : Final.db.ident = <<cmd.op, n>>
         /\ Final.db.ident \in Identities
<1> USE DEF Inv
<1>1. cmd \in Commands /\ cmd # Idle /\ cmd.op \in Operations /\ cmd.kind \in Kinds
  BY EmptyTyped DEF TypeOK, Commands
<1>2. Final.exists /\ lib.ops[cmd.op].kind = cmd.kind /\ lib.ops[cmd.op].basis = cmd.basis
  BY <1>1 DEF CommandOK
<1>3. Made(cmd.op, Final) /\ Earlier(cmd.op, Final.db.ident)
  BY <1>1, <1>2 DEF ProjectsOK, Final
<1>4. \E n \in 1..AttemptLimit : Final.db.ident = <<cmd.op, n>>
  BY <1>1, <1>3, LibraryConstants DEF Earlier, TypeOK
<1> QED
  BY <1>1, <1>2, <1>3, <1>4, IdentFacts DEF Final

\* Rows of operations that keep what was asked.
LEMMA RowsFrame ==
  ASSUME OpsOK, ProjectsOK, StagedOK, folders' = folders, budget'.staged = budget.staged,
         \A x \in Operations : lib'.ops[x].kind = lib.ops[x].kind /\ lib'.ops[x].basis = lib.ops[x].basis
  PROVE  ProjectsOK' /\ StagedOK'
BY DEF OpsOK, ProjectsOK, StagedOK, StagedAs, Made, Earlier, Own, Asked

\* An entry that is written is never an empty one.
LEMMA EntryStep ==
  ASSUME Inv, NEW ident \in Identities, NEW op \in Operations, NEW p \in Places,
         lib' = [lib EXCEPT !.entries[ident] = Path(op, p)]
  PROVE  /\ lib'.ops = lib.ops /\ lib'.archived = lib.archived
         /\ lib'.entries \in [Identities -> {None} \cup (Operations \X Places)]
         /\ lib'.entries[ident] # None /\ CompletedIsListed'
<1> USE DEF Inv
<1>1. Path(op, p) # None /\ Path(op, p) \in Operations \X Places
  BY IdentFacts DEF Path
<1>2. lib.entries \in [Identities -> {None} \cup (Operations \X Places)]
  BY DEF TypeOK
<1>3. lib'.entries = [lib.entries EXCEPT ![ident] = Path(op, p)] /\ lib'.ops = lib.ops /\ lib'.archived = lib.archived
  BY DEF TypeOK
<1>4. \A i \in Identities : lib.entries[i] # None => lib'.entries[i] # None
  BY <1>1, <1>2, <1>3
<1> QED
  BY <1>1, <1>2, <1>3, <1>4, IdentFacts DEF CompletedIsListed

\* The project is entered in the list before its operation is completed.
LEMMA RegisterStep ==
  ASSUME Inv, Register
  PROVE  Inv'
<1> USE DEF Inv
<1>1. cmd.at = "register" /\ folders' = folders /\ source' = source /\ budget' = budget
  BY DEF Register
<1>2. /\ cmd \in Commands /\ cmd # Idle /\ cmd.op \in Operations /\ Final.exists
      /\ lib.ops[cmd.op].kind = cmd.kind /\ lib.ops[cmd.op].basis = cmd.basis
      /\ Final.db.ident \in Identities
  BY <1>1, FinalFacts
<1>3. CASE lib' = lib /\ cmd' = [cmd EXCEPT !.at = "insert"]
  <2>1. cmd' \in Commands /\ cmd'.at = "insert" /\ cmd'.op = cmd.op /\ cmd'.kind = cmd.kind /\ cmd'.basis = cmd.basis
    BY <1>2, <1>3 DEF Commands, Steps
  <2>2. CommandOK' /\ TypeOK'
    BY <1>1, <1>2, <1>3, <2>1 DEF CommandOK, Final, Writing, TypeOK
  <2> QED
    BY <1>1, <1>3, <2>1, <2>2, FoldersFrame, SourcesFrame, ListFrame, BeforeFiles
<1>4. CASE /\ lib' = [lib EXCEPT !.entries[Final.db.ident] = Path(cmd.op, "final")]
           /\ cmd' = [cmd EXCEPT !.at = "complete"]
  <2>1. cmd' \in Commands /\ cmd'.at = "complete" /\ cmd'.op = cmd.op /\ cmd'.kind = cmd.kind /\ cmd'.basis = cmd.basis
    BY <1>2, <1>4 DEF Commands, Steps
  <2>2. /\ lib'.ops = lib.ops /\ lib'.archived = lib.archived
        /\ lib'.entries \in [Identities -> {None} \cup (Operations \X Places)]
        /\ lib'.entries[Final.db.ident] # None /\ CompletedIsListed'
    BY <1>2, <1>4, EntryStep DEF Places
  <2>3. TypeOK'
    BY <1>1, <1>4, <2>1, <2>2 DEF TypeOK
  <2>4. CommandOK'
    BY <1>1, <1>2, <2>1, <2>2 DEF CommandOK, Final, Writing
  <2> QED
    BY <1>1, <2>1, <2>2, <2>3, <2>4, FoldersFrame, SourcesFrame, BeforeFiles
<1> QED
  BY <1>3, <1>4 DEF Register

\* A completed operation has an entry.
LEMMA CompleteStep ==
  ASSUME Inv, Complete
  PROVE  Inv'
<1> USE DEF Inv
<1> DEFINE op == cmd.op
<1>1. /\ cmd.at = "complete" /\ folders' = folders /\ source' = source /\ budget' = budget
      /\ lib' = [lib EXCEPT !.ops[op].completed = TRUE] /\ cmd' = [cmd EXCEPT !.at = "insert"]
  BY DEF Complete
<1>2. /\ cmd \in Commands /\ cmd # Idle /\ op \in Operations /\ Final.exists
      /\ lib.ops[op].kind = cmd.kind /\ lib.ops[op].basis = cmd.basis /\ cmd.kind \in Kinds
      /\ \E n \in 1..AttemptLimit : Final.db.ident = <<op, n>>
  BY <1>1, FinalFacts
<1>3. lib.entries[Final.db.ident] # None
  BY <1>1, <1>2 DEF CommandOK
<1>4. /\ cmd' \in Commands /\ cmd'.at = "insert" /\ cmd'.op = op /\ cmd'.kind = cmd.kind /\ cmd'.basis = cmd.basis
  BY <1>1, <1>2 DEF Commands, Steps
<1> DEFINE row == [lib.ops[op] EXCEPT !.completed = TRUE]
<1>5a. /\ lib.ops \in [Operations -> [kind : Kinds \cup {"none"}, basis : Stories, completed : BOOLEAN]]
       /\ lib'.ops = [lib.ops EXCEPT ![op] = row]
       /\ lib'.entries = lib.entries /\ lib'.archived = lib.archived
  BY <1>1, <1>2 DEF TypeOK
<1>5b. /\ row.kind = lib.ops[op].kind /\ row.basis = lib.ops[op].basis
       /\ row \in [kind : Kinds \cup {"none"}, basis : Stories, completed : BOOLEAN]
  <2>1. PICK x \in [kind : Kinds \cup {"none"}, basis : Stories, completed : BOOLEAN] : x = lib.ops[op]
    BY <1>2, <1>5a
  <2>2. row = [x EXCEPT !.completed = TRUE]
    BY <2>1
  <2> QED
    BY <2>1, <2>2
<1>5. /\ lib'.entries = lib.entries
      /\ row.kind = lib.ops[op].kind /\ row.basis = lib.ops[op].basis
      /\ lib'.ops[op] = row /\ \A x \in Operations : x # op => lib'.ops[x] = lib.ops[x]
  <2> HIDE DEF row
  <2> QED BY <1>2, <1>5a, <1>5b
<1>6. lib' \in [ops : [Operations -> [kind : Kinds \cup {"none"}, basis : Stories, completed : BOOLEAN]],
                entries : [Identities -> {None} \cup (Operations \X Places)], archived : SUBSET Identities]
  <2> HIDE DEF row
  <2>1. lib' = [lib EXCEPT !.ops = [lib.ops EXCEPT ![op] = [lib.ops[op] EXCEPT !.completed = TRUE]]]
    BY <1>1
  <2>2. lib' = [lib EXCEPT !.ops = [lib.ops EXCEPT ![op] = row]]
    BY <2>1 DEF row
  <2>3. [lib.ops EXCEPT ![op] = row] \in
          [Operations -> [kind : Kinds \cup {"none"}, basis : Stories, completed : BOOLEAN]]
    BY <1>5a, <1>5b
  <2> QED BY <2>2, <2>3 DEF TypeOK
<1>7. TypeOK'
  BY <1>1, <1>4, <1>6 DEF TypeOK
<1> HIDE DEF row
<1>8. OpsOK'
  BY <1>2, <1>5 DEF OpsOK, Kinds
<1>9. ProjectsOK' /\ StagedOK'
  BY <1>1, <1>5, RowsFrame
<1>10. CompletedIsListed'
  BY <1>2, <1>3, <1>5 DEF CompletedIsListed
<1>11. CommandOK'
  BY <1>1, <1>2, <1>4, <1>5 DEF CommandOK, Final, Writing
<1> QED
  BY <1>1, <1>4, <1>7, <1>8, <1>9, <1>10, <1>11, SourcesFrame, BeforeFiles

\* The end of a command, a failure and a crash leave the files alone.
LEMMA EndStep ==
  ASSUME Inv, Insert \/ Fail \/ Crash
  PROVE  Inv'
<1> USE DEF Inv
<1>1. /\ lib' = lib /\ folders' = folders /\ source' = source
      /\ budget'.staged = budget.staged /\ budget'.changes = budget.changes
      /\ budget' \in [changes : 0..ChangeLimit, faults : Nat, staged : [Operations -> 0..AttemptLimit]]
  BY SMTT(40) DEF Insert, Fail, Crash, TypeOK
<1>2. OpsOK' /\ ProjectsOK' /\ StagedOK' /\ SourcesOK' /\ CompletedIsListed'
  BY <1>1, FoldersFrame, SourcesFrame, ListFrame
<1>3. CASE cmd' = Idle
  <2>1. TypeOK'
    BY <1>1, <1>3 DEF TypeOK
  <2> QED
    BY <1>2, <1>3, <2>1, IdleFrame
<1>4. CASE cmd.at \in {"register", "complete"} /\ cmd' = [cmd EXCEPT !.at = "insert"]
  <2>1. /\ cmd \in Commands /\ cmd # Idle /\ cmd.op \in Operations /\ Final.exists
        /\ lib.ops[cmd.op].kind = cmd.kind /\ lib.ops[cmd.op].basis = cmd.basis
    BY <1>4, FinalFacts
  <2>2. cmd' \in Commands /\ cmd'.at = "insert" /\ cmd'.op = cmd.op /\ cmd'.kind = cmd.kind /\ cmd'.basis = cmd.basis
    BY <1>4, <2>1 DEF Commands, Steps
  <2>3. TypeOK' /\ CommandOK'
    BY <1>1, <2>1, <2>2 DEF TypeOK, CommandOK, Final, Writing
  <2> QED
    BY <1>2, <2>2, <2>3, BeforeFiles
<1> QED
  BY <1>3, <1>4 DEF Insert, Fail, Crash

\* The author's changes outside the library move its bound, and nothing that a
\* command holds.
LEMMA ChangeBudget ==
  ASSUME TypeOK, Change
  PROVE  /\ budget' \in [changes : 0..ChangeLimit, faults : Nat, staged : [Operations -> 0..AttemptLimit]]
         /\ budget'.changes = budget.changes + 1 /\ budget'.staged = budget.staged
         /\ budget.changes \in Nat /\ budget.changes < ChangeLimit
BY LibraryConstants DEF Change, TypeOK

\* What a command holds depends on the operations, the entries, the folders and
\* the attempts only.
LEMMA CommandFrame ==
  ASSUME WritingOK, HeldOK, CommandOK, cmd' = cmd, folders' = folders,
         lib'.ops = lib.ops, lib'.entries = lib.entries, budget'.staged = budget.staged
  PROVE  WritingOK' /\ HeldOK' /\ CommandOK'
BY DEF WritingOK, HeldOK, CommandOK, Staging, Final, NewDb, Own

\* A copy that was checked can be copied.
LEMMA BackupFacts ==
  ASSUME NEW db \in Dbs, Readable(db)
  PROVE  Backup(db) = db
BY DEF Readable, Backup

\* A source that changes stays one that can be copied.
LEMMA ChangeSourceStep ==
  ASSUME Inv, ChangeSource
  PROVE  Inv'
<1> USE DEF Inv
<1>1. lib' = lib /\ folders' = folders /\ cmd' = cmd /\ Change
  BY DEF ChangeSource
<1>2. /\ budget' \in [changes : 0..ChangeLimit, faults : Nat, staged : [Operations -> 0..AttemptLimit]]
      /\ budget'.changes = budget.changes + 1 /\ budget'.staged = budget.staged
      /\ budget.changes \in Nat /\ budget.changes < ChangeLimit
  BY <1>1, ChangeBudget
<1>3. /\ source \in [duplicate : Dbs, recover : Dbs, import : Dbs]
      /\ Readable(source.duplicate) /\ (source.recover # NoDb => Readable(source.recover))
      /\ \A db \in {source.duplicate, source.recover, source.import} : db.story <= 1 + budget.changes
  BY DEF TypeOK, SourcesOK
<1>4. /\ source' \in [duplicate : Dbs, recover : Dbs, import : Dbs]
      /\ Readable(source'.duplicate) /\ (source'.recover # NoDb => Readable(source'.recover))
      /\ \A db \in {source'.duplicate, source'.recover, source'.import} : db.story <= 1 + budget'.changes
  <2>1. ASSUME NEW db \in Dbs, db.story <= 1 + budget.changes
        PROVE  /\ [db EXCEPT !.story = @ + 1] \in Dbs
               /\ [db EXCEPT !.story = @ + 1].story <= 1 + budget'.changes
               /\ Readable(db) => Readable([db EXCEPT !.story = @ + 1])
    <3>1. db.story \in Nat /\ ChangeLimit \in Nat
      BY LibraryConstants DEF Dbs, Stories
    <3>2. db.story + 1 \in Stories
      BY <1>2, <2>1, <3>1 DEF Stories
    <3> QED
      BY <1>2, <2>1, <3>1, <3>2 DEF Dbs, Readable, ValidDatabase, PinsValid, ImportValid
  <2>2. CASE source' = [source EXCEPT !.duplicate = [source.duplicate EXCEPT !.story = @ + 1]]
    BY <1>2, <1>3, <2>1, <2>2, LibraryConstants DEF Dbs, Stories
  <2>3. CASE source' = [source EXCEPT !.recover = source.duplicate]
    BY <1>2, <1>3, <2>3, LibraryConstants DEF Dbs, Stories
  <2>4. CASE source' = [source EXCEPT !.import = [source.import EXCEPT !.story = @ + 1]]
    BY <1>2, <1>3, <2>1, <2>4, LibraryConstants DEF Dbs, Stories
  <2>5. CASE source' = [source EXCEPT !.recover = NoDb] \/ source' = [source EXCEPT !.import = NoDb]
    <3>1. NoDb \in Dbs /\ NoDb.story = 0
      BY EmptyTyped DEF NoDb
    <3> QED
      BY <1>2, <1>3, <2>5, <3>1, LibraryConstants DEF Dbs, Stories
  <2>6. Backup(source.duplicate) = source.duplicate
    BY <1>3, BackupFacts
  <2> QED
    BY <1>3, <2>2, <2>3, <2>4, <2>5, <2>6 DEF ChangeSource
<1>5. TypeOK' /\ SourcesOK'
  BY <1>1, <1>2, <1>4 DEF TypeOK, SourcesOK, Readable, ValidDatabase, PinsValid, ImportValid
<1> QED
  BY <1>1, <1>2, <1>5, FoldersFrame, ListFrame, CommandFrame

\* The author moves or copies a project that is there.
LEMMA MovedFolders ==
  ASSUME TypeOK, NEW op \in Operations, MoveFolder(op)
  PROVE  /\ folders' \in [Operations -> [Places -> Folders]]
         /\ folders[op]["final"].exists /\ ~folders[op]["away"].exists
         /\ folders'[op]["away"] = folders[op]["final"]
         /\ folders'[op]["final"] \in {folders[op]["final"], NoFolder}
         /\ folders'[op]["staging"] = folders[op]["staging"]
         /\ \A x \in Operations : x # op => folders'[x] = folders[x]
         /\ lib' = lib /\ source' = source /\ cmd' = cmd /\ cmd = Idle /\ Change
<1>1. folders \in [Operations -> [Places -> Folders]] /\ NoFolder \in Folders
  BY EmptyTyped DEF TypeOK
<1>2. /\ folders[op]["final"].exists /\ ~folders[op]["away"].exists
      /\ lib' = lib /\ source' = source /\ cmd' = cmd /\ cmd = Idle /\ Change
  BY DEF MoveFolder
<1>3. PICK g \in {folders[op]["final"], NoFolder} :
        folders' = [folders EXCEPT ![op]["away"] = folders[op]["final"], ![op]["final"] = g]
  BY <1>1 DEF MoveFolder, Places
<1> QED
  BY <1>1, <1>2, <1>3 DEF Places

\* A project stays one of its operation wherever the author puts it.
LEMMA MoveFolderStep ==
  ASSUME Inv, NEW op \in Operations, MoveFolder(op)
  PROVE  Inv'
<1> USE DEF Inv
<1>1. /\ folders' \in [Operations -> [Places -> Folders]]
      /\ folders[op]["final"].exists
      /\ folders'[op]["away"] = folders[op]["final"]
      /\ folders'[op]["final"] \in {folders[op]["final"], NoFolder}
      /\ folders'[op]["staging"] = folders[op]["staging"]
      /\ \A x \in Operations : x # op => folders'[x] = folders[x]
      /\ lib' = lib /\ source' = source /\ cmd' = Idle /\ Change
  BY MovedFolders
<1>2. /\ budget' \in [changes : 0..ChangeLimit, faults : Nat, staged : [Operations -> 0..AttemptLimit]]
      /\ budget'.changes = budget.changes + 1 /\ budget'.staged = budget.staged
      /\ budget.changes \in Nat
  BY <1>1, ChangeBudget
<1>3. TypeOK'
  BY <1>1, <1>2 DEF TypeOK
<1>4. SourcesOK'
  <2>1. \A n \in Nat : n <= 1 + budget.changes => n <= 1 + budget'.changes
    BY <1>2
  <2>2. \A db \in Dbs : db.story \in Nat
    BY LibraryConstants DEF Dbs, Stories
  <2> QED
    BY <1>1, <2>1, <2>2 DEF SourcesOK, TypeOK, Readable, ValidDatabase, PinsValid, ImportValid
<1>5. \A x \in Operations : folders'[x]["staging"] = folders[x]["staging"]
  BY <1>1
<1>6. \A x, g : (Made(x, g) => Made(x, g)') /\ (StagedAs(x, g) => StagedAs(x, g)')
  BY <1>1, <1>2 DEF Made, Asked, StagedAs, Own
<1>7. \A x \in Operations : \A ident : Earlier(x, ident) => Earlier(x, ident)'
  BY <1>2, <1>5 DEF Earlier
<1>8. ASSUME NEW x \in Operations, NEW p \in {"final", "away"}, NEW g, NEW i,
             g = folders'[x][p], i = g.db.ident, g.exists
      PROVE  Made(x, g)' /\ Earlier(x, i)'
  <2>1. PICK q \in {"final", "away"} : g = folders[x][q]
    BY <1>1, <1>8, EmptyTyped
  <2> QED
    BY <1>6, <1>7, <1>8, <2>1 DEF ProjectsOK
<1>9. ProjectsOK'
  BY <1>8 DEF ProjectsOK
<1>10. ASSUME NEW x \in Operations, NEW g, g = folders'[x]["staging"]
       PROVE  StagedAs(x, g)'
  BY <1>5, <1>6, <1>10 DEF StagedOK
<1>11. StagedOK'
  BY <1>10 DEF StagedOK
<1> QED
  BY <1>1, <1>3, <1>4, <1>9, <1>11, ListFrame, IdleFrame DEF OpsOK

\* A folder that is opened has an entry.
LEMMA OpenFolderStep ==
  ASSUME Inv, NEW op \in Operations, NEW place \in Places, OpenFolder(op, place)
  PROVE  Inv'
<1> USE DEF Inv
<1> DEFINE ident == folders[op][place].db.ident
<1>1. /\ cmd' = Idle /\ folders' = folders /\ source' = source /\ budget' = budget
      /\ lib' = [lib EXCEPT !.entries[ident] = Path(op, place)]
      /\ folders[op][place].exists /\ place \in {"final", "away"}
  BY DEF OpenFolder, Places
<1>2. ident \in Identities
  <2>1. Earlier(op, ident)
    BY <1>1 DEF ProjectsOK
  <2>2. budget.staged[op] \in 0..AttemptLimit
    BY DEF TypeOK
  <2>3. \E n \in 1..AttemptLimit : ident = <<op, n>>
    BY <2>1, <2>2, LibraryConstants DEF Earlier
  <2> QED
    BY <2>3, IdentFacts
<1> HIDE DEF ident
<1>3. /\ lib'.ops = lib.ops /\ lib'.archived = lib.archived
      /\ lib'.entries \in [Identities -> {None} \cup (Operations \X Places)]
      /\ CompletedIsListed'
  BY <1>1, <1>2, EntryStep
<1>4. TypeOK'
  BY <1>1, <1>3 DEF TypeOK
<1> QED
  BY <1>1, <1>3, <1>4, FoldersFrame, SourcesFrame, IdleFrame

\* Archiving leaves the entries.
LEMMA ArchiveStep ==
  ASSUME Inv, NEW ident \in Identities, Archive(ident)
  PROVE  Inv'
<1> USE DEF Inv
<1>1. /\ cmd' = Idle /\ folders' = folders /\ source' = source /\ Change
      /\ \/ lib' = [lib EXCEPT !.archived = @ \cup {ident}]
         \/ lib' = [lib EXCEPT !.archived = @ \ {ident}]
  BY DEF Archive
<1>2. /\ budget' \in [changes : 0..ChangeLimit, faults : Nat, staged : [Operations -> 0..AttemptLimit]]
      /\ budget'.changes = budget.changes + 1 /\ budget'.staged = budget.staged
      /\ budget.changes \in Nat
  BY <1>1, ChangeBudget
<1>3. lib'.ops = lib.ops /\ lib'.entries = lib.entries /\ TypeOK'
  BY <1>1, <1>2 DEF TypeOK
<1>4. SourcesOK'
  <2>1. \A n \in Nat : n <= 1 + budget.changes => n <= 1 + budget'.changes
    BY <1>2
  <2>2. \A db \in Dbs : db.story \in Nat
    BY LibraryConstants DEF Dbs, Stories
  <2> QED
    BY <1>1, <2>1, <2>2 DEF SourcesOK, TypeOK, Readable, ValidDatabase, PinsValid, ImportValid
<1> QED
  BY <1>1, <1>2, <1>3, <1>4, FoldersFrame, ListFrame, IdleFrame

-----------------------------------------------------------------------------
\* The theorems.

\* The empty library satisfies the invariant.
LEMMA InitInv ==
  ASSUME Init
  PROVE  Inv
<1>1. \A op \in Operations : lib.ops[op] = NoOp
  BY DEF Init
<1>2. \A op \in Operations, p \in Places : folders[op][p] = NoFolder
  BY DEF Init
<1>3. NoOp.kind = "none" /\ ~NoOp.completed /\ NoOp.basis = 0
  BY DEF NoOp
<1>4. PICK manifest \in {None, Live} :
        LET live == [story |-> 1, ident |-> Live, ready |-> TRUE, pins |-> Live, manifest |-> manifest]
        IN  source = [duplicate |-> live, recover |-> live, import |-> live]
  BY DEF Init
<1> DEFINE live == [story |-> 1, ident |-> Live, ready |-> TRUE, pins |-> Live, manifest |-> manifest]
<1>5. live \in Dbs /\ Readable(live) /\ live.story = 1
  BY LibraryConstants DEF Dbs, Stories, Names, Readable, ValidDatabase, PinsValid, ImportValid
<1>6. source = [duplicate |-> live, recover |-> live, import |-> live]
  BY <1>4
<1> HIDE DEF live
<1>7. TypeOK
  <2>1. 0 \in Stories /\ 0 \in 0..AttemptLimit /\ 0 \in 0..ChangeLimit
    BY LibraryConstants DEF Stories
  <2>2. lib \in [ops : [Operations -> [kind : Kinds \cup {"none"}, basis : Stories, completed : BOOLEAN]],
                 entries : [Identities -> {None} \cup (Operations \X Places)],
                 archived : SUBSET Identities]
    BY <2>1 DEF Init, NoOp
  <2>3. folders \in [Operations -> [Places -> Folders]]
    BY EmptyTyped DEF Init
  <2>4. source \in [duplicate : Dbs, recover : Dbs, import : Dbs]
    BY <1>5, <1>6
  <2>5. budget \in [changes : 0..ChangeLimit, faults : Nat, staged : [Operations -> 0..AttemptLimit]]
    BY <2>1 DEF Init
  <2> QED
    BY <2>2, <2>3, <2>4, <2>5 DEF Init, TypeOK
<1>8. SourcesOK
  <2>1. budget.changes = 0
    BY DEF Init
  <2>2. source.duplicate = live /\ source.recover = live /\ source.import = live
    BY <1>6
  <2> QED
    BY <1>5, <2>1, <2>2 DEF SourcesOK
<1>9. OpsOK /\ CompletedIsListed
  BY <1>1, <1>3 DEF OpsOK, CompletedIsListed
<1>10. ProjectsOK /\ StagedOK
  BY <1>2, EmptyTyped DEF ProjectsOK, StagedOK, StagedAs, Places
<1>11. WritingOK /\ HeldOK /\ CommandOK
  BY EmptyTyped DEF Init, WritingOK, HeldOK, CommandOK, Writing
<1> QED
  BY <1>7, <1>8, <1>9, <1>10, <1>11 DEF Inv

\* Every step keeps the invariant.
LEMMA NextInv ==
  ASSUME Inv, [Next]_vars
  PROVE  Inv'
<1>1. ASSUME NEW op \in Operations, NEW kind \in Kinds, Request(op, kind)
      PROVE  Inv'
  BY <1>1, RequestStep
<1>2. ASSUME NEW op \in Operations, MoveFolder(op)
      PROVE  Inv'
  BY <1>2, MoveFolderStep
<1>3. ASSUME NEW op \in Operations, NEW place \in Places, OpenFolder(op, place)
      PROVE  Inv'
  BY <1>3, OpenFolderStep
<1>4. ASSUME NEW ident \in Identities, Archive(ident)
      PROVE  Inv'
  BY <1>4, ArchiveStep
<1>5. CASE Begin
  BY <1>5, BeginStep
<1>6. CASE Reuse \/ Resume \/ RefuseStaging \/ Fresh \/ ReadArchive
  BY <1>6, LookStep
<1>7. CASE Stage
  BY <1>7, StageStep
<1>8. CASE Install
  BY <1>8, InstallStep
<1>9. CASE Register
  BY <1>9, RegisterStep
<1>10. CASE Complete
  BY <1>10, CompleteStep
<1>11. CASE Insert \/ Fail \/ Crash
  BY <1>11, EndStep
<1>12. CASE ChangeSource
  BY <1>12, ChangeSourceStep
<1>13. CASE UNCHANGED vars
  <2>1. lib' = lib /\ folders' = folders /\ source' = source /\ cmd' = cmd /\ budget' = budget
    BY <1>13 DEF vars
  <2> QED
    BY <2>1, FoldersFrame, SourcesFrame, ListFrame, CommandFrame DEF Inv, TypeOK
<1> QED
  BY <1>1, <1>2, <1>3, <1>4, <1>5, <1>6, <1>7, <1>8, <1>9, <1>10, <1>11, <1>12, <1>13 DEF Next, Kinds

\* The invariant holds in every behaviour of the library.
THEOREM InvTheorem == Spec => []Inv
<1>1. Init => Inv
  BY InitInv
<1>2. Inv /\ [Next]_vars => Inv'
  BY NextInv
<1> QED
  BY <1>1, <1>2, PTL DEF Spec

\* An operation that is recorded as completed has its project in the list
\* (Library::finish, finish_import_receipt).
THEOREM ListedTheorem == Spec => []CompletedIsListed
<1>1. Inv => CompletedIsListed
  BY DEF Inv
<1> QED
  BY <1>1, InvTheorem, PTL

\* The copy of a valid database is valid under its new identity, before the
\* rotation and after it (rotate_identity, validate_database).
THEOREM CopiesTheorem == Spec => []CopiesValidate
<1>1. Inv => CopiesValidate
  BY CopyableHolds DEF CopiesValidate
<1> QED
  BY <1>1, InvTheorem, PTL

-----------------------------------------------------------------------------
\* Staging implements ProjectCreation.

\* What ProjectCreation sees of the state.
AskedOf == [op \in Operations |-> <<lib.ops[op].kind, lib.ops[op].basis>>]
There(op) == {x \in {"final", "away"} : folders[op][x].exists}
MadeOf == [op \in Operations |-> {ProjectOf(folders[op][p]) : p \in There(op)}]
HomeOf == [op \in Operations |-> folders[op]["final"].exists]
RecordedOf == [op \in Operations |-> lib.ops[op].completed]
Seen == <<AskedOf, MadeOf, HomeOf, RecordedOf>>

\* The steps of ProjectCreation, in these words.
LEMMA CreationSteps ==
  /\ UNCHANGED Seen => UNCHANGED Creation!vars
  /\ \A op \in Operations, request \in Kinds \X Stories :
       AskedOf[op] = <<"none", 0>> /\ AskedOf' = [AskedOf EXCEPT ![op] = request]
         /\ MadeOf' = MadeOf /\ HomeOf' = HomeOf /\ RecordedOf' = RecordedOf
       => Creation!Ask(op)
  /\ \A op \in Operations, p \in Projects :
       AskedOf[op] # <<"none", 0>> /\ ~HomeOf[op] /\ ~RecordedOf[op] /\ Answers(AskedOf[op], p)
         /\ (\A x \in Operations : \A q \in MadeOf[x] : q.ident # p.ident)
         /\ MadeOf' = [MadeOf EXCEPT ![op] = @ \cup {p}]
         /\ HomeOf' = [HomeOf EXCEPT ![op] = TRUE] /\ AskedOf' = AskedOf /\ RecordedOf' = RecordedOf
       => Creation!Make(op)
  /\ \A op \in Operations :
       MadeOf[op] # {} /\ RecordedOf' = [RecordedOf EXCEPT ![op] = TRUE]
         /\ AskedOf' = AskedOf /\ MadeOf' = MadeOf /\ HomeOf' = HomeOf
       => Creation!Record(op)
  /\ \A op \in Operations :
       HomeOf[op] /\ HomeOf' = [HomeOf EXCEPT ![op] = FALSE]
         /\ AskedOf' = AskedOf /\ MadeOf' = MadeOf /\ RecordedOf' = RecordedOf
       => Creation!TakeAway(op)
<1>1. UNCHANGED Seen => UNCHANGED Creation!vars
  BY DEF Seen, AskedOf, MadeOf, There, HomeOf, RecordedOf, Creation!vars
<1>2. ASSUME NEW op \in Operations, NEW request \in Kinds \X Stories,
             AskedOf[op] = <<"none", 0>>, AskedOf' = [AskedOf EXCEPT ![op] = request],
             MadeOf' = MadeOf, HomeOf' = HomeOf, RecordedOf' = RecordedOf
      PROVE  Creation!Ask(op)
  BY <1>2 DEF AskedOf, MadeOf, There, HomeOf, RecordedOf, Creation!Ask, Kinds, Stories
<1>3. ASSUME NEW op \in Operations, NEW p \in Projects,
             AskedOf[op] # <<"none", 0>>, ~HomeOf[op], ~RecordedOf[op], Answers(AskedOf[op], p),
             \A x \in Operations : \A q \in MadeOf[x] : q.ident # p.ident,
             MadeOf' = [MadeOf EXCEPT ![op] = @ \cup {p}],
             HomeOf' = [HomeOf EXCEPT ![op] = TRUE], AskedOf' = AskedOf, RecordedOf' = RecordedOf
      PROVE  Creation!Make(op)
  BY <1>3, ZenonT(60) DEF AskedOf, MadeOf, There, HomeOf, RecordedOf, Creation!Make
<1>4. ASSUME NEW op \in Operations, MadeOf[op] # {}, RecordedOf' = [RecordedOf EXCEPT ![op] = TRUE],
             AskedOf' = AskedOf, MadeOf' = MadeOf, HomeOf' = HomeOf
      PROVE  Creation!Record(op)
  BY <1>4 DEF AskedOf, MadeOf, There, HomeOf, RecordedOf, Creation!Record
<1>5. ASSUME NEW op \in Operations, HomeOf[op], HomeOf' = [HomeOf EXCEPT ![op] = FALSE],
             AskedOf' = AskedOf, MadeOf' = MadeOf, RecordedOf' = RecordedOf
      PROVE  Creation!TakeAway(op)
  BY <1>5 DEF AskedOf, MadeOf, There, HomeOf, RecordedOf, Creation!TakeAway
<1> QED
  BY <1>1, <1>2, <1>3, <1>4, <1>5

\* The empty library has made nothing.
LEMMA CreationInit ==
  ASSUME Init
  PROVE  Creation!Init
<1>1. \A op \in Operations : lib.ops[op] = NoOp /\ folders[op]["final"] = NoFolder /\ folders[op]["away"] = NoFolder
  BY DEF Init, Places
<1>2. NoOp.kind = "none" /\ NoOp.basis = 0 /\ ~NoOp.completed /\ NoOp.completed = FALSE
      /\ NoFolder.exists = FALSE
  BY DEF NoOp, NoFolder
<1>3. AskedOf = [op \in Operations |-> <<"none", 0>>] /\ RecordedOf = [op \in Operations |-> FALSE]
  BY <1>1, <1>2 DEF AskedOf, RecordedOf
<1>4. HomeOf = [op \in Operations |-> FALSE]
  BY <1>1, <1>2 DEF HomeOf
<1>5. \A op \in Operations : There(op) = {}
  BY <1>1, <1>2 DEF There
<1>6. MadeOf = [op \in Operations |-> {}]
  BY <1>5 DEF MadeOf
<1> QED
  BY <1>3, <1>4, <1>6 DEF Creation!Init, AskedOf, RecordedOf, HomeOf, MadeOf, There

\* A step that leaves the operations and the projects alone is not seen.
LEMMA NotSeen ==
  ASSUME lib'.ops = lib.ops,
         \A op \in Operations, p \in {"final", "away"} : folders'[op][p] = folders[op][p]
  PROVE  UNCHANGED Seen
<1>1. AskedOf' = AskedOf /\ RecordedOf' = RecordedOf
  BY DEF AskedOf, RecordedOf
<1>2. HomeOf' = HomeOf
  BY DEF HomeOf
<1>3. ASSUME NEW op \in Operations
      PROVE  {ProjectOf(folders'[op][p]) : p \in {x \in {"final", "away"} : folders'[op][x].exists}}
               = {ProjectOf(folders[op][p]) : p \in {x \in {"final", "away"} : folders[op][x].exists}}
  OBVIOUS
<1>4. MadeOf' = MadeOf
  BY <1>3 DEF MadeOf, There, ProjectOf
<1> QED
  BY <1>1, <1>2, <1>4 DEF Seen

\* An operation is asked for once, when its row is made.
LEMMA BeginAsks ==
  ASSUME Inv, Begin
  PROVE  Creation!Next
<1> USE DEF Inv
<1>1. /\ cmd.at = "begin" /\ folders' = folders
      /\ lib' = [lib EXCEPT !.ops[cmd.op] = [kind |-> cmd.kind, basis |-> cmd.basis, completed |-> FALSE]]
  BY DEF Begin
<1>2. cmd # Idle /\ cmd \in Commands
  BY <1>1, EmptyTyped DEF TypeOK
<1>3. PICK op \in Operations, kind \in Kinds, basis \in Stories : op = cmd.op /\ kind = cmd.kind /\ basis = cmd.basis
  BY <1>2 DEF Commands
<1>4. lib.ops[op] = NoOp /\ NoOp.kind = "none" /\ NoOp.basis = 0 /\ NoOp.completed = FALSE
  BY <1>1, <1>2, <1>3 DEF CommandOK, NoOp
<1>5. lib'.ops = [lib.ops EXCEPT ![op] = [kind |-> kind, basis |-> basis, completed |-> FALSE]]
  BY <1>1, <1>3 DEF TypeOK
<1>6. lib.ops \in [Operations -> [kind : Kinds \cup {"none"}, basis : Stories, completed : BOOLEAN]]
  BY DEF TypeOK
<1> DEFINE row == [kind |-> kind, basis |-> basis, completed |-> FALSE]
<1>7a. row.kind = kind /\ row.basis = basis /\ row.completed = FALSE
  OBVIOUS
<1>7b. lib'.ops = [lib.ops EXCEPT ![op] = row]
  BY <1>5
<1> HIDE DEF row
<1>7c. /\ lib'.ops[op] = row
       /\ \A x \in Operations : x # op => lib'.ops[x] = lib.ops[x]
  BY <1>6, <1>7b
<1>7. AskedOf[op] = <<"none", 0>> /\ AskedOf' = [AskedOf EXCEPT ![op] = <<kind, basis>>]
  BY <1>4, <1>7a, <1>7c DEF AskedOf
<1>8. RecordedOf' = RecordedOf
  BY <1>4, <1>7a, <1>7c DEF RecordedOf
<1>9. MadeOf' = MadeOf /\ HomeOf' = HomeOf
  BY <1>1 DEF MadeOf, HomeOf, There, ProjectOf
<1>10. <<kind, basis>> \in Kinds \X Stories
  OBVIOUS
<1>11. Creation!Ask(op)
  BY <1>7, <1>8, <1>9, <1>10, CreationSteps
<1> QED
  BY <1>11 DEF Creation!Next

\* The identity that is installed is new: those of the projects that are there
\* were staged for another operation, or before.
LEMMA FreshIdentity ==
  ASSUME Inv, NEW op \in Operations, folders[op]["staging"].exists,
         NEW x \in Operations, NEW q \in MadeOf[x]
  PROVE  q.ident # Own(op)
<1>1. PICK p \in There(x) : q = ProjectOf(folders[x][p])
  BY DEF MadeOf
<1>2. p \in {"final", "away"} /\ folders[x][p].exists
  BY <1>1 DEF There
<1>3. Earlier(x, folders[x][p].db.ident)
  BY <1>2 DEF Inv, ProjectsOK
<1>4. PICK n \in 1..budget.staged[x] :
        q.ident = <<x, n>> /\ (folders[x]["staging"].exists => n < budget.staged[x])
  BY <1>1, <1>3 DEF Earlier, ProjectOf
<1>5. budget.staged[x] \in Nat /\ budget.staged[op] \in Nat
  BY LibraryConstants DEF Inv, TypeOK
<1> QED
  BY <1>4, <1>5, IdentFacts DEF Own

\* A project appears when its folder is installed, and is what was asked for.
LEMMA InstallMakes ==
  ASSUME Inv, Install
  PROVE  Creation!Next
<1> PICK op \in Operations : op = cmd.op
  BY PreparedIsMade DEF Install
<1> PICK f \in Folders : f = Staging
  BY PreparedIsMade DEF Install
<1>1. /\ f.exists /\ f = folders[op]["staging"] /\ Made(op, f) /\ f.db.ident = Own(op) /\ Own(op) \in Identities
      /\ ~lib.ops[op].completed /\ ~folders[op]["final"].exists
  BY PreparedIsMade DEF Install, Staging, Final
<1>2. lib' = lib /\ folders' = [folders EXCEPT ![op]["final"] = f, ![op]["staging"] = NoFolder]
  BY DEF Install
<1>3. folders \in [Operations -> [Places -> Folders]]
  BY DEF Inv, TypeOK
<1>4. /\ folders'[op]["final"] = f /\ folders'[op]["away"] = folders[op]["away"]
      /\ \A x \in Operations, p \in {"final", "away"} : x # op => folders'[x][p] = folders[x][p]
  BY <1>2, <1>3 DEF Places
<1>5. AskedOf' = AskedOf /\ RecordedOf' = RecordedOf
  BY <1>2 DEF AskedOf, RecordedOf
<1>6. HomeOf' = [HomeOf EXCEPT ![op] = TRUE] /\ ~HomeOf[op] /\ ~RecordedOf[op]
  <2>1. f.exists = TRUE
    BY <1>1 DEF Folders
  <2> QED
    BY <1>1, <1>4, <2>1 DEF HomeOf, RecordedOf
<1> DEFINE p == ProjectOf(f)
<1>7. p \in Projects
  <2>1. f.db.ident \in Identities /\ f.db.story \in 0..ChangeLimit + 1
    BY <1>1 DEF Folders, Dbs, Stories
  <2> QED
    BY <2>1 DEF Projects, ProjectOf
<1>8. AskedOf[op] # <<"none", 0>> /\ Answers(AskedOf[op], p)
  <2>1. AskedOf[op][1] = lib.ops[op].kind /\ AskedOf[op][2] = lib.ops[op].basis
    BY DEF AskedOf
  <2>2. AskedOf[op] # <<"none", 0>>
    BY <1>1 DEF AskedOf, Made, Kinds
  <2>3. p.whole /\ p.story = f.db.story /\ (p.imported <=> f.db.manifest = f.db.ident)
    BY <1>1 DEF Made, ProjectOf
  <2> HIDE DEF p
  <2> QED
    BY <1>1, <2>1, <2>2, <2>3 DEF Made, Asked, Answers
<1>9. \A x \in Operations : \A q \in MadeOf[x] : q.ident # p.ident
  BY <1>1, FreshIdentity DEF ProjectOf
<1>10. MadeOf' = [MadeOf EXCEPT ![op] = @ \cup {p}]
  <2> DEFINE MadeNow(x) == {ProjectOf(folders'[x][pl]) : pl \in {z \in {"final", "away"} : folders'[x][z].exists}}
             MadeBefore(x) == {ProjectOf(folders[x][pl]) : pl \in {z \in {"final", "away"} : folders[x][z].exists}}
  <2>1. ASSUME NEW x \in Operations, x # op
        PROVE  MadeNow(x) = MadeBefore(x)
    BY <1>4, <2>1
  <2>2. MadeNow(op) = MadeBefore(op) \cup {p}
    BY <1>1, <1>4
  <2>3. MadeOf' = [x \in Operations |-> MadeNow(x)]
    BY DEF MadeOf, There, ProjectOf
  <2>4. MadeOf = [x \in Operations |-> MadeBefore(x)]
    BY DEF MadeOf, There
  <2> HIDE DEF MadeNow, MadeBefore, p
  <2> QED
    BY <2>1, <2>2, <2>3, <2>4
<1> HIDE DEF p
<1>11. Creation!Make(op)
  BY <1>5, <1>6, <1>7, <1>8, <1>9, <1>10, CreationSteps
<1> QED
  BY <1>11 DEF Creation!Next

\* What is recorded has its project.
LEMMA CompleteRecords ==
  ASSUME Inv, Complete
  PROVE  Creation!Next
<1>1. /\ cmd.at = "complete" /\ folders' = folders
      /\ lib' = [lib EXCEPT !.ops[cmd.op].completed = TRUE]
  BY DEF Complete
<1>2. PICK op \in Operations : op = cmd.op /\ folders[op]["final"].exists
  BY <1>1, FinalFacts
<1>3. lib.ops \in [Operations -> [kind : Kinds \cup {"none"}, basis : Stories, completed : BOOLEAN]]
  BY DEF Inv, TypeOK
<1>4. lib'.ops = [lib.ops EXCEPT ![op] = [lib.ops[op] EXCEPT !.completed = TRUE]]
  BY <1>1, <1>2 DEF Inv, TypeOK
<1>5. AskedOf' = AskedOf /\ RecordedOf' = [RecordedOf EXCEPT ![op] = TRUE]
  <2> DEFINE row == [lib.ops[op] EXCEPT !.completed = TRUE]
  <2>1. row.kind = lib.ops[op].kind /\ row.basis = lib.ops[op].basis /\ row.completed = TRUE
    BY <1>3
  <2>2. lib'.ops = [lib.ops EXCEPT ![op] = row]
    BY <1>4
  <2> HIDE DEF row
  <2>3. /\ lib'.ops[op] = row
        /\ \A x \in Operations : x # op => lib'.ops[x] = lib.ops[x]
    BY <1>3, <2>2
  <2> QED
    BY <2>1, <2>3 DEF AskedOf, RecordedOf
<1>6. MadeOf' = MadeOf /\ HomeOf' = HomeOf
  BY <1>1 DEF MadeOf, HomeOf, There, ProjectOf
<1>7. MadeOf[op] # {}
  BY <1>2 DEF MadeOf, There
<1>8. Creation!Record(op)
  BY <1>5, <1>6, <1>7, CreationSteps
<1> QED
  BY <1>8 DEF Creation!Next

\* A project that is moved is the same one elsewhere; one that is copied is no
\* other project.
LEMMA MoveTakesAway ==
  ASSUME Inv, NEW op \in Operations, MoveFolder(op)
  PROVE  Creation!Next \/ UNCHANGED Creation!vars
<1>1. /\ folders[op]["final"].exists /\ ~folders[op]["away"].exists
      /\ folders'[op]["away"] = folders[op]["final"]
      /\ folders'[op]["final"] \in {folders[op]["final"], NoFolder}
      /\ \A x \in Operations : x # op => folders'[x] = folders[x]
      /\ lib' = lib
  BY MovedFolders DEF Inv
<1>2. ~NoFolder.exists /\ NoFolder.exists = FALSE
  BY DEF NoFolder
<1>3. AskedOf' = AskedOf /\ RecordedOf' = RecordedOf
  BY <1>1 DEF AskedOf, RecordedOf
<1>4. MadeOf' = MadeOf
  <2> DEFINE MadeNow(x) == {ProjectOf(folders'[x][pl]) : pl \in {z \in {"final", "away"} : folders'[x][z].exists}}
             MadeBefore(x) == {ProjectOf(folders[x][pl]) : pl \in {z \in {"final", "away"} : folders[x][z].exists}}
  <2>1. ASSUME NEW x \in Operations, x # op
        PROVE  MadeNow(x) = MadeBefore(x)
    BY <1>1, <2>1
  <2>2. MadeNow(op) = MadeBefore(op)
    <3>1. MadeBefore(op) = {ProjectOf(folders[op]["final"])}
      BY <1>1
    <3>2. MadeNow(op) = {ProjectOf(folders[op]["final"])}
      BY <1>1, <1>2
    <3> QED BY <3>1, <3>2
  <2>3. MadeOf' = [x \in Operations |-> MadeNow(x)]
    BY DEF MadeOf, There, ProjectOf
  <2>4. MadeOf = [x \in Operations |-> MadeBefore(x)]
    BY DEF MadeOf, There
  <2> HIDE DEF MadeNow, MadeBefore
  <2> QED
    BY <2>1, <2>2, <2>3, <2>4
<1>5. CASE folders'[op]["final"] = folders[op]["final"]
  <2>1. HomeOf' = HomeOf
    BY <1>1, <1>5 DEF HomeOf
  <2> QED
    BY <1>3, <1>4, <2>1, CreationSteps DEF Seen
<1>6. CASE folders'[op]["final"] = NoFolder
  <2>1. HomeOf[op] /\ HomeOf' = [HomeOf EXCEPT ![op] = FALSE]
    BY <1>1, <1>2, <1>6 DEF HomeOf
  <2>2. Creation!TakeAway(op)
    BY <1>3, <1>4, <2>1, CreationSteps
  <2> QED
    BY <2>2 DEF Creation!Next
<1> QED
  BY <1>1, <1>5, <1>6

\* Every other step stays inside one operation's staging.
LEMMA OthersUnseen ==
  ASSUME Inv,
         \/ \E op \in Operations : \E kind \in Kinds : Request(op, kind)
         \/ \E op \in Operations, place \in Places : OpenFolder(op, place)
         \/ \E ident \in Identities : Archive(ident)
         \/ Reuse \/ Resume \/ RefuseStaging \/ Fresh \/ ReadArchive
         \/ Stage \/ Register \/ Insert \/ Fail \/ Crash \/ ChangeSource \/ UNCHANGED vars
  PROVE  UNCHANGED Seen
<1>1. lib'.ops = lib.ops
  <2>1. \A ident, path : lib' = [lib EXCEPT !.entries[ident] = path] => lib'.ops = lib.ops
    BY DEF Inv, TypeOK
  <2>2. \A set : lib' = [lib EXCEPT !.archived = set] => lib'.ops = lib.ops
    BY DEF Inv, TypeOK
  <2> QED
    BY <2>1, <2>2 DEF Request, OpenFolder, Archive, Reuse, Resume, RefuseStaging, Fresh, ReadArchive,
                      Stage, Register, Insert, Fail, Crash, ChangeSource, vars
<1>2. CASE folders' = folders
  BY <1>1, <1>2, NotSeen
<1>3. CASE Stage /\ folders' # folders
  <2>1. folders' = [folders EXCEPT ![cmd.op]["staging"] = Written(cmd.at, folders[cmd.op]["staging"])]
    BY <1>3 DEF Stage
  <2>2. cmd \in Commands
    BY <1>3 DEF Inv, TypeOK, Stage, Idle
  <2>3. folders \in [Operations -> [Places -> Folders]] /\ cmd.op \in Operations
    BY <2>2 DEF Inv, TypeOK, Commands
  <2>4. \A op \in Operations, p \in {"final", "away"} : folders'[op][p] = folders[op][p]
    BY <2>1, <2>3 DEF Places
  <2> QED
    BY <1>1, <2>4, NotSeen
<1> QED
  BY <1>2, <1>3 DEF Request, OpenFolder, Archive, Reuse, Resume, RefuseStaging, Fresh, ReadArchive,
                    Stage, Register, Insert, Fail, Crash, ChangeSource, vars

\* Every step of the library is one of ProjectCreation, or none.
LEMMA StepCreates ==
  ASSUME Inv, [Next]_vars
  PROVE  [Creation!Next]_(Creation!vars)
<1>1. CASE Begin \/ Install \/ Complete
  BY <1>1, BeginAsks, InstallMakes, CompleteRecords
<1>2. CASE \E op \in Operations : MoveFolder(op)
  BY <1>2, MoveTakesAway
<1>3. CASE \/ \E op \in Operations : \E kind \in Kinds : Request(op, kind)
           \/ \E op \in Operations, place \in Places : OpenFolder(op, place)
           \/ \E ident \in Identities : Archive(ident)
           \/ Reuse \/ Resume \/ RefuseStaging \/ Fresh \/ ReadArchive
           \/ Stage \/ Register \/ Insert \/ Fail \/ Crash \/ ChangeSource \/ UNCHANGED vars
  BY <1>3, OthersUnseen, CreationSteps
<1> QED
  BY <1>1, <1>2, <1>3 DEF Next, Kinds

\* Staging, retries, crashes and failures implement creation in one step: a
\* project appears whole, under an identity of its own, as it was asked for, and
\* a recorded operation makes no other (library_create, library_duplicate,
\* library_recover, import_v2).
THEOREM CreationTheorem == Spec => CreatesAtomically
<1>1. Init => Creation!Init
  BY CreationInit
<1>2. Inv /\ [Next]_vars => [Creation!Next]_(Creation!vars)
  BY StepCreates
<1> QED
  BY <1>1, <1>2, InvTheorem, PTL DEF Spec, CreatesAtomically, Creation!Spec
=============================================================================
