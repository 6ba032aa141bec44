-------------------------- MODULE SchemaMigration ---------------------------
(***************************************************************************)
(* The start of the process up to a usable database: init_schema of        *)
(* src/src/storage/sqlite.py, one statement per step, as src/src/main.py   *)
(* awaits it before anything else runs.                                    *)
(*                                                                         *)
(* The driver opens a transaction at the first INSERT, UPDATE or DELETE.   *)
(* A statement that defines a table before that is durable at once; after  *)
(* it, everything waits for the commit.  disk is what a crash leaves, conn *)
(* what the connection sees.  The process manager starts a process that    *)
(* ended again (ecosystem.config.cjs, autorestart).                        *)
(***************************************************************************)
EXTENDS Naturals, FiniteSets

CONSTANTS
  Ids,           \* rows of memories and of tool_executions
  OldMemories,   \* rows of memories before the first start of this version
  OldJournal,    \* rows of tool_executions before that start
  Users,         \* actors whose memory is private
  NoActor,       \* memory_audit names only "system" or "migration"
  Shared,        \* the shared scope; a user stands for the user's own scope
  Actor,         \* the actor of the last audit entry of a row
  Key,           \* the key of a row
  Age,           \* the order of updated_at among the old rows
  NoTable,       \* a table that does not exist
  ColumnCount,   \* columns the migration adds to existing tables
  MaxCrashes     \* bound: crashes of the process

ASSUME RowAssumption ==
  /\ OldMemories \subseteq Ids /\ OldJournal \subseteq Ids
  /\ Actor \in [Ids -> Users \cup {NoActor}] /\ NoActor \notin Users
  /\ Shared \notin Users \cup {NoActor}
  /\ Age \in [Ids -> Nat]
  /\ \A i, j \in Ids : Age[i] = Age[j] => i = j
  /\ IsFiniteSet(OldMemories)
  /\ \A rows \in SUBSET Ids : rows # NoTable
ASSUME MigrationBounds == ColumnCount \in Nat /\ MaxCrashes \in Nat

VARIABLES
  pc,       \* the statement the start is at
  disk,     \* the database file
  conn,     \* the database as the connection sees it
  inTx,     \* a transaction is open
  crashes   \* crashes so far (bound)

startVars == <<pc, disk, conn, inTx, crashes>>

Tables == {"memories", "tool_executions"}
Shapes == {"absent", "old", "new"}

(* Versions of the database file: none yet, before groups had memories of their
   own, before the action journal, and this one without its columns.         *)
Versions == {[memories |-> m, tool_executions |-> j] :
               m, j \in Shapes} \ {v \in [Tables -> Shapes] :
               \/ v["memories"] = "old" /\ v["tool_executions"] # "old"
               \/ v["memories"] = "absent" /\ v["tool_executions"] # "absent"
               \/ v["memories"] = "new" /\ v["tool_executions"] = "absent"}

Old == [memories |-> OldMemories, tool_executions |-> OldJournal]

StartInit ==
  /\ \E v \in Versions :
       disk = [shape   |-> v,
               rows    |-> [t \in Tables |-> IF v[t] = "absent" THEN {} ELSE Old[t]],
               aside   |-> [t \in Tables |-> NoTable],
               private |-> {},
               columns |-> IF v["memories"] = "absent" THEN ColumnCount ELSE 0,
               fts     |-> {}]
  /\ conn = disk /\ inTx = FALSE
  /\ pc = <<"down">> /\ crashes = 0

-----------------------------------------------------------------------------
(* Statements.                                                               *)
Ddl(db) ==
  /\ conn' = db
  /\ disk' = IF inTx THEN disk ELSE db
  /\ UNCHANGED inTx

Dml(db) == conn' = db /\ inTx' = TRUE /\ UNCHANGED disk

Nothing == UNCHANGED <<conn, disk, inTx>>

Commit == disk' = conn /\ inTx' = FALSE /\ UNCHANGED conn

Owner(db, i) == IF i \in db.private THEN Actor[i] ELSE Shared
SameSlot(db, i, j) == Owner(db, i) = Owner(db, j) /\ Key[i] = Key[j]

(* main() connects.                                                          *)
Connect ==
  /\ pc = <<"down">>
  /\ pc' = <<"rename", "memories">>
  /\ conn' = disk /\ inTx' = FALSE
  /\ UNCHANGED <<disk, crashes>>

-----------------------------------------------------------------------------
(* A table of the old shape is renamed, created anew, filled and dropped.    *)
Moved(t) == IF t = "memories" THEN <<"rename", "tool_executions">> ELSE <<"columns">>

(* Mutant: a table of the new shape is taken for an old one.                 *)
RenameAny(t) ==
  /\ pc = <<"rename", t>>
  /\ IF conn.shape[t] # "absent"
       THEN /\ Ddl([conn EXCEPT !.shape[t] = "absent", !.rows[t] = {},
                                !.aside[t] = conn.rows[t]])
            /\ pc' = <<"create", t>>
       ELSE Nothing /\ pc' = Moved(t)
  /\ UNCHANGED crashes

Rename(t) ==
  /\ pc = <<"rename", t>>
  /\ IF conn.shape[t] = "old"
       THEN /\ Ddl([conn EXCEPT !.shape[t] = "absent", !.rows[t] = {},
                                !.aside[t] = conn.rows[t]])
            /\ pc' = <<"create", t>>
       ELSE Nothing /\ pc' = Moved(t)
  /\ UNCHANGED crashes

(* Mutant: the old table is dropped before its rows are copied.              *)
DropFirst(t) ==
  /\ pc = <<"create", t>>
  /\ Ddl([conn EXCEPT !.shape[t] = "new", !.aside[t] = NoTable])
  /\ pc' = Moved(t)
  /\ UNCHANGED crashes

Create(t) ==
  /\ pc = <<"create", t>>
  /\ Ddl([conn EXCEPT !.shape[t] = "new"])
  /\ pc' = <<"copy", t>>
  /\ UNCHANGED crashes

CopyRows(t) ==
  /\ pc = <<"copy", t>>
  /\ Dml([conn EXCEPT !.rows[t] = conn.aside[t]])
  /\ pc' = <<"drop", t>>
  /\ UNCHANGED crashes

DropOld(t) ==
  /\ pc = <<"drop", t>>
  /\ Ddl([conn EXCEPT !.aside[t] = NoTable])
  /\ pc' = Moved(t)
  /\ UNCHANGED crashes

-----------------------------------------------------------------------------
(* Columns, then the rows: one ALTER TABLE per missing column.               *)
AddColumn ==
  /\ pc = <<"columns">>
  /\ IF conn.columns < ColumnCount
       THEN Ddl([conn EXCEPT !.columns = @ + 1]) /\ UNCHANGED pc
       ELSE Nothing /\ pc' = <<"events">>
  /\ UNCHANGED crashes

(* processed_events: empty values of the new columns are filled in.          *)
FillEvents ==
  /\ pc = <<"events">>
  /\ IF conn.shape["memories"] = "absent" /\ conn.aside["memories"] = NoTable
       THEN Nothing ELSE Dml(conn)
  /\ pc' = <<"private">>
  /\ UNCHANGED crashes

(* Shared rows that a user wrote become that user's own.                     *)
MakePrivate ==
  /\ pc = <<"private">>
  /\ IF conn.shape["memories"] = "absent" THEN Nothing
       ELSE Dml([conn EXCEPT !.private =
                   @ \cup {i \in conn.rows["memories"] : Actor[i] # NoActor}])
  /\ pc' = <<"dedupe">>
  /\ UNCHANGED crashes

(* Of rows with one owner and one key the newest stays.                      *)
Superseded(db) ==
  {i \in db.rows["memories"] :
     \E j \in db.rows["memories"] : SameSlot(db, i, j) /\ Age[j] > Age[i]}

(* Mutant: duplicates are left to the unique indexes.                        *)
KeepDuplicates ==
  /\ pc = <<"dedupe">>
  /\ Nothing /\ pc' = <<"commit">>
  /\ UNCHANGED crashes

Dedupe ==
  /\ pc = <<"dedupe">>
  /\ IF conn.shape["memories"] = "absent" THEN Nothing
       ELSE Dml([conn EXCEPT !.rows["memories"] = @ \ Superseded(conn)])
  /\ pc' = <<"commit">>
  /\ UNCHANGED crashes

CommitMigration ==
  /\ pc = <<"commit">>
  /\ Commit /\ pc' = <<"script">>
  /\ UNCHANGED crashes

-----------------------------------------------------------------------------
(* schema.sql creates what is missing; a unique index over duplicates raises,
   and the process ends.                                                     *)
RunScript ==
  /\ pc = <<"script">>
  /\ IF Superseded(conn) # {}
       THEN Nothing /\ pc' = <<"down">>
       ELSE /\ Ddl([conn EXCEPT !.shape = [t \in Tables |-> "new"]])
            /\ pc' = <<"fts">>
  /\ UNCHANGED crashes

(* The text index is rebuilt from the table.                                 *)
RebuildFts ==
  /\ pc = <<"fts">>
  /\ Dml([conn EXCEPT !.fts = conn.rows["memories"]])
  /\ pc' = <<"agents">>
  /\ UNCHANGED crashes

(* Mutant: the rebuilt index is not committed.                               *)
InsertAgentsOpen ==
  /\ pc = <<"agents">>
  /\ Nothing /\ pc' = <<"ready">>
  /\ UNCHANGED crashes

InsertAgents ==
  /\ pc = <<"agents">>
  /\ Commit /\ pc' = <<"ready">>
  /\ UNCHANGED crashes

StartCrash ==
  /\ pc # <<"down">> /\ crashes < MaxCrashes
  /\ crashes' = crashes + 1
  /\ pc' = <<"down">> /\ inTx' = FALSE /\ conn' = disk
  /\ UNCHANGED disk

Statement ==
  \/ Connect
  \/ \E t \in Tables : Rename(t) \/ Create(t) \/ CopyRows(t) \/ DropOld(t)
  \/ AddColumn \/ FillEvents \/ MakePrivate \/ Dedupe \/ CommitMigration
  \/ RunScript \/ RebuildFts \/ InsertAgents
=============================================================================
