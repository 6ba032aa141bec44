------------------------------- MODULE Memory -------------------------------
(***************************************************************************)
(* Long-term memory (src/src/memory/): rows in SQLite, and two copies      *)
(* derived from them, a Markdown file per scope (vault.py) and a vector    *)
(* per row (vector_index.py).  A start brings the copies up to date after  *)
(* the migration of SchemaMigration; a write (service.py, judge.py) stores *)
(* a row and then updates both copies, whose failures are swallowed.       *)
(*                                                                         *)
(* Writers are the message handlers of one group: each holds the group's   *)
(* lock while it writes.  Handlers of different groups share no row, file  *)
(* or vector.  A value is a number, higher when it was written later.      *)
(***************************************************************************)
EXTENDS SchemaMigration

CONSTANTS
  Handlers,       \* message handlers of the group
  NoRow,          \* a handler that writes nothing
  NoVector,       \* a row that was never embedded
  BackfillLimit,  \* memory_semantic_backfill_limit
  MaxItems,       \* items of one judgement (five in judge.py)
  MaxWrites       \* bound: writes

ASSUME MemoryAssumption ==
  /\ BackfillLimit \in Nat /\ MaxItems \in Nat \ {0} /\ MaxWrites \in Nat
  /\ NoRow \notin Ids /\ NoVector \notin [value : Nat, part : Users \cup {Shared}]

VARIABLES
  value,        \* the value of each row
  writes,       \* writes so far (bound)
  mirror,       \* the file of each scope
  index,        \* the vector of each row, with the partition it is in
  writer,       \* what each handler is doing
  had,          \* rows each table ever held (history)
  staleFiles,   \* scopes whose last update of the file failed (history)
  staleVectors, \* rows whose last update of the vector failed (history)
  confirmed,    \* the last value of each row a handler was told is stored (history)
  served        \* the process has served messages before (history)

copyVars == <<value, writes, mirror, index, writer>>
historyVars == <<had, staleFiles, staleVectors, confirmed, served>>
vars == <<startVars, copyVars, historyVars>>

Owners == Users \cup {Shared}
Values == 0..MaxWrites
NotWriting == [at |-> "idle", row |-> NoRow, value |-> 0, page |-> {}, left |-> 0]

Rows == conn.rows["memories"]
Content(o) == {<<i, value[i]>> : i \in {j \in Rows : Owner(conn, j) = o}}

(* The last version wrote the shared scope's file, and vectors if it was set to. *)
Init ==
  /\ StartInit
  /\ value = [i \in Ids |-> 0] /\ writes = 0
  /\ mirror = [o \in Owners |-> IF o = Shared THEN Content(Shared) ELSE {}]
  /\ \E embedded \in {{}, Rows} :
       index = [i \in Ids |-> IF i \in embedded THEN [value |-> 0, part |-> Shared]
                                                ELSE NoVector]
  /\ writer = [h \in Handlers |-> NotWriting]
  /\ had = disk.rows
  /\ staleFiles = Owners /\ staleVectors = Ids
  /\ confirmed = [i \in Ids |-> 0] /\ served = FALSE

-----------------------------------------------------------------------------
(* A start: the schema, then the copies.  Nothing else runs yet.             *)
Start == Statement /\ UNCHANGED <<copyVars, historyVars>>

(* sync_all: a file per scope that has rows; the first failure ends it.      *)
SyncAll ==
  /\ pc = <<"ready">>
  /\ \E done \in SUBSET {Owner(conn, i) : i \in Rows} :
       /\ mirror' = [o \in Owners |-> IF o \in done THEN Content(o) ELSE mirror[o]]
       /\ staleFiles' = staleFiles \ done
  /\ pc' = <<"backfill">>
  /\ UNCHANGED <<disk, conn, inTx, crashes, value, writes, index, writer, had,
                 staleVectors, confirmed, served>>

Later(i, j) == value[i] > value[j] \/ (value[i] = value[j] /\ Age[i] > Age[j])
Newest(n) == {i \in Rows : Cardinality({j \in Rows : Later(j, i)}) < n}
Current(i) == index[i] # NoVector /\ index[i].value = value[i]

(* backfill: of the newest rows those whose hash differs, embedded together,
   then stored one by one; a row that fails is passed over.                  *)
Backfill ==
  /\ pc = <<"backfill">>
  /\ \E done \in SUBSET {i \in Newest(BackfillLimit) : ~Current(i)} :
       /\ index' = [i \in Ids |-> IF i \in done
                                    THEN [value |-> value[i], part |-> Owner(conn, i)]
                                    ELSE index[i]]
       /\ staleVectors' = staleVectors \ done
  /\ pc' = <<"serving">>
  /\ served' = TRUE
  /\ UNCHANGED <<disk, conn, inTx, crashes, value, writes, mirror, writer, had,
                 staleFiles, confirmed>>

-----------------------------------------------------------------------------
(* set_memory, for each item of a message.                                   *)
At(h, place) == writer[h].at = place
Move(h, fields) == writer' = [writer EXCEPT ![h] = fields]

(* The group's lock.                                                         *)
LockFree == \A h \in Handlers : At(h, "idle")

(* Mutant: a handler writes without the group's lock.                        *)
BeginUnlocked(h) ==
  /\ pc = <<"serving">> /\ At(h, "idle")
  /\ \E n \in 1..MaxItems : Move(h, [NotWriting EXCEPT !.at = "item", !.left = n])
  /\ UNCHANGED <<startVars, value, writes, mirror, index, historyVars>>

Begin(h) ==
  /\ pc = <<"serving">> /\ LockFree
  /\ \E n \in 1..MaxItems : Move(h, [NotWriting EXCEPT !.at = "item", !.left = n])
  /\ UNCHANGED <<startVars, value, writes, mirror, index, historyVars>>

(* The row of a user's key: the one that is there, or a new one.             *)
RowFor(u, k) ==
  LET there == {i \in Rows : Owner(conn, i) = u /\ Key[i] = k}
      new == {i \in Ids \ had["memories"] : Actor[i] = u /\ Key[i] = k}
  IN IF there # {} THEN there ELSE new

(* What a search of user u may return: rows whose owner, as it is when the
   candidates are joined with the table, is the user or nobody.  Ranking and the
   limits on candidates are left out: what matches is any part of these.     *)
MayRead(u, i) == Owner(conn, i) \in {Shared, u}

(* Mutant: the join does not look at the owner again.                        *)
FoundAnyOwner(u) ==
  {i \in Rows : index[i] # NoVector /\ index[i].part \in {Shared, u}}

Found(u) ==
  LET near == {i \in Ids : index[i] # NoVector /\ index[i].part \in {Shared, u}}
  IN {i \in near \cap Rows : MayRead(u, i)}

(* memory_fts joined with the table.                                         *)
Lexical(u) == {i \in conn.fts \cap Rows : MayRead(u, i)}

(* One transaction: the row, the text index's triggers, the audit entry.     *)
Stored(i) == [conn EXCEPT !.rows["memories"] = @ \cup {i},
                          !.private = @ \cup {i}, !.fts = @ \cup {i}]

(* Mutant: the transaction is left open.                                     *)
StoreUncommitted(h) ==
  /\ At(h, "item") /\ writes < MaxWrites
  /\ \E u \in Users, k \in {Key[i] : i \in Ids} : \E i \in RowFor(u, k) :
       /\ conn' = Stored(i)
       /\ writes' = writes + 1
       /\ value' = [value EXCEPT ![i] = writes + 1]
       /\ had' = [had EXCEPT !["memories"] = @ \cup {i}]
       /\ Move(h, [writer[h] EXCEPT !.at = "scope", !.row = i, !.value = writes + 1])
  /\ UNCHANGED <<pc, disk, inTx, crashes, mirror, index, staleFiles, staleVectors, confirmed,
                 served>>

Store(h) ==
  /\ At(h, "item") /\ writes < MaxWrites
  /\ \E u \in Users, k \in {Key[i] : i \in Ids} : \E i \in RowFor(u, k) :
       /\ conn' = Stored(i) /\ disk' = Stored(i)
       /\ writes' = writes + 1
       /\ value' = [value EXCEPT ![i] = writes + 1]
       /\ had' = [had EXCEPT !["memories"] = @ \cup {i}]
       /\ Move(h, [writer[h] EXCEPT !.at = "scope", !.row = i, !.value = writes + 1])
  /\ UNCHANGED <<pc, inTx, crashes, mirror, index, staleFiles, staleVectors, confirmed, served>>

(* The judge finds nothing to store, or the transaction raises: what earlier
   items stored stays.                                                       *)
GiveUp(h) ==
  /\ At(h, "item")
  /\ Move(h, NotWriting)
  /\ UNCHANGED <<startVars, value, writes, mirror, index, historyVars>>

WrittenOwner(h) == Owner(conn, writer[h].row)

ReadScope(h) ==
  /\ At(h, "scope")
  /\ Move(h, [writer[h] EXCEPT !.at = "file", !.page = Content(WrittenOwner(h))])
  /\ UNCHANGED <<startVars, value, writes, mirror, index, historyVars>>

(* _atomic_write in a thread; an error is swallowed.                         *)
ReplaceFile(h) ==
  /\ At(h, "file")
  /\ \/ /\ mirror' = [mirror EXCEPT ![WrittenOwner(h)] = writer[h].page]
        /\ staleFiles' = staleFiles \ {WrittenOwner(h)}
     \/ UNCHANGED mirror /\ staleFiles' = staleFiles \cup {WrittenOwner(h)}
  /\ Move(h, [writer[h] EXCEPT !.at = "vector", !.page = {}])
  /\ UNCHANGED <<startVars, value, writes, index, had, staleVectors, confirmed, served>>

(* The embedding is awaited, then stored in one transaction; no embedding or an
   error leaves the old vector.                                              *)
UpsertVector(h) ==
  /\ At(h, "vector")
  /\ \/ /\ index' = [index EXCEPT ![writer[h].row] =
                       [value |-> writer[h].value, part |-> WrittenOwner(h)]]
        /\ staleVectors' = staleVectors \ {writer[h].row}
     \/ UNCHANGED index /\ staleVectors' = staleVectors \cup {writer[h].row}
  /\ Move(h, [writer[h] EXCEPT !.at = "told"])
  /\ UNCHANGED <<startVars, value, writes, mirror, had, staleFiles, confirmed, served>>

(* The caller has the item: it is acknowledged, and the next one follows.    *)
Return(h) ==
  /\ At(h, "told")
  /\ confirmed' = [confirmed EXCEPT ![writer[h].row] = writer[h].value]
  /\ Move(h, IF writer[h].left > 1
               THEN [NotWriting EXCEPT !.at = "item", !.left = writer[h].left - 1]
               ELSE NotWriting)
  /\ UNCHANGED <<startVars, value, writes, mirror, index, had, staleFiles, staleVectors, served>>

(* The process dies: handlers are gone, the copies they had not reached stay old. *)
Crash ==
  /\ StartCrash
  /\ LET cut == {h \in Handlers : ~At(h, "idle") /\ writer[h].row # NoRow} IN
       /\ staleFiles' = staleFiles \cup {WrittenOwner(h) : h \in {g \in cut :
                                            writer[g].at \in {"scope", "file"}}}
       /\ staleVectors' = staleVectors \cup {writer[h].row : h \in {g \in cut :
                                            writer[g].at \in {"scope", "file", "vector"}}}
  /\ writer' = [h \in Handlers |-> NotWriting]
  /\ UNCHANGED <<value, writes, mirror, index, had, confirmed, served>>

Write(h) ==
  \/ Store(h) \/ GiveUp(h) \/ ReadScope(h) \/ ReplaceFile(h) \/ UpsertVector(h) \/ Return(h)

Next ==
  \/ Start \/ SyncAll \/ Backfill
  \/ \E h \in Handlers : Begin(h) \/ Write(h)
  \/ Crash

(* The process manager starts the process again, and a start runs on.        *)
Spec == Init /\ [][Next]_vars /\ WF_vars(Start \/ SyncAll \/ Backfill)

-----------------------------------------------------------------------------
(* Properties.                                                               *)

(* The database and the copies keep their shape, and no transaction is open
   when messages are served.                                                 *)
StoreTypeOK ==
  /\ \A db \in {disk, conn} :
       /\ db.shape \in [Tables -> Shapes] /\ db.rows \in [Tables -> SUBSET Ids]
       /\ \A t \in Tables : db.aside[t] = NoTable \/ db.aside[t] \subseteq Ids
       /\ db.private \subseteq {i \in Ids : Actor[i] # NoActor}
       /\ db.columns \in 0..ColumnCount /\ db.fts \subseteq Ids
  /\ inTx \in BOOLEAN /\ crashes \in 0..MaxCrashes
  /\ value \in [Ids -> Values] /\ writes \in Values
  /\ mirror \in [Owners -> SUBSET (Ids \X Values)]
  /\ \A i \in Ids : index[i] = NoVector \/ index[i] \in [value : Values, part : Owners]
  /\ pc = <<"serving">> => ~inTx /\ disk = conn

(* No row is ever destroyed, whenever the process dies: it is in its table, or
   in the table set aside by the rename, or a newer row has its owner and key.
   The rename, the copy and the drop commit at different times (sqlite.py:98). *)
NothingVanishes ==
  \A t \in Tables : \A i \in had[t] :
    \/ i \in disk.rows[t]
    \/ disk.aside[t] # NoTable /\ i \in disk.aside[t]
    \/ /\ t = "memories"
       /\ \E j \in disk.rows[t] : SameSlot(disk, i, j) /\ Age[j] > Age[i]

(* A served database has one row per owner and key, all of them in the text
   index, and every value a user was told is stored is in it or was overwritten
   by a later one, whatever crashed since (README.md:206).                   *)
ToldIsStored ==
  pc = <<"serving">> =>
    /\ Superseded(disk) = {} /\ disk.fts = disk.rows["memories"]
    /\ \A i \in Ids : confirmed[i] > 0 => i \in disk.rows["memories"] /\ value[i] >= confirmed[i]

(* Unless its last update failed, a scope's file shows the scope's rows as they
   are, and a row's vector is that of its value, while no handler is writing
   there.  A start repairs the files of scopes that have rows (the shared file of
   a database whose rows all became private stays) and the newest vectors.   *)
CopiesFresh ==
  pc = <<"serving">> =>
    /\ \A o \in Owners \ staleFiles :
         (\A h \in Handlers : writer[h].row # NoRow => WrittenOwner(h) # o)
         => mirror[o] = Content(o)
    /\ \A i \in Rows \ staleVectors :
         (\A h \in Handlers : writer[h].row # i) => Current(i)

(* A search finds every row the user may see by its text, every embedded one by
   its vector, and no other user's, also of rows that became private after they
   were embedded: their vector stays in the shared partition, for the content
   hash does not cover the owner.                                            *)
SearchExact ==
  pc = <<"serving">> =>
    \A u \in Users :
      /\ Lexical(u) = {i \in Rows : Owner(conn, i) \in {Shared, u}}
      /\ Found(u) = {i \in Lexical(u) : index[i] # NoVector}

(* The migration is run at every start; once the database has served, it changes
   neither its rows nor their owners.                                        *)
StartsKeep ==
  [][served /\ pc # <<"serving">>
     => disk'.rows = disk.rows /\ disk'.private = disk.private]_vars

(* Every start ends in service, wherever the one before it was cut off: no
   column is added twice, no index is built over duplicates.                 *)
Starts == pc = <<"down">> ~> pc = <<"serving">>

(* "The v0.2.4 table is migrated in place and old rows are retained"
   (docs/RELIABLE_ACTION_LAYER.md:17).                                       *)
JournalRetained ==
  pc = <<"serving">> => had["tool_executions"] \subseteq disk.rows["tool_executions"]
=============================================================================
