--------------------------- MODULE Memory_proofs ---------------------------
(***************************************************************************)
(* Proofs about Memory, for any rows, users, handlers, columns and bounds: *)
(* no row vanishes, what users were told is stored, a start changes        *)
(* nothing that was served, the copies are fresh and a search is exact.    *)
(***************************************************************************)
EXTENDS Memory, FiniteSetTheorems, WellFoundedInduction, TLAPS

-----------------------------------------------------------------------------
(* The invariant.                                                            *)

(* A database, as the file has it or as the connection sees it.              *)
Database ==
  [shape   : [Tables -> Shapes],
   rows    : [Tables -> SUBSET Ids],
   aside   : [Tables -> {NoTable} \cup SUBSET Ids],
   private : SUBSET {i \in Ids : Actor[i] # NoActor},
   columns : 0..ColumnCount,
   fts     : SUBSET Ids]

(* The name of the statement the start is at.                                *)
Place == pc[1]
Moving == {"create", "copy", "drop"}
Committed == {"down", "script", "fts", "ready", "backfill", "serving"}
Indexed == {"agents", "ready", "backfill", "serving"}

DatabaseInv ==
  /\ disk \in Database /\ conn \in Database
  /\ inTx \in BOOLEAN /\ crashes \in 0..MaxCrashes
  /\ ~inTx => disk = conn
  /\ Place \in Committed => ~inTx

(* Where a row of table t may be.                                            *)
SetAside(db, t, i) == db.aside[t] # NoTable /\ i \in db.aside[t]
Overtaken(db, i) == \E j \in db.rows["memories"] : SameSlot(db, i, j) /\ Age[j] > Age[i]
Held(db, t, i) ==
  i \in db.rows[t] \/ SetAside(db, t, i) \/ (t = "memories" /\ Overtaken(db, i))

(* Every row a user wrote is that user's own.                                *)
Owned(db) == \A i \in db.rows["memories"] : Actor[i] # NoActor => i \in db.private

(* No memory was overtaken yet.                                              *)
Whole(db) ==
  \A i \in had["memories"] : i \in db.rows["memories"] \/ SetAside(db, "memories", i)

(* What a crash or a commit may bring back: all rows, in one place or another;
   owners change only as long as nothing was removed for having another's.   *)
Sound(db) ==
  /\ \A t \in Tables :
       /\ db.rows[t] \subseteq had[t]
       /\ db.aside[t] # NoTable => db.aside[t] \subseteq had[t]
       /\ db.shape[t] = "absent" => db.rows[t] = {}
       /\ db.shape[t] = "old" => db.aside[t] = NoTable /\ had[t] \subseteq db.rows[t]
       /\ \A i \in had[t] : Held(db, t, i)
  /\ Owned(db) \/ Whole(db)

HadInv ==
  /\ had \in [Tables -> SUBSET Ids] /\ IsFiniteSet(had["memories"])
  /\ Sound(disk) /\ Sound(conn)

(* What the statement at hand finds in the database.                         *)
StatementInv ==
  /\ Place = "serving" => pc = <<"serving">>
  /\ Place \in Moving => pc[2] \in Tables
  /\ Place = "create" =>
       /\ conn.shape[pc[2]] = "absent" /\ conn.aside[pc[2]] # NoTable
       /\ had[pc[2]] \subseteq conn.aside[pc[2]]
  /\ Place = "copy" =>
       /\ conn.shape[pc[2]] = "new" /\ conn.aside[pc[2]] # NoTable
       /\ had[pc[2]] \subseteq conn.aside[pc[2]]
  /\ Place = "drop" => conn.shape[pc[2]] = "new" /\ had[pc[2]] \subseteq conn.rows[pc[2]]
  /\ conn.shape["memories"] = "old" =>
       Place = "down" \/ (Place = "rename" /\ pc[2] = "memories")
  /\ Place \in {"dedupe", "commit", "script"} => Owned(conn)
  /\ Place \in Indexed => conn.fts = conn.rows["memories"]

(* The database has been brought to this version.  From then on no start changes
   its rows or their owners.                                                 *)
Established ==
  \/ served \/ staleFiles # Owners \/ staleVectors # Ids
  \/ Place \in {"fts"} \cup Indexed

Settled(db) ==
  /\ \A t \in Tables : db.shape[t] = "new"
  /\ Superseded(db) = {} /\ Owned(db)

SettledInv ==
  Established =>
    /\ Settled(disk) /\ Settled(conn)
    /\ conn.rows = disk.rows /\ conn.private = disk.private
    /\ Place \notin Moving

(* One handler at a time writes, and what it wrote is as it left it.         *)
IsWriter(w) ==
  w = [at |-> w.at, row |-> w.row, value |-> w.value, page |-> w.page, left |-> w.left]

(* The handler is between two items, or the row it wrote is there.           *)
HasRow(w) ==
  /\ w.at \in {"idle", "item"} => w.row = NoRow
  /\ w.at \notin {"idle", "item"} =>
       /\ w.at \in {"scope", "file", "vector", "told"}
       /\ w.row \in Rows /\ w.value = value[w.row]

HasPage(w) == w.at = "file" => w.page = Content(Owner(conn, w.row))

WriterInv ==
  /\ writer = [h \in Handlers |-> writer[h]]
  /\ \A h \in Handlers :
       /\ IsWriter(writer[h]) /\ HasRow(writer[h]) /\ HasPage(writer[h])
       /\ writer[h].at # "idle" =>
            Place = "serving" /\ \A g \in Handlers \ {h} : writer[g].at = "idle"

ToldInv ==
  /\ value \in [Ids -> Values] /\ writes \in Values
  /\ confirmed \in [Ids -> Values] /\ served \in BOOLEAN
  /\ Place = "serving" => served
  /\ \A i \in Ids :
       /\ value[i] <= writes /\ confirmed[i] <= value[i]
       /\ confirmed[i] > 0 => served /\ i \in conn.rows["memories"]

(* The copies: out of date only where an update failed or is under way.      *)
FilesInv ==
  /\ mirror \in [Owners -> SUBSET (Ids \X Values)] /\ staleFiles \subseteq Owners
  /\ \A o \in Owners \ staleFiles :
       (\A h \in Handlers : writer[h].at \in {"scope", "file"} => WrittenOwner(h) # o)
       => mirror[o] = Content(o)

VectorsInv ==
  /\ index = [i \in Ids |-> index[i]] /\ staleVectors \subseteq Ids
  /\ \A i \in Ids : index[i] = NoVector \/ index[i] \in [value : Values, part : Owners]
  /\ \A i \in Rows \ staleVectors :
       (\A h \in Handlers : writer[h].at \in {"scope", "file", "vector"} => writer[h].row # i)
       => Current(i)

(* A vector is in the partition its row was in when it was embedded.         *)
PartitionInv ==
  \A i \in Ids : index[i] # NoVector =>
    /\ index[i].part \in {Shared, Owner(disk, i)}
    /\ index[i].part \in {Shared, Owner(conn, i)}

MemoryInv ==
  /\ DatabaseInv /\ HadInv /\ StatementInv /\ SettledInv
  /\ WriterInv /\ ToldInv /\ FilesInv /\ VectorsInv /\ PartitionInv

-----------------------------------------------------------------------------
(* Of the rows of one owner and key, one is newer than the others.           *)
LEMMA FewestAbove ==
  ASSUME NEW S, NEW f \in [S -> Nat], S # {}
  PROVE  \E i \in S : \A j \in S : f[i] <= f[j]
<1> DEFINE T == {f[i] : i \in S}
<1>1. T \subseteq Nat /\ T # {}
  OBVIOUS
<1>2. PICK n \in T : \A k \in T : ~(<<k, n>> \in OpToRel(<, Nat))
  BY <1>1, NatLessThanWellFounded, WFMin
<1>3. \A k \in T : ~(k < n)
  BY <1>1, <1>2 DEF OpToRel
<1>4. PICK i \in S : n = f[i]
  OBVIOUS
<1>5. \A j \in S : f[j] \in Nat /\ ~(f[j] < f[i])
  BY <1>3, <1>4
<1> QED
  BY <1>4, <1>5

LEMMA NewestExists ==
  ASSUME NEW db, IsFiniteSet(db.rows["memories"]), db.rows["memories"] \subseteq Ids,
         NEW i \in db.rows["memories"]
  PROVE  \E j \in db.rows["memories"] \ Superseded(db) :
           SameSlot(db, i, j) /\ Age[j] >= Age[i]
<1> DEFINE R == db.rows["memories"]
           S == {j \in R : SameSlot(db, i, j) /\ Age[j] >= Age[i]}
           Above(j) == {k \in R : Age[k] > Age[j]}
           f == [j \in S |-> Cardinality(Above(j))]
<1>1. i \in S
  BY RowAssumption DEF SameSlot
<1>2. \A j \in S : IsFiniteSet(Above(j)) /\ Cardinality(Above(j)) \in Nat
  <2> TAKE j \in S
  <2>1. IsFiniteSet(Above(j))
    BY FS_Subset
  <2> QED
    BY <2>1, FS_CardinalityType
<1>3. f \in [S -> Nat]
  BY <1>2
<1>4. PICK j \in S : \A k \in S : f[j] <= f[k]
  <2> HIDE DEF f, S
  <2> QED
    BY <1>1, <1>3, FewestAbove
<1>5. ASSUME j \in Superseded(db) PROVE FALSE
  <2>1. PICK k \in R : SameSlot(db, j, k) /\ Age[k] > Age[j]
    BY <1>5 DEF Superseded
  <2>2. Age[i] \in Nat /\ Age[j] \in Nat /\ Age[k] \in Nat
    BY RowAssumption
  <2>3. k \in S
    BY <2>1, <2>2 DEF SameSlot
  <2>4. k \in Above(j) /\ k \notin Above(k)
    BY <2>1, <2>2
  <2>5. Above(k) \subseteq Above(j)
    <3> SUFFICES ASSUME NEW x \in R, Age[x] > Age[k] PROVE Age[x] > Age[j]
      OBVIOUS
    <3>1. Age[x] \in Nat
      BY RowAssumption
    <3> QED
      BY <2>1, <2>2, <3>1
  <2>6. Cardinality(Above(k)) < Cardinality(Above(j))
    <3> HIDE DEF Above
    <3> QED
      BY <1>2, <2>3, <2>4, <2>5, FS_Subset
  <2>7. f[j] = Cardinality(Above(j)) /\ f[k] = Cardinality(Above(k))
    BY <2>3
  <2> HIDE DEF f, Above
  <2> QED
    BY <1>2, <1>4, <2>3, <2>6, <2>7
<1> QED
  BY <1>5

-----------------------------------------------------------------------------
(* A statement: nothing but the database changes.                            *)
LEMMA FieldsOf ==
  ASSUME NEW db \in Database
  PROVE  /\ db.shape \in [Tables -> Shapes] /\ db.rows \in [Tables -> SUBSET Ids]
         /\ \A t \in Tables : db.aside[t] = NoTable \/ db.aside[t] \subseteq Ids
         /\ db.private \subseteq {i \in Ids : Actor[i] # NoActor}
         /\ db.columns \in 0..ColumnCount /\ db.fts \subseteq Ids
  BY DEF Database

(* Content is a function of the rows, their owners and their values.         *)
LEMMA SameContent ==
  ASSUME UNCHANGED value, conn'.rows["memories"] = conn.rows["memories"],
         conn'.private = conn.private, NEW o
  PROVE  Content(o)' = Content(o)
<1>1. \A i : Owner(conn, i)' = Owner(conn, i)
  BY DEF Owner
<1>2. Rows' = Rows
  BY DEF Rows
<1> QED
  BY <1>1, <1>2 DEF Content

(* A vector's partition stays right when rows become private.                *)
LEMMA PartitionStays ==
  ASSUME NEW before, NEW after, before.private \subseteq after.private, NEW i,
         NEW part \in {Shared, Owner(before, i)}
  PROVE  part \in {Shared, Owner(after, i)}
  BY DEF Owner

(* What a statement may do to the database, seen by every part of the invariant
   that is not about the statement itself.                                   *)
Harmless ==
  /\ UNCHANGED <<copyVars, historyVars>>
  /\ Place # "serving" /\ Place' # "serving"
  /\ conn' \in Database /\ disk' \in {disk, conn, conn'} /\ crashes' \in 0..MaxCrashes
  /\ inTx' \in BOOLEAN /\ (~inTx' => disk' = conn') /\ (Place' \in Committed => ~inTx')
  /\ conn.private \subseteq conn'.private \/ disk.private \subseteq conn'.private
  /\ Established => conn'.rows = conn.rows /\ conn'.private = conn.private

(* It leaves the rows and owners of a database that has served.              *)
Keeps == served => disk'.rows = disk.rows /\ disk'.private = disk.private

LEMMA IdleWriters ==
  ASSUME WriterInv, UNCHANGED writer,
         \A h \in Handlers : writer[h].at = "idle" /\ writer[h].row = NoRow
  PROVE  WriterInv'
<1>1. \A h \in Handlers : IsWriter(writer'[h])
  BY DEF WriterInv
<1> QED
  BY <1>1 DEF WriterInv, HasRow, HasPage, IsWriter

LEMMA StatementStep ==
  ASSUME MemoryInv, Harmless, Sound(conn'), StatementInv', SettledInv'
  PROVE  MemoryInv' /\ Keeps
<1> USE DEF MemoryInv
<1>1. UNCHANGED <<value, writes, mirror, index, writer, had, staleFiles, staleVectors,
                  confirmed, served>>
  BY DEF Harmless, copyVars, historyVars
<1>2. DatabaseInv'
  BY DEF DatabaseInv, Harmless
<1>3. HadInv'
  <2>1. Sound(disk')
    BY DEF HadInv, Harmless
  <2>2. Sound(disk)' /\ Sound(conn)'
    BY <1>1, <2>1 DEF Sound, Whole, Held
  <2> QED
    BY <1>1, <2>2 DEF HadInv
<1>4. \A h \in Handlers : writer[h].at = "idle" /\ writer[h].row = NoRow
  BY DEF WriterInv, HasRow, Harmless
<1>5. WriterInv'
  BY <1>1, <1>4, IdleWriters
<1>6. ASSUME Established
      PROVE  /\ Rows' = Rows /\ conn'.private = conn.private
             /\ \A o : Content(o)' = Content(o)
  <2>1. conn'.rows = conn.rows /\ conn'.private = conn.private
    BY <1>6 DEF Harmless
  <2>2. ASSUME NEW o PROVE Content(o)' = Content(o)
    BY <1>1, <2>1, SameContent
  <2> QED
    BY <2>1, <2>2 DEF Rows
<1>7. ToldInv'
  <2>1. ASSUME NEW i \in Ids, confirmed[i] > 0
        PROVE  i \in conn'.rows["memories"]
    BY <1>6, <2>1 DEF ToldInv, Established, Rows
  <2> QED
    BY <1>1, <2>1 DEF ToldInv, Harmless
<1>8. FilesInv'
  <2>1. ASSUME NEW o \in Owners \ staleFiles PROVE mirror[o] = Content(o)'
    BY <1>4, <1>6, <2>1 DEF FilesInv, Established, At
  <2> QED
    BY <1>1, <2>1 DEF FilesInv
<1>9. VectorsInv'
  <2>1. ASSUME NEW i \in Ids \ staleVectors, i \in Rows' PROVE Current(i)'
    BY <1>1, <1>4, <1>6, <2>1 DEF VectorsInv, Established, At, Current
  <2>2. Rows' \subseteq Ids
    BY FieldsOf DEF Harmless, Rows, Tables
  <2> QED
    BY <1>1, <2>1, <2>2 DEF VectorsInv
<1>10. PartitionInv'
  <2> SUFFICES ASSUME NEW i \in Ids, index[i] # NoVector
               PROVE  /\ index[i].part \in {Shared, Owner(disk', i)}
                      /\ index[i].part \in {Shared, Owner(conn', i)}
    BY <1>1 DEF PartitionInv
  <2>1. /\ index[i].part \in {Shared, Owner(disk, i)}
        /\ index[i].part \in {Shared, Owner(conn, i)}
    BY DEF PartitionInv
  <2>2. index[i].part \in {Shared, Owner(conn', i)}
    BY <2>1, PartitionStays DEF Harmless
  <2> QED
    BY <2>1, <2>2 DEF Harmless
<1>11. Keeps
  BY DEF Keeps, Harmless, Established, SettledInv
<1> QED
  BY <1>2, <1>3, <1>5, <1>7, <1>8, <1>9, <1>10, <1>11

(* Once the database is established, a statement keeps it so.                *)
LEMMA SettledStays ==
  ASSUME MemoryInv, Harmless, Place' \notin Moving,
         Established' => Established, Established => conn'.shape = conn.shape
  PROVE  SettledInv'
<1> SUFFICES ASSUME Established'
             PROVE  /\ Settled(disk') /\ Settled(conn')
                    /\ conn'.rows = disk'.rows /\ conn'.private = disk'.private
  BY DEF SettledInv
<1>1. /\ Settled(disk) /\ Settled(conn)
      /\ conn.rows = disk.rows /\ conn.private = disk.private
  BY DEF MemoryInv, SettledInv
<1>2. conn'.rows = conn.rows /\ conn'.private = conn.private /\ conn'.shape = conn.shape
  BY DEF Harmless
<1>3. Settled(conn')
  BY <1>1, <1>2 DEF Settled, Owned, Superseded, SameSlot, Owner
<1> QED
  BY <1>1, <1>2, <1>3 DEF Harmless

-----------------------------------------------------------------------------
(* The statements.                                                           *)
StatementVars == <<copyVars, historyVars, crashes>>

(* A statement that changes nothing the connection sees, or commits it.      *)
LEMMA QuietStatement ==
  ASSUME MemoryInv, UNCHANGED StatementVars, conn' = conn, disk' \in {disk, conn},
         Place # "serving", Place' \notin Moving \cup {"serving", "fts"},
         Place' \in Indexed => Place \in Indexed,
         inTx' \in BOOLEAN, ~inTx' => disk' = conn', Place' \in Committed => ~inTx',
         StatementInv'
  PROVE  MemoryInv' /\ Keeps
<1>1. Harmless
  BY DEF MemoryInv, Harmless, StatementVars, DatabaseInv
<1>2. Sound(conn')
  BY DEF MemoryInv, HadInv
<1>3. Established' => Established
  BY DEF Established, StatementVars, historyVars
<1>4. SettledInv'
  BY <1>1, <1>3, SettledStays
<1> QED
  BY <1>1, <1>2, <1>4, StatementStep

LEMMA ConnectStep ==
  ASSUME MemoryInv, Connect, UNCHANGED <<copyVars, historyVars>>
  PROVE  MemoryInv' /\ Keeps
<1>1. Place = "down" /\ Place' = "rename" /\ pc'[2] = "memories"
  BY DEF Connect, Place
<1>2. conn' = conn /\ disk' = disk /\ inTx' = FALSE /\ disk = conn
  BY <1>1 DEF Connect, MemoryInv, DatabaseInv, Committed
<1>3. StatementInv'
  BY <1>1 DEF StatementInv, Moving, Indexed
<1> QED
  BY <1>1, <1>2, <1>3, QuietStatement DEF Connect, StatementVars, Moving, Committed, Indexed

(* Past a table that needs no rename, or is done.                            *)
LEMMA MovedPlace ==
  ASSUME NEW t \in Tables, pc' = Moved(t)
  PROVE  /\ Place' \in {"rename", "columns"}
         /\ Place' = "rename" => pc'[2] = "tool_executions"
  BY DEF Moved, Place, Tables

(* A table is moved, all its rows in one place or the other.                 *)
LEMMA TableMoved ==
  ASSUME Sound(conn), NEW db, NEW t \in Tables, db.private = conn.private,
         \A u \in Tables \ {t} :
           /\ db.rows[u] = conn.rows[u] /\ db.aside[u] = conn.aside[u]
           /\ db.shape[u] = conn.shape[u],
         db.rows[t] \subseteq had[t], db.aside[t] # NoTable => db.aside[t] \subseteq had[t],
         db.shape[t] = "absent" => db.rows[t] = {}, db.shape[t] # "old",
         \A i \in had[t] : i \in db.rows[t] \/ SetAside(db, t, i)
  PROVE  Sound(db)
<1>1. ASSUME NEW u \in Tables, NEW i \in had[u]
      PROVE  Held(db, u, i)
  <2>1. CASE u = t
    BY <2>1 DEF Held
  <2>2. CASE u # t
    <3>1. Held(conn, u, i)
      BY DEF Sound
    <3>2. u = "memories" /\ Overtaken(conn, i) => Overtaken(db, i)
      BY <2>2 DEF Overtaken, SameSlot, Owner
    <3> QED
      BY <2>2, <3>1, <3>2 DEF Held, SetAside
  <2> QED
    BY <2>1, <2>2
<1>2. Owned(db) \/ Whole(db)
  <2>1. CASE t = "memories"
    BY <2>1 DEF Whole
  <2>2. CASE t # "memories"
    BY <2>2 DEF Sound, Owned, Whole, SetAside, Tables
  <2> QED
    BY <2>1, <2>2
<1> QED
  BY <1>1, <1>2 DEF Sound

(* What a statement on a table of the old shape needs to know.               *)
LEMMA DdlStep ==
  ASSUME MemoryInv, NEW db, Ddl(db), UNCHANGED StatementVars, db \in Database, Sound(db),
         conn.private \subseteq db.private, ~Established, ~Established',
         Place # "serving", Place' \notin Committed, StatementInv'
  PROVE  MemoryInv' /\ Keeps
<1>1. Harmless
  BY DEF MemoryInv, Harmless, StatementVars, DatabaseInv, Ddl, Committed
<1>2. SettledInv'
  BY DEF SettledInv
<1> QED
  BY <1>1, <1>2, StatementStep DEF Ddl

LEMMA RenameStep ==
  ASSUME MemoryInv, NEW t \in Tables, Rename(t), UNCHANGED <<copyVars, historyVars>>
  PROVE  MemoryInv' /\ Keeps
<1>1. Place = "rename" /\ pc[2] = t /\ UNCHANGED StatementVars
  BY DEF Rename, Place, StatementVars
<1>2. conn \in Database
  BY DEF MemoryInv, DatabaseInv
<1>3. CASE conn.shape[t] # "old"
  <2>1. Nothing /\ pc' = Moved(t)
    BY <1>3 DEF Rename
  <2>2. /\ Place' \in {"rename", "columns"}
        /\ Place' = "rename" => pc'[2] = "tool_executions"
    BY <2>1, MovedPlace
  <2>3. StatementInv'
    <3>1. conn.shape["memories"] # "old"
      BY <1>1, <1>3 DEF MemoryInv, StatementInv, Tables
    <3> QED
      BY <2>1, <2>2, <3>1 DEF StatementInv, Moving, Indexed, Nothing
  <2> QED
    BY <1>1, <2>1, <2>2, <2>3, QuietStatement
    DEF Nothing, Moving, Committed, Indexed, MemoryInv, DatabaseInv
<1>4. CASE conn.shape[t] = "old"
  <2> DEFINE db == [conn EXCEPT !.shape[t] = "absent", !.rows[t] = {},
                                !.aside[t] = conn.rows[t]]
  <2>1. Ddl(db) /\ pc' = <<"create", t>> /\ conn' = db
    BY <1>4 DEF Rename, Ddl
  <2>2. Place' = "create" /\ pc'[2] = t
    BY <2>1 DEF Place
  <2>3. /\ db.shape = [conn.shape EXCEPT ![t] = "absent"]
        /\ db.rows = [conn.rows EXCEPT ![t] = {}]
        /\ db.aside = [conn.aside EXCEPT ![t] = conn.rows[t]]
        /\ db.private = conn.private /\ db.columns = conn.columns /\ db.fts = conn.fts
    BY <1>2 DEF Database
  <2>4. db \in Database
    BY <1>2, <2>3 DEF Database, Shapes
  <2>5. conn.rows[t] # NoTable
    BY <1>2, RowAssumption DEF Database
  <2>6. Sound(conn) /\ had[t] \subseteq conn.rows[t]
    BY <1>4 DEF MemoryInv, HadInv, Sound
  <2>7. Sound(db)
    <3> HIDE DEF db
    <3>1. db.rows[t] = {} /\ db.aside[t] = conn.rows[t] /\ db.shape[t] = "absent"
      BY <1>2, <2>3 DEF Database
    <3>2. ASSUME NEW u \in Tables \ {t}
          PROVE  /\ db.rows[u] = conn.rows[u] /\ db.aside[u] = conn.aside[u]
                 /\ db.shape[u] = conn.shape[u]
      BY <1>2, <2>3 DEF Database
    <3>3. \A i \in had[t] : i \in db.rows[t] \/ SetAside(db, t, i)
      BY <2>5, <2>6, <3>1 DEF SetAside
    <3>4. conn.rows[t] \subseteq had[t]
      BY <2>6 DEF Sound
    <3> QED
      BY <2>3, <2>6, <3>1, <3>2, <3>3, <3>4, TableMoved
  <2>8. ~Established
    BY <1>4 DEF MemoryInv, SettledInv, Settled
  <2>9. ~Established'
    BY <2>2, <2>8 DEF Established, historyVars, Indexed
  <2>10. StatementInv'
    <3>1. conn'.shape[t] = "absent" /\ conn'.aside[t] = conn.rows[t]
      BY <1>2, <2>1, <2>3 DEF Database
    <3>2. conn'.shape["memories"] # "old"
      <4>1. t = "memories" \/ conn.shape["memories"] # "old"
        BY <1>1 DEF MemoryInv, StatementInv
      <4> QED
        BY <1>2, <2>1, <2>3, <4>1 DEF Database, Tables
    <3>3. had' = had
      BY DEF historyVars
    <3> QED
      BY <2>2, <2>5, <2>6, <3>1, <3>2, <3>3 DEF StatementInv, Moving, Indexed
  <2> HIDE DEF db
  <2> QED
    BY <1>1, <2>1, <2>2, <2>3, <2>4, <2>7, <2>8, <2>9, <2>10, DdlStep DEF Committed
<1> QED
  BY <1>3, <1>4

LEMMA CreateStep ==
  ASSUME MemoryInv, NEW t \in Tables, Create(t), UNCHANGED <<copyVars, historyVars>>
  PROVE  MemoryInv' /\ Keeps
<1> DEFINE db == [conn EXCEPT !.shape[t] = "new"]
<1>1. /\ Place = "create" /\ pc[2] = t /\ Place' = "copy" /\ pc'[2] = t
      /\ UNCHANGED StatementVars /\ Ddl(db) /\ conn' = db
  BY DEF Create, Place, StatementVars, Ddl
<1>2. conn \in Database /\ Sound(conn)
  BY DEF MemoryInv, DatabaseInv, HadInv
<1>3. /\ db.shape = [conn.shape EXCEPT ![t] = "new"]
      /\ db.rows = conn.rows /\ db.aside = conn.aside
      /\ db.private = conn.private /\ db.columns = conn.columns /\ db.fts = conn.fts
  BY <1>2 DEF Database
<1>4. db \in Database
  BY <1>2, <1>3 DEF Database, Shapes
<1>5. /\ conn.shape[t] = "absent" /\ conn.aside[t] # NoTable
      /\ had[t] \subseteq conn.aside[t]
  BY <1>1 DEF MemoryInv, StatementInv
<1>6. db.shape[t] = "new" /\ \A u \in Tables \ {t} : db.shape[u] = conn.shape[u]
  BY <1>2, <1>3 DEF Database
<1>7. Sound(db)
  <2> HIDE DEF db
  <2>1. \A i \in had[t] : SetAside(db, t, i)
    BY <1>3, <1>5 DEF SetAside
  <2>2. conn.rows[t] \subseteq had[t] /\ conn.aside[t] \subseteq had[t]
    BY <1>2, <1>5 DEF Sound
  <2> QED
    BY <1>2, <1>3, <1>6, <2>1, <2>2, TableMoved
<1>8. ~Established
  BY <1>1 DEF MemoryInv, SettledInv, Moving
<1>9. ~Established'
  BY <1>1, <1>8 DEF Established, historyVars, Indexed
<1>10. StatementInv'
  <2>1. conn'.shape["memories"] # "old"
    BY <1>1, <1>6, <1>5 DEF MemoryInv, StatementInv, Tables
  <2>2. had' = had
    BY DEF historyVars
  <2>3. conn'.shape[t] = "new" /\ conn'.aside[t] = conn.aside[t]
    BY <1>1, <1>3, <1>6
  <2> QED
    BY <1>1, <1>5, <2>1, <2>2, <2>3 DEF StatementInv, Moving, Indexed
<1> HIDE DEF db
<1> QED
  BY <1>1, <1>3, <1>4, <1>7, <1>8, <1>9, <1>10, DdlStep DEF Committed

LEMMA CopyStep ==
  ASSUME MemoryInv, NEW t \in Tables, CopyRows(t), UNCHANGED <<copyVars, historyVars>>
  PROVE  MemoryInv' /\ Keeps
<1> DEFINE db == [conn EXCEPT !.rows[t] = conn.aside[t]]
<1>1. /\ Place = "copy" /\ pc[2] = t /\ Place' = "drop" /\ pc'[2] = t
      /\ UNCHANGED StatementVars /\ Dml(db) /\ conn' = db
  BY DEF CopyRows, Place, StatementVars, Dml
<1>2. conn \in Database /\ Sound(conn)
  BY DEF MemoryInv, DatabaseInv, HadInv
<1>3. /\ db.rows = [conn.rows EXCEPT ![t] = conn.aside[t]]
      /\ db.shape = conn.shape /\ db.aside = conn.aside
      /\ db.private = conn.private /\ db.columns = conn.columns /\ db.fts = conn.fts
  BY <1>2 DEF Database
<1>4. /\ conn.shape[t] = "new" /\ conn.aside[t] # NoTable
      /\ had[t] \subseteq conn.aside[t]
  BY <1>1 DEF MemoryInv, StatementInv
<1>5. conn.aside[t] \subseteq Ids
  BY <1>2, <1>4 DEF Database
<1>6. db \in Database
  BY <1>2, <1>3, <1>5 DEF Database
<1>7. db.rows[t] = conn.aside[t] /\ \A u \in Tables \ {t} : db.rows[u] = conn.rows[u]
  BY <1>2, <1>3 DEF Database
<1>8. Sound(db)
  <2> HIDE DEF db
  <2>1. conn.aside[t] \subseteq had[t]
    BY <1>2, <1>4 DEF Sound
  <2> QED
    BY <1>2, <1>3, <1>4, <1>7, <2>1, TableMoved
<1>9. ~Established
  BY <1>1 DEF MemoryInv, SettledInv, Moving
<1>10. ~Established'
  BY <1>1, <1>9 DEF Established, historyVars, Indexed
<1>11. StatementInv'
  <2>1. conn'.shape["memories"] # "old"
    BY <1>1, <1>3 DEF MemoryInv, StatementInv
  <2>2. had' = had
    BY DEF historyVars
  <2>3. conn'.shape[t] = "new" /\ had[t] \subseteq conn'.rows[t]
    BY <1>1, <1>3, <1>4, <1>7
  <2> QED
    BY <1>1, <2>1, <2>2, <2>3 DEF StatementInv, Moving, Indexed
<1> HIDE DEF db
<1>12. Harmless
  BY <1>1, <1>3, <1>6, <1>9 DEF MemoryInv, Harmless, StatementVars, DatabaseInv, Dml, Committed
<1> QED
  BY <1>1, <1>8, <1>10, <1>11, <1>12, StatementStep DEF SettledInv

LEMMA DropStep ==
  ASSUME MemoryInv, NEW t \in Tables, DropOld(t), UNCHANGED <<copyVars, historyVars>>
  PROVE  MemoryInv' /\ Keeps
<1> DEFINE db == [conn EXCEPT !.aside[t] = NoTable]
<1>1. /\ Place = "drop" /\ pc[2] = t /\ pc' = Moved(t)
      /\ UNCHANGED StatementVars /\ Ddl(db) /\ conn' = db
  BY DEF DropOld, Place, StatementVars, Ddl
<1>2. /\ Place' \in {"rename", "columns"}
      /\ Place' = "rename" => pc'[2] = "tool_executions"
  BY <1>1, MovedPlace
<1>3. conn \in Database /\ Sound(conn)
  BY DEF MemoryInv, DatabaseInv, HadInv
<1>4. /\ db.aside = [conn.aside EXCEPT ![t] = NoTable]
      /\ db.shape = conn.shape /\ db.rows = conn.rows
      /\ db.private = conn.private /\ db.columns = conn.columns /\ db.fts = conn.fts
  BY <1>3 DEF Database
<1>5. conn.shape[t] = "new" /\ had[t] \subseteq conn.rows[t]
  BY <1>1 DEF MemoryInv, StatementInv
<1>6. db \in Database
  BY <1>3, <1>4 DEF Database
<1>7. db.aside[t] = NoTable /\ \A u \in Tables \ {t} : db.aside[u] = conn.aside[u]
  BY <1>3, <1>4 DEF Database
<1>8. Sound(db)
  <2> HIDE DEF db
  <2>1. conn.rows[t] \subseteq had[t]
    BY <1>3 DEF Sound
  <2> QED
    BY <1>3, <1>4, <1>5, <1>7, <2>1, TableMoved
<1>9. ~Established
  BY <1>1 DEF MemoryInv, SettledInv, Moving
<1>10. ~Established'
  BY <1>2, <1>9 DEF Established, historyVars, Indexed
<1>11. StatementInv'
  <2>1. conn'.shape["memories"] # "old"
    BY <1>1, <1>4 DEF MemoryInv, StatementInv
  <2> QED
    BY <1>2, <2>1 DEF StatementInv, Moving, Indexed
<1> HIDE DEF db
<1> QED
  BY <1>1, <1>2, <1>4, <1>6, <1>8, <1>9, <1>10, <1>11, DdlStep DEF Committed

(* A statement that leaves rows and owners alone.                            *)
LEMMA RowsKeptStep ==
  ASSUME MemoryInv, NEW db \in Database, Ddl(db) \/ Dml(db), UNCHANGED StatementVars,
         db.shape = conn.shape, db.rows = conn.rows, db.aside = conn.aside,
         db.private = conn.private,
         Place # "serving", Place' \notin Moving \cup Committed,
         Place' \in Indexed => Place = "fts", StatementInv'
  PROVE  MemoryInv' /\ Keeps
<1>1. conn' = db /\ disk' \in {disk, db} /\ inTx' \in BOOLEAN /\ (~inTx' => disk' = db)
  BY DEF Ddl, Dml, MemoryInv, DatabaseInv
<1>2. Harmless
  BY <1>1 DEF MemoryInv, Harmless, StatementVars, DatabaseInv, Committed
<1>3. Sound(db)
  <2>1. Sound(conn)
    BY DEF MemoryInv, HadInv
  <2>2. \A i : Overtaken(db, i) = Overtaken(conn, i)
    BY DEF Overtaken, SameSlot, Owner
  <2> QED
    BY <2>1, <2>2 DEF Sound, Held, SetAside, Owned, Whole
<1>4. Established' => Established
  BY DEF Established, StatementVars, historyVars, Committed
<1>5. SettledInv'
  BY <1>1, <1>2, <1>4, SettledStays
<1> QED
  BY <1>1, <1>2, <1>3, <1>5, StatementStep

LEMMA NotOld ==
  ASSUME MemoryInv, Place \notin {"down", "rename"}
  PROVE  conn.shape["memories"] # "old"
  BY DEF MemoryInv, StatementInv

LEMMA AddColumnStep ==
  ASSUME MemoryInv, AddColumn, UNCHANGED <<copyVars, historyVars>>
  PROVE  MemoryInv' /\ Keeps
<1>1. Place = "columns" /\ UNCHANGED StatementVars /\ conn.shape["memories"] # "old"
  BY NotOld DEF AddColumn, Place, StatementVars
<1>2. conn \in Database
  BY DEF MemoryInv, DatabaseInv
<1>3. CASE conn.columns < ColumnCount
  <2> DEFINE db == [conn EXCEPT !.columns = @ + 1]
  <2>1. Ddl(db) /\ Place' = "columns" /\ conn' = db
    BY <1>1, <1>3 DEF AddColumn, Ddl, Place
  <2>2. /\ db.shape = conn.shape /\ db.rows = conn.rows /\ db.aside = conn.aside
        /\ db.private = conn.private /\ db.fts = conn.fts /\ db.columns = conn.columns + 1
    BY <1>2 DEF Database
  <2>3. conn.columns + 1 \in 0..ColumnCount
    BY <1>2, <1>3, MigrationBounds DEF Database
  <2>4. db \in Database
    BY <1>2, <2>2, <2>3 DEF Database
  <2>5. StatementInv'
    BY <1>1, <2>1, <2>2 DEF StatementInv, Moving, Indexed
  <2> HIDE DEF db
  <2> QED
    BY <1>1, <2>1, <2>2, <2>4, <2>5, RowsKeptStep DEF Moving, Committed, Indexed
<1>4. CASE ~(conn.columns < ColumnCount)
  <2>1. Nothing /\ Place' = "events"
    BY <1>4 DEF AddColumn, Place
  <2>2. StatementInv'
    BY <1>1, <2>1 DEF StatementInv, Moving, Indexed, Nothing
  <2> QED
    BY <1>1, <2>1, <2>2, QuietStatement
    DEF Nothing, Moving, Committed, Indexed, MemoryInv, DatabaseInv
<1> QED
  BY <1>3, <1>4

LEMMA FillEventsStep ==
  ASSUME MemoryInv, FillEvents, UNCHANGED <<copyVars, historyVars>>
  PROVE  MemoryInv' /\ Keeps
<1>1. /\ Place = "events" /\ Place' = "private" /\ UNCHANGED StatementVars
      /\ conn.shape["memories"] # "old"
  BY NotOld DEF FillEvents, Place, StatementVars
<1>2. conn' = conn /\ disk' = disk /\ inTx' \in {inTx, TRUE}
  BY DEF FillEvents, Nothing, Dml
<1>3. StatementInv'
  BY <1>1, <1>2 DEF StatementInv, Moving, Indexed
<1> QED
  BY <1>1, <1>2, <1>3, QuietStatement DEF Moving, Committed, Indexed, MemoryInv, DatabaseInv

LEMMA MakePrivateStep ==
  ASSUME MemoryInv, MakePrivate, UNCHANGED <<copyVars, historyVars>>
  PROVE  MemoryInv' /\ Keeps
<1>1. /\ Place = "private" /\ Place' = "dedupe" /\ UNCHANGED StatementVars
      /\ conn.shape["memories"] # "old"
  BY NotOld DEF MakePrivate, Place, StatementVars
<1>2. conn \in Database /\ Sound(conn)
  BY DEF MemoryInv, DatabaseInv, HadInv
<1>3. CASE conn.shape["memories"] = "absent"
  <2>1. Nothing
    BY <1>3 DEF MakePrivate
  <2>2. Owned(conn)
    BY <1>2, <1>3 DEF Sound, Owned, Tables
  <2>3. StatementInv'
    BY <1>1, <2>1, <2>2 DEF StatementInv, Moving, Indexed, Nothing, Owned
  <2> QED
    BY <1>1, <2>1, <2>3, QuietStatement
    DEF Nothing, Moving, Committed, Indexed, MemoryInv, DatabaseInv
<1>4. CASE conn.shape["memories"] # "absent"
  <2> DEFINE written == {i \in conn.rows["memories"] : Actor[i] # NoActor}
             db == [conn EXCEPT !.private = @ \cup written]
  <2>1. Dml(db) /\ conn' = db
    BY <1>4 DEF MakePrivate, Dml
  <2>2. /\ db.shape = conn.shape /\ db.rows = conn.rows /\ db.aside = conn.aside
        /\ db.private = conn.private \cup written
        /\ db.fts = conn.fts /\ db.columns = conn.columns
    BY <1>2 DEF Database
  <2>3. written \subseteq {i \in Ids : Actor[i] # NoActor}
    BY <1>2 DEF Database, Tables
  <2>4. db \in Database
    BY <1>2, <2>2, <2>3 DEF Database
  <2>5. Owned(db)
    BY <2>2 DEF Owned
  <2>6. Owned(conn) => db.private = conn.private
    BY <2>2 DEF Owned
  <2> HIDE DEF db, written
  <2>7. Sound(db)
    <3>1. CASE Owned(conn)
      <4>1. \A i : Overtaken(db, i) = Overtaken(conn, i)
        BY <2>2, <2>6, <3>1 DEF Overtaken, SameSlot, Owner
      <4> QED
        BY <1>2, <2>2, <2>5, <4>1 DEF Sound, Held, SetAside
    <3>2. CASE Whole(conn)
      <4>1. ASSUME NEW t \in Tables, NEW i \in had[t] PROVE Held(db, t, i)
        <5>1. t = "memories" => i \in conn.rows[t] \/ SetAside(conn, t, i)
          BY <3>2 DEF Whole
        <5>2. Held(conn, t, i)
          BY <1>2 DEF Sound
        <5> QED
          BY <2>2, <5>1, <5>2 DEF Held, SetAside
      <4> QED
        BY <1>2, <2>2, <2>5, <4>1 DEF Sound
    <3> QED
      BY <1>2, <3>1, <3>2 DEF Sound
  <2>8. Established => conn'.private = conn.private
    BY <2>1, <2>6 DEF MemoryInv, SettledInv, Settled
  <2>9. Harmless
    BY <1>1, <2>1, <2>2, <2>4, <2>8
    DEF MemoryInv, Harmless, StatementVars, DatabaseInv, Dml, Committed
  <2>10. Established' => Established
    BY <1>1 DEF Established, historyVars, Indexed
  <2>11. SettledInv'
    BY <1>1, <2>1, <2>2, <2>9, <2>10, SettledStays DEF Moving
  <2>12. StatementInv'
    BY <1>1, <2>1, <2>2, <2>5 DEF StatementInv, Moving, Indexed, Owned
  <2> QED
    BY <2>1, <2>7, <2>9, <2>11, <2>12, StatementStep
<1> QED
  BY <1>3, <1>4

LEMMA DedupeStep ==
  ASSUME MemoryInv, Dedupe, UNCHANGED <<copyVars, historyVars>>
  PROVE  MemoryInv' /\ Keeps
<1>1. /\ Place = "dedupe" /\ Place' = "commit" /\ UNCHANGED StatementVars
      /\ conn.shape["memories"] # "old"
  BY NotOld DEF Dedupe, Place, StatementVars
<1>2. conn \in Database /\ Sound(conn) /\ Owned(conn)
  BY <1>1 DEF MemoryInv, DatabaseInv, HadInv, StatementInv
<1>3. CASE conn.shape["memories"] = "absent"
  <2>1. Nothing
    BY <1>3 DEF Dedupe
  <2>2. StatementInv'
    BY <1>1, <1>2, <2>1 DEF StatementInv, Moving, Indexed, Nothing, Owned
  <2> QED
    BY <1>1, <2>1, <2>2, QuietStatement
    DEF Nothing, Moving, Committed, Indexed, MemoryInv, DatabaseInv
<1>4. CASE conn.shape["memories"] # "absent"
  <2> DEFINE db == [conn EXCEPT !.rows["memories"] = @ \ Superseded(conn)]
  <2>1. Dml(db) /\ conn' = db
    BY <1>4 DEF Dedupe, Dml
  <2>2. /\ db.rows = [conn.rows EXCEPT !["memories"] = @ \ Superseded(conn)]
        /\ db.shape = conn.shape /\ db.aside = conn.aside /\ db.private = conn.private
        /\ db.fts = conn.fts /\ db.columns = conn.columns
    BY <1>2 DEF Database
  <2>3. /\ db.rows["memories"] = conn.rows["memories"] \ Superseded(conn)
        /\ \A t \in Tables \ {"memories"} : db.rows[t] = conn.rows[t]
    BY <1>2, <2>2 DEF Database, Tables
  <2>4. db \in Database
    BY <1>2, <2>2 DEF Database, Tables
  <2>5. Owned(db)
    BY <1>2, <2>2, <2>3 DEF Owned
  <2> HIDE DEF db
  <2>6. ASSUME NEW i \in conn.rows["memories"]
        PROVE  \E j \in db.rows["memories"] : SameSlot(db, i, j) /\ Age[j] >= Age[i]
    <3>1. conn.rows["memories"] \subseteq had["memories"] /\ IsFiniteSet(had["memories"])
      BY <1>2 DEF MemoryInv, HadInv, Sound, Tables
    <3>2. IsFiniteSet(conn.rows["memories"])
      BY <3>1, FS_Subset
    <3>3. conn.rows["memories"] \subseteq Ids
      BY <1>2 DEF Database, Tables
    <3>4. PICK j \in conn.rows["memories"] \ Superseded(conn) :
            SameSlot(conn, i, j) /\ Age[j] >= Age[i]
      BY <3>2, <3>3, NewestExists
    <3> QED
      BY <2>2, <2>3, <3>4 DEF SameSlot, Owner
  <2>7. ASSUME NEW i \in Ids, i \in conn.rows["memories"] \/ Overtaken(conn, i)
        PROVE  i \in db.rows["memories"] \/ Overtaken(db, i)
    <3>1. conn.rows["memories"] \subseteq Ids /\ db.rows["memories"] \subseteq Ids
      BY <1>2, <2>4 DEF Database, Tables
    <3>2. PICK k \in Ids : SameSlot(conn, i, k) /\ k \in conn.rows["memories"]
                           /\ (k = i \/ Age[k] > Age[i])
      BY <2>7, <3>1 DEF Overtaken, SameSlot
    <3>3. PICK j \in db.rows["memories"] : SameSlot(db, k, j) /\ Age[j] >= Age[k]
      BY <2>6, <3>2
    <3>4. Age[i] \in Nat /\ Age[j] \in Nat /\ Age[k] \in Nat /\ j \in Ids
      BY <3>1, RowAssumption
    <3>5. SameSlot(db, i, j)
      BY <2>2, <3>2, <3>3 DEF SameSlot, Owner
    <3>6. j = i \/ Age[j] > Age[i]
      BY <3>2, <3>3, <3>4, RowAssumption
    <3> QED
      BY <3>5, <3>6 DEF Overtaken
  <2>8. Sound(db)
    <3>1. ASSUME NEW t \in Tables, NEW i \in had[t] PROVE Held(db, t, i)
      <4>1. Held(conn, t, i) /\ i \in Ids
        BY <1>2 DEF Sound, MemoryInv, HadInv
      <4> QED
        BY <2>2, <2>3, <2>7, <4>1 DEF Held, SetAside
    <3>2. \A t \in Tables : db.rows[t] \subseteq conn.rows[t]
                            /\ (db.shape[t] = "old" => db.rows[t] = conn.rows[t])
      BY <1>1, <2>2, <2>3
    <3> QED
      BY <1>2, <2>2, <2>5, <3>1, <3>2 DEF Sound
  <2>9. Established => db.rows = conn.rows
    <3>1. Established => Superseded(conn) = {}
      BY DEF MemoryInv, SettledInv, Settled
    <3> QED
      BY <1>2, <2>2, <3>1 DEF Database, Tables
  <2>10. Harmless
    BY <1>1, <2>1, <2>2, <2>4, <2>9
    DEF MemoryInv, Harmless, StatementVars, DatabaseInv, Dml, Committed
  <2>11. Established' => Established
    BY <1>1 DEF Established, historyVars, Indexed
  <2>12. SettledInv'
    BY <1>1, <2>1, <2>2, <2>10, <2>11, SettledStays DEF Moving
  <2>13. StatementInv'
    BY <1>1, <2>1, <2>2, <2>5 DEF StatementInv, Moving, Indexed, Owned
  <2> QED
    BY <2>1, <2>8, <2>10, <2>12, <2>13, StatementStep
<1> QED
  BY <1>3, <1>4

LEMMA CommitMigrationStep ==
  ASSUME MemoryInv, CommitMigration, UNCHANGED <<copyVars, historyVars>>
  PROVE  MemoryInv' /\ Keeps
<1>1. Place = "commit" /\ Place' = "script" /\ UNCHANGED StatementVars
      /\ conn.shape["memories"] # "old"
  BY NotOld DEF CommitMigration, Place, StatementVars
<1>2. conn' = conn /\ disk' = conn /\ inTx' = FALSE
  BY DEF CommitMigration, Commit
<1>3. Owned(conn)
  BY <1>1 DEF MemoryInv, StatementInv
<1>4. StatementInv'
  BY <1>1, <1>2, <1>3 DEF StatementInv, Moving, Indexed, Owned
<1> QED
  BY <1>1, <1>2, <1>4, QuietStatement DEF Moving, Committed, Indexed

LEMMA RunScriptStep ==
  ASSUME MemoryInv, RunScript, UNCHANGED <<copyVars, historyVars>>
  PROVE  MemoryInv' /\ Keeps
<1>1. Place = "script" /\ UNCHANGED StatementVars /\ conn.shape["memories"] # "old"
  BY NotOld DEF RunScript, Place, StatementVars
<1>2. conn \in Database /\ Sound(conn) /\ Owned(conn)
  BY <1>1 DEF MemoryInv, DatabaseInv, HadInv, StatementInv
<1>3. ~inTx /\ disk = conn
  BY <1>1 DEF MemoryInv, DatabaseInv, Committed
<1>4. CASE Superseded(conn) # {}
  <2>1. Nothing /\ Place' = "down"
    BY <1>4 DEF RunScript, Place
  <2>2. StatementInv'
    BY <1>1, <2>1 DEF StatementInv, Moving, Indexed, Nothing
  <2> QED
    BY <1>1, <1>3, <2>1, <2>2, QuietStatement
    DEF Nothing, Moving, Committed, Indexed, MemoryInv, DatabaseInv
<1>5. CASE Superseded(conn) = {}
  <2> DEFINE db == [conn EXCEPT !.shape = [t \in Tables |-> "new"]]
  <2>1. conn' = db /\ disk' = db /\ inTx' = inTx /\ Place' = "fts"
    BY <1>3, <1>5 DEF RunScript, Ddl, Place
  <2>2. /\ db.shape = [t \in Tables |-> "new"] /\ db.rows = conn.rows
        /\ db.aside = conn.aside /\ db.private = conn.private
        /\ db.fts = conn.fts /\ db.columns = conn.columns
    BY <1>2 DEF Database
  <2>3. db \in Database
    BY <1>2, <2>2 DEF Database, Shapes
  <2>4. \A t \in Tables : db.shape[t] = "new"
    BY <2>2
  <2> HIDE DEF db
  <2>5. Sound(db)
    <3>1. \A i : Overtaken(db, i) = Overtaken(conn, i)
      BY <2>2 DEF Overtaken, SameSlot, Owner
    <3> QED
      BY <1>2, <2>2, <2>4, <3>1 DEF Sound, Held, SetAside, Owned, Whole
  <2>6. Settled(db)
    BY <1>2, <1>5, <2>2, <2>4 DEF Settled, Superseded, SameSlot, Owner, Owned
  <2>7. Harmless
    BY <1>1, <1>3, <2>1, <2>2, <2>3
    DEF MemoryInv, Harmless, StatementVars, DatabaseInv, Committed
  <2>8. SettledInv'
    <3>1. Settled(disk') /\ Settled(conn')
      BY <2>1, <2>6
    <3>2. Settled(disk)' /\ Settled(conn)'
      BY <3>1
    <3> QED
      BY <2>1, <3>2 DEF SettledInv, Moving
  <2>9. StatementInv'
    BY <2>1, <2>4 DEF StatementInv, Moving, Indexed, Tables
  <2> QED
    BY <2>1, <2>5, <2>7, <2>8, <2>9, StatementStep
<1> QED
  BY <1>4, <1>5

LEMMA RebuildFtsStep ==
  ASSUME MemoryInv, RebuildFts, UNCHANGED <<copyVars, historyVars>>
  PROVE  MemoryInv' /\ Keeps
<1> DEFINE db == [conn EXCEPT !.fts = conn.rows["memories"]]
<1>1. /\ Place = "fts" /\ Place' = "agents" /\ UNCHANGED StatementVars
      /\ conn.shape["memories"] # "old" /\ Dml(db) /\ conn' = db
  BY NotOld DEF RebuildFts, Place, StatementVars, Dml
<1>2. conn \in Database
  BY DEF MemoryInv, DatabaseInv
<1>3. /\ db.shape = conn.shape /\ db.rows = conn.rows /\ db.aside = conn.aside
      /\ db.private = conn.private /\ db.columns = conn.columns
      /\ db.fts = conn.rows["memories"]
  BY <1>2 DEF Database
<1>4. db \in Database
  BY <1>2, <1>3 DEF Database, Tables
<1>5. StatementInv'
  BY <1>1, <1>3 DEF StatementInv, Moving, Indexed
<1> HIDE DEF db
<1> QED
  BY <1>1, <1>3, <1>4, <1>5, RowsKeptStep DEF Moving, Committed

LEMMA InsertAgentsStep ==
  ASSUME MemoryInv, InsertAgents, UNCHANGED <<copyVars, historyVars>>
  PROVE  MemoryInv' /\ Keeps
<1>1. Place = "agents" /\ Place' = "ready" /\ UNCHANGED StatementVars
      /\ conn.shape["memories"] # "old"
  BY NotOld DEF InsertAgents, Place, StatementVars
<1>2. conn' = conn /\ disk' = conn /\ inTx' = FALSE
  BY DEF InsertAgents, Commit
<1>3. conn.fts = conn.rows["memories"]
  BY <1>1 DEF MemoryInv, StatementInv, Indexed
<1>4. StatementInv'
  BY <1>1, <1>2, <1>3 DEF StatementInv, Moving
<1> QED
  BY <1>1, <1>2, <1>4, QuietStatement DEF Moving, Committed, Indexed

LEMMA StartStep ==
  ASSUME MemoryInv, Start
  PROVE  MemoryInv' /\ Keeps
  BY ConnectStep, RenameStep, CreateStep, CopyStep, DropStep, AddColumnStep, FillEventsStep,
     MakePrivateStep, DedupeStep, CommitMigrationStep, RunScriptStep, RebuildFtsStep,
     InsertAgentsStep
  DEF Start, Statement

-----------------------------------------------------------------------------
(* The first start of this version.                                          *)
LEMMA MemoryInit == Init => MemoryInv
<1> SUFFICES ASSUME Init PROVE MemoryInv
  OBVIOUS
<1> USE DEF Init
<1>1. PICK v \in Versions :
        disk = [shape   |-> v,
                rows    |-> [t \in Tables |-> IF v[t] = "absent" THEN {} ELSE Old[t]],
                aside   |-> [t \in Tables |-> NoTable],
                private |-> {},
                columns |-> IF v["memories"] = "absent" THEN ColumnCount ELSE 0,
                fts     |-> {}]
  BY DEF StartInit
<1>2. v \in [Tables -> Shapes]
  BY DEF Versions, Tables
<1>3. \A t \in Tables : Old[t] \subseteq Ids
  BY RowAssumption DEF Old, Tables
<1>4. /\ conn = disk /\ inTx = FALSE /\ Place = "down" /\ crashes = 0
      /\ had = disk.rows
  BY DEF StartInit, Place
<1>5. /\ disk.shape = v /\ disk.private = {} /\ disk.fts = {}
      /\ disk.columns \in 0..ColumnCount
      /\ disk.rows \in [Tables -> SUBSET Ids]
      /\ disk.aside = [t \in Tables |-> NoTable]
  BY <1>1, <1>3, MigrationBounds
<1>6. disk \in Database
  BY <1>1, <1>2, <1>5 DEF Database
<1>7. DatabaseInv
  <2>1. 0 \in 0..MaxCrashes
    BY MigrationBounds
  <2> QED
    BY <1>4, <1>6, <2>1 DEF DatabaseInv, Committed
<1>8. HadInv
  <2>1. had["memories"] \subseteq OldMemories
    BY <1>1, <1>4 DEF Old, Tables
  <2>2. IsFiniteSet(had["memories"])
    BY <2>1, RowAssumption, FS_Subset
  <2>3. \A t \in Tables : disk.shape[t] = "absent" => disk.rows[t] = {}
    BY <1>1
  <2>4. Sound(disk)
    BY <1>4, <1>5, <2>3 DEF Sound, Held, Whole
  <2> QED
    BY <1>4, <1>5, <2>2, <2>4 DEF HadInv
<1>9. StatementInv
  BY <1>4 DEF StatementInv, Moving, Indexed
<1>10. SettledInv
  BY <1>4 DEF SettledInv, Established, Indexed
<1>11. WriterInv
  BY DEF WriterInv, IsWriter, HasRow, HasPage, NotWriting
<1>12. ToldInv
  <2>1. 0 \in Values /\ value = [i \in Ids |-> 0] /\ confirmed = [i \in Ids |-> 0]
        /\ writes = 0 /\ served = FALSE
    BY MemoryAssumption DEF Values
  <2> QED
    <3>1. \A i \in Ids : value[i] = 0 /\ confirmed[i] = 0
      BY <2>1
    <3>2. value \in [Ids -> Values] /\ confirmed \in [Ids -> Values]
      BY <2>1
    <3>3. \A i \in Ids : /\ value[i] <= writes /\ confirmed[i] <= value[i]
                          /\ ~(confirmed[i] > 0)
      BY <2>1, <3>1
    <3>4. served \in BOOLEAN /\ Place # "serving" /\ writes \in Values
      BY <1>4, <2>1
    <3> QED
      BY <3>2, <3>3, <3>4 DEF ToldInv
<1>13. FilesInv
  <2>1. \A o : Content(o) \subseteq Ids \X Values
    BY <1>4, <1>5, MemoryAssumption DEF Content, Rows, Values, Tables
  <2> QED
    BY <2>1 DEF FilesInv
<1>14. VectorsInv
  <2>1. Rows \subseteq Ids /\ staleVectors = Ids
    BY <1>4, <1>5 DEF Rows, Tables
  <2>2. PICK embedded \in {{}, Rows} :
          index = [i \in Ids |-> IF i \in embedded THEN [value |-> 0, part |-> Shared]
                                                   ELSE NoVector]
    OBVIOUS
  <2>3. [value |-> 0, part |-> Shared] \in [value : Values, part : Owners]
    BY MemoryAssumption DEF Values, Owners
  <2>4. ASSUME NEW i \in Ids
        PROVE  index[i] = NoVector \/ index[i] \in [value : Values, part : Owners]
    BY <2>2, <2>3
  <2>5. index = [i \in Ids |-> index[i]]
    BY <2>2
  <2> QED
    BY <2>1, <2>4, <2>5 DEF VectorsInv
<1>15. PartitionInv
  BY <1>4, <1>5 DEF PartitionInv, Owner
<1> QED
  BY <1>7, <1>8, <1>9, <1>10, <1>11, <1>12, <1>13, <1>14, <1>15 DEF MemoryInv

-----------------------------------------------------------------------------
(* The copies are brought up to date, and written.                           *)
LEMMA ContentTyped ==
  ASSUME MemoryInv, NEW o
  PROVE  Content(o) \subseteq Ids \X Values
<1>1. Rows \subseteq Ids
  BY FieldsOf DEF MemoryInv, DatabaseInv, Rows, Tables
<1>2. value \in [Ids -> Values]
  BY DEF MemoryInv, ToldInv
<1> QED
  BY <1>1, <1>2 DEF Content

LEMMA OwnersTyped ==
  ASSUME MemoryInv, NEW i \in Ids
  PROVE  Owner(conn, i) \in Owners
<1>1. conn.private \subseteq {j \in Ids : Actor[j] # NoActor}
  BY FieldsOf DEF MemoryInv, DatabaseInv
<1> QED
  BY <1>1, RowAssumption DEF Owner, Owners

(* A step of a start's end, or of a handler, that writes no row.             *)
LEMMA SameDatabase ==
  ASSUME MemoryInv, UNCHANGED <<disk, conn, inTx, crashes, had>>,
         Place \in {"ready", "backfill", "serving"}, Place' \in {"backfill", "serving"},
         Place' = "serving" => pc' = <<"serving">>
  PROVE  /\ DatabaseInv' /\ HadInv' /\ StatementInv' /\ SettledInv'
         /\ disk = conn /\ Established
<1> USE DEF MemoryInv
<1>1. DatabaseInv' /\ disk = conn
  BY DEF DatabaseInv, Committed
<1>2. HadInv'
  BY DEF HadInv, Sound, Whole, Held
<1>3. Established /\ conn.shape["memories"] = "new"
  BY DEF Established, Indexed, SettledInv, Settled, Tables
<1>4. StatementInv'
  BY <1>3 DEF StatementInv, Moving, Indexed
<1>5. SettledInv'
  BY <1>3 DEF SettledInv, Settled, Owned, Moving
<1> QED
  BY <1>1, <1>2, <1>3, <1>4, <1>5

LEMMA AllIdle ==
  ASSUME MemoryInv, Place # "serving"
  PROVE  \A h \in Handlers : writer[h].at = "idle" /\ writer[h].row = NoRow
  BY DEF MemoryInv, WriterInv, HasRow

LEMMA SyncAllStep ==
  ASSUME MemoryInv, SyncAll
  PROVE  MemoryInv'
<1>1. Place = "ready" /\ Place' = "backfill"
  BY DEF SyncAll, Place
<1>2. UNCHANGED <<disk, conn, inTx, crashes, value, writes, index, writer, had,
                  staleVectors, confirmed, served>>
  BY DEF SyncAll
<1>3. /\ DatabaseInv' /\ HadInv' /\ StatementInv' /\ SettledInv'
      /\ disk = conn /\ Established
  BY <1>1, <1>2, SameDatabase
<1>4. \A h \in Handlers : writer[h].at = "idle" /\ writer[h].row = NoRow
  BY <1>1, AllIdle
<1>5. \A o : Content(o)' = Content(o)
  BY <1>2, SameContent
<1>6. WriterInv'
  BY <1>2, <1>4, IdleWriters DEF MemoryInv
<1>7. ToldInv'
  BY <1>1, <1>2 DEF MemoryInv, ToldInv
<1>8. FilesInv'
  <2>1. PICK done \in SUBSET {Owner(conn, i) : i \in Rows} :
          /\ mirror' = [o \in Owners |-> IF o \in done THEN Content(o) ELSE mirror[o]]
          /\ staleFiles' = staleFiles \ done
    BY DEF SyncAll
  <2>2. \A o : Content(o) \subseteq Ids \X Values
    BY ContentTyped
  <2>3. mirror' \in [Owners -> SUBSET (Ids \X Values)] /\ staleFiles' \subseteq Owners
    BY <2>1, <2>2 DEF MemoryInv, FilesInv
  <2>4. ASSUME NEW o \in Owners \ staleFiles'
        PROVE  mirror'[o] = Content(o)
    BY <1>4, <2>1, <2>4 DEF MemoryInv, FilesInv
  <2> QED
    BY <1>5, <2>3, <2>4 DEF FilesInv
<1>9. VectorsInv'
  BY <1>2, <1>4 DEF MemoryInv, VectorsInv, Rows, Current
<1>10. PartitionInv'
  BY <1>2 DEF MemoryInv, PartitionInv
<1> QED
  BY <1>3, <1>6, <1>7, <1>8, <1>9, <1>10 DEF MemoryInv

LEMMA BackfillStep ==
  ASSUME MemoryInv, Backfill
  PROVE  MemoryInv'
<1>1. Place = "backfill" /\ Place' = "serving" /\ pc' = <<"serving">>
  BY DEF Backfill, Place
<1>2. UNCHANGED <<disk, conn, inTx, crashes, value, writes, mirror, writer, had,
                  staleFiles, confirmed>> /\ served' = TRUE
  BY DEF Backfill
<1>3. /\ DatabaseInv' /\ HadInv' /\ StatementInv' /\ SettledInv'
      /\ disk = conn /\ Established
  BY <1>1, <1>2, SameDatabase
<1>4. \A h \in Handlers : writer[h].at = "idle" /\ writer[h].row = NoRow
  BY <1>1, AllIdle
<1>5. \A o : Content(o)' = Content(o)
  BY <1>2, SameContent
<1>6. WriterInv'
  BY <1>2, <1>4, IdleWriters DEF MemoryInv
<1>7. ToldInv'
  BY <1>1, <1>2 DEF MemoryInv, ToldInv
<1>8. FilesInv'
  BY <1>2, <1>4, <1>5 DEF MemoryInv, FilesInv
<1>9. PICK done \in SUBSET {i \in Newest(BackfillLimit) : ~Current(i)} :
        /\ index' = [i \in Ids |-> IF i \in done
                                     THEN [value |-> value[i], part |-> Owner(conn, i)]
                                     ELSE index[i]]
        /\ staleVectors' = staleVectors \ done
  BY DEF Backfill
<1>10. ASSUME NEW i \in done
       PROVE  /\ i \in Ids /\ index'[i].value = value[i] /\ index'[i].part = Owner(conn, i)
              /\ index'[i] \in [value : Values, part : Owners]
              /\ index'[i] # NoVector
  <2>1. i \in Ids
    BY <1>10, FieldsOf DEF MemoryInv, DatabaseInv, Newest, Rows, Tables
  <2>2. value[i] \in Values /\ Owner(conn, i) \in Owners
    BY <2>1, OwnersTyped DEF MemoryInv, ToldInv
  <2>3. [value |-> value[i], part |-> Owner(conn, i)] \in [value : Nat, part : Users \cup {Shared}]
    BY <2>2 DEF Values, Owners
  <2> QED
    BY <1>9, <2>1, <2>2, <2>3, MemoryAssumption
<1>11. \A i \in Ids \ done : index'[i] = index[i]
  BY <1>9
<1>12. VectorsInv'
  <2>1. index' = [i \in Ids |-> index'[i]]
    BY <1>9
  <2>2. ASSUME NEW i \in Ids
        PROVE  index'[i] = NoVector \/ index'[i] \in [value : Values, part : Owners]
    BY <1>10, <1>11 DEF MemoryInv, VectorsInv
  <2>3. ASSUME NEW i \in Rows \ staleVectors' PROVE Current(i)'
    <3>1. CASE i \in done
      BY <1>2, <1>10, <3>1 DEF Current
    <3>2. CASE i \notin done
      <4>1. i \in Ids
        BY FieldsOf DEF MemoryInv, DatabaseInv, Rows, Tables
      <4>2. Current(i)
        BY <1>4, <1>9, <3>2 DEF MemoryInv, VectorsInv
      <4> QED
        BY <1>2, <1>11, <3>2, <4>1, <4>2 DEF Current
    <3> QED
      BY <3>1, <3>2
  <2>4. staleVectors' \subseteq Ids /\ Rows' = Rows
    BY <1>2, <1>9 DEF MemoryInv, VectorsInv, Rows
  <2> QED
    BY <2>1, <2>2, <2>3, <2>4 DEF VectorsInv
<1>13. PartitionInv'
  <2> SUFFICES ASSUME NEW i \in Ids, index'[i] # NoVector
               PROVE  /\ index'[i].part \in {Shared, Owner(disk, i)}
                      /\ index'[i].part \in {Shared, Owner(conn, i)}
    BY <1>2 DEF PartitionInv
  <2>1. CASE i \in done
    BY <1>3, <1>10, <2>1
  <2>2. CASE i \notin done
    BY <1>11, <2>2 DEF MemoryInv, PartitionInv
  <2> QED
    BY <2>1, <2>2
<1> QED
  BY <1>3, <1>6, <1>7, <1>8, <1>12, <1>13 DEF MemoryInv

-----------------------------------------------------------------------------
(* A handler's step, while the others wait for the lock.                     *)
Alone(h) ==
  /\ Place = "serving"
  /\ \A g \in Handlers \ {h} : writer[g].at = "idle" /\ writer[g].row = NoRow

LEMMA HandlerAlone ==
  ASSUME MemoryInv, NEW h \in Handlers, ~At(h, "idle")
  PROVE  /\ Alone(h)
         /\ writer[h].at = "item" => writer[h].row = NoRow
         /\ writer[h].at \in {"scope", "file", "vector", "told"} =>
              /\ writer[h].row \in Rows /\ writer[h].row \in Ids
              /\ writer[h].value = value[writer[h].row]
<1>1. Rows \subseteq Ids
  BY FieldsOf DEF MemoryInv, DatabaseInv, Rows, Tables
<1> QED
  BY <1>1 DEF MemoryInv, WriterInv, HasRow, Alone, At

LEMMA BetweenItems ==
  ASSUME NEW at, NEW n, NEW w,
         w = [at |-> at, row |-> NoRow, value |-> 0, page |-> {}, left |-> n]
  PROVE  IsWriter(w) /\ w.at = at /\ w.row = NoRow
  BY DEF IsWriter

LEMMA WriterMoves ==
  ASSUME MemoryInv, NEW h \in Handlers, Alone(h), NEW w, Move(h, w), Place' = "serving",
         IsWriter(w), w.at \in {"idle", "item"} => w.row = NoRow,
         w.at \notin {"idle", "item"} =>
           /\ w.at \in {"scope", "file", "vector", "told"}
           /\ w.row \in Rows' /\ w.value = value'[w.row],
         HasPage(w), w.at = "file" => UNCHANGED <<conn, value>>
  PROVE  /\ WriterInv' /\ writer'[h] = w
         /\ \A g \in Handlers \ {h} : writer'[g] = writer[g]
<1>1. writer = [g \in Handlers |-> writer[g]]
  BY DEF MemoryInv, WriterInv
<1>2. writer'[h] = w /\ \A g \in Handlers \ {h} : writer'[g] = writer[g]
  BY <1>1 DEF Move
<1>3. writer' = [g \in Handlers |-> writer'[g]]
  BY <1>1 DEF Move
<1>4. \A g \in Handlers \ {h} : IsWriter(writer[g])
  BY DEF MemoryInv, WriterInv
<1>5. \A g \in Handlers : IsWriter(writer[g])'
  <2>1. IsWriter(writer'[h])
    BY <1>2
  <2>2. \A g \in Handlers : IsWriter(writer'[g])
    BY <1>2, <1>4, <2>1
  <2> QED
    BY <2>2 DEF IsWriter
<1>6. \A g \in Handlers : HasRow(writer[g])'
  <2>1. HasRow(writer[h])'
    BY <1>2 DEF HasRow
  <2>2. \A g \in Handlers \ {h} : HasRow(writer[g])'
    BY <1>2 DEF HasRow, Alone
  <2> QED
    BY <2>1, <2>2
<1>7. \A g \in Handlers : HasPage(writer[g])'
  <2>1. \A g \in Handlers \ {h} : HasPage(writer[g])'
    BY <1>2 DEF HasPage, Alone
  <2>2. w.at = "file" => w.page = Content(Owner(conn, w.row))
    BY DEF HasPage
  <2>3. CASE w.at = "file"
    <3>1. \A o : Content(o)' = Content(o)
      BY <2>3 DEF Content, Rows, Owner
    <3>2. Owner(conn, writer[h].row)' = Owner(conn, w.row)
      BY <1>2, <2>3 DEF Owner
    <3> QED
      BY <1>2, <2>1, <2>2, <2>3, <3>1, <3>2 DEF HasPage
  <2>4. CASE w.at # "file"
    BY <1>2, <2>1, <2>4 DEF HasPage
  <2> QED
    BY <2>3, <2>4
<1>8. \A g \in Handlers : writer'[g].at # "idle" =>
        Place' = "serving" /\ \A f \in Handlers \ {g} : writer'[f].at = "idle"
  BY <1>2 DEF Alone
<1> QED
  BY <1>2, <1>3, <1>5, <1>6, <1>7, <1>8 DEF WriterInv

(* A step of the handler that changes neither rows nor files nor vectors.    *)
Same == UNCHANGED <<startVars, value, writes, had, served>>

LEMMA SameWrites ==
  ASSUME MemoryInv, Same, Place = "serving"
  PROVE  /\ DatabaseInv' /\ HadInv' /\ StatementInv' /\ SettledInv'
         /\ disk = conn /\ Place' = "serving"
         /\ Rows' = Rows /\ \A i : Owner(conn, i)' = Owner(conn, i)
         /\ \A o : Content(o)' = Content(o)
<1>1. UNCHANGED <<disk, conn, inTx, crashes, had, pc, value>>
  BY DEF Same, startVars
<1>2. Place' = "serving"
  BY <1>1 DEF Place
<1>3. \A o : Content(o)' = Content(o)
  BY <1>1, SameContent
<1>4. Rows' = Rows /\ \A i : Owner(conn, i)' = Owner(conn, i)
  BY <1>1 DEF Rows, Owner
<1>5. pc = <<"serving">>
  BY DEF MemoryInv, StatementInv
<1> QED
  BY <1>1, <1>2, <1>3, <1>4, <1>5, SameDatabase

LEMMA FilesStay ==
  ASSUME MemoryInv, Same, UNCHANGED <<mirror, staleFiles>>, NEW h \in Handlers, Alone(h),
         \A g \in Handlers \ {h} : writer'[g] = writer[g],
         writer[h].at \in {"scope", "file"} =>
           writer'[h].at \in {"scope", "file"} /\ writer'[h].row = writer[h].row
  PROVE  FilesInv'
<1>1. /\ \A i : Owner(conn, i)' = Owner(conn, i)
      /\ \A o : Content(o)' = Content(o)
  BY SameWrites DEF Alone
<1>2. ASSUME NEW o \in Owners \ staleFiles,
             \A g \in Handlers : writer'[g].at \in {"scope", "file"} => WrittenOwner(g)' # o
      PROVE  mirror[o] = Content(o)
  <2>1. \A g \in Handlers : writer[g].at \in {"scope", "file"} => WrittenOwner(g) # o
    BY <1>1, <1>2 DEF Alone, WrittenOwner
  <2> QED
    BY <2>1 DEF MemoryInv, FilesInv
<1> QED
  BY <1>1, <1>2 DEF MemoryInv, FilesInv

LEMMA VectorsStay ==
  ASSUME MemoryInv, Same, UNCHANGED <<index, staleVectors>>, NEW h \in Handlers, Alone(h),
         \A g \in Handlers \ {h} : writer'[g] = writer[g],
         writer[h].at \in {"scope", "file", "vector"} =>
           writer'[h].at \in {"scope", "file", "vector"} /\ writer'[h].row = writer[h].row
  PROVE  VectorsInv' /\ PartitionInv'
<1>1. Rows' = Rows /\ UNCHANGED <<disk, conn, value>>
  BY SameWrites DEF Alone, Same, startVars
<1>2. ASSUME NEW i \in Rows \ staleVectors,
             \A g \in Handlers : writer'[g].at \in {"scope", "file", "vector"} => writer'[g].row # i
      PROVE  Current(i)
  <2>1. \A g \in Handlers : writer[g].at \in {"scope", "file", "vector"} => writer[g].row # i
    BY <1>2 DEF Alone
  <2> QED
    BY <2>1 DEF MemoryInv, VectorsInv
<1>3. VectorsInv'
  BY <1>1, <1>2 DEF MemoryInv, VectorsInv, Current
<1> QED
  BY <1>1, <1>3 DEF MemoryInv, PartitionInv

LEMMA ToldStays ==
  ASSUME MemoryInv, Same, UNCHANGED confirmed, Place = "serving"
  PROVE  ToldInv'
  BY SameWrites DEF MemoryInv, ToldInv, Same, startVars

(* A step that only moves the handler on.                                    *)
LEMMA OnlyMove ==
  ASSUME MemoryInv, Same, UNCHANGED <<mirror, staleFiles, index, staleVectors, confirmed>>,
         NEW h \in Handlers, Alone(h), NEW w, Move(h, w), IsWriter(w), HasRow(w), HasPage(w),
         writer[h].at \in {"scope", "file", "vector"} =>
           w.at \in {"scope", "file", "vector"} /\ w.row = writer[h].row,
         writer[h].at \in {"scope", "file"} => w.at \in {"scope", "file"}
  PROVE  MemoryInv'
<1>1. /\ DatabaseInv' /\ HadInv' /\ StatementInv' /\ SettledInv' /\ Place' = "serving"
  BY SameWrites DEF Alone
<1>2. /\ WriterInv' /\ writer'[h] = w
      /\ \A g \in Handlers \ {h} : writer'[g] = writer[g]
  BY <1>1, WriterMoves DEF HasRow, Same, startVars, Rows
<1>3. FilesInv'
  BY <1>2, FilesStay
<1>4. VectorsInv' /\ PartitionInv'
  BY <1>2, VectorsStay
<1>5. ToldInv'
  BY ToldStays DEF Alone
<1> QED
  BY <1>1, <1>2, <1>3, <1>4, <1>5 DEF MemoryInv

LEMMA BeginStep ==
  ASSUME MemoryInv, NEW h \in Handlers, Begin(h)
  PROVE  MemoryInv'
<1>1. PICK n \in 1..MaxItems : Move(h, [NotWriting EXCEPT !.at = "item", !.left = n])
  BY DEF Begin
<1>0. PICK w : w = [NotWriting EXCEPT !.at = "item", !.left = n]
  OBVIOUS
<1>2. Alone(h) /\ At(h, "idle")
  BY DEF Begin, LockFree, Alone, At, Place, MemoryInv, WriterInv, HasRow
<1>3. Same /\ UNCHANGED <<mirror, staleFiles, index, staleVectors, confirmed>>
  BY DEF Begin, Same, historyVars
<1>4. w = [at |-> "item", row |-> NoRow, value |-> 0, page |-> {}, left |-> n]
  BY <1>0 DEF NotWriting
<1>5. IsWriter(w) /\ HasRow(w) /\ HasPage(w)
  <2>1. IsWriter(w) /\ w.at = "item" /\ w.row = NoRow
    BY <1>4, BetweenItems
  <2> QED
    BY <2>1 DEF HasRow, HasPage
<1>6. Move(h, w)
  BY <1>0, <1>1 DEF Move
<1> QED
  BY <1>2, <1>3, <1>5, <1>6, OnlyMove DEF At

LEMMA GiveUpStep ==
  ASSUME MemoryInv, NEW h \in Handlers, GiveUp(h)
  PROVE  MemoryInv'
<1>1. At(h, "item") /\ Move(h, NotWriting)
  BY DEF GiveUp
<1>2. Alone(h)
  BY <1>1, HandlerAlone DEF At
<1>3. Same /\ UNCHANGED <<mirror, staleFiles, index, staleVectors, confirmed>>
  BY DEF GiveUp, Same, historyVars
<1>4. IsWriter(NotWriting) /\ HasRow(NotWriting) /\ HasPage(NotWriting)
  BY DEF IsWriter, HasRow, HasPage, NotWriting
<1> QED
  BY <1>1, <1>2, <1>3, <1>4, OnlyMove DEF At

LEMMA ReadScopeStep ==
  ASSUME MemoryInv, NEW h \in Handlers, ReadScope(h)
  PROVE  MemoryInv'
<1>0. PICK w : w = [writer[h] EXCEPT !.at = "file", !.page = Content(WrittenOwner(h))]
  OBVIOUS
<1>1. At(h, "scope") /\ Move(h, w)
  BY <1>0 DEF ReadScope
<1>2. Same /\ UNCHANGED <<mirror, staleFiles, index, staleVectors, confirmed>>
  BY DEF ReadScope, Same, historyVars
<1>3. /\ Alone(h) /\ writer[h].row \in Rows /\ writer[h].value = value[writer[h].row]
  BY <1>1, HandlerAlone DEF At
<1>4. IsWriter(writer[h])
  BY DEF MemoryInv, WriterInv
<1>5. w = [at |-> "file", row |-> writer[h].row, value |-> writer[h].value,
           page |-> Content(WrittenOwner(h)), left |-> writer[h].left]
  BY <1>0, <1>4 DEF IsWriter
<1>6. IsWriter(w) /\ HasRow(w) /\ HasPage(w) /\ w.at = "file" /\ w.row = writer[h].row
  BY <1>3, <1>5 DEF IsWriter, HasRow, HasPage, WrittenOwner
<1> QED
  BY <1>1, <1>2, <1>3, <1>6, OnlyMove DEF At

LEMMA ReplaceFileStep ==
  ASSUME MemoryInv, NEW h \in Handlers, ReplaceFile(h)
  PROVE  MemoryInv'
<1>0. PICK w : w = [writer[h] EXCEPT !.at = "vector", !.page = {}]
  OBVIOUS
<1>1. At(h, "file") /\ Move(h, w)
  BY <1>0 DEF ReplaceFile
<1>2. Same /\ UNCHANGED <<index, staleVectors, confirmed>>
  BY DEF ReplaceFile, Same, historyVars
<1>3. /\ Alone(h) /\ writer[h].row \in Rows /\ writer[h].row \in Ids
      /\ writer[h].value = value[writer[h].row]
  BY <1>1, HandlerAlone DEF At
<1>4. /\ DatabaseInv' /\ HadInv' /\ StatementInv' /\ SettledInv' /\ Place' = "serving"
      /\ Rows' = Rows /\ \A i : Owner(conn, i)' = Owner(conn, i)
      /\ \A o : Content(o)' = Content(o)
  BY <1>2, <1>3, SameWrites DEF Alone
<1>5. IsWriter(writer[h]) /\ writer[h].page = Content(WrittenOwner(h))
  BY <1>1 DEF MemoryInv, WriterInv, HasPage, WrittenOwner, At
<1>6. w = [at |-> "vector", row |-> writer[h].row, value |-> writer[h].value,
           page |-> {}, left |-> writer[h].left]
  BY <1>0, <1>5 DEF IsWriter
<1>7. IsWriter(w) /\ w.at = "vector" /\ w.row = writer[h].row /\ w.value = writer[h].value
  BY <1>6 DEF IsWriter
<1>8. value' = value
  BY <1>2 DEF Same
<1>9. /\ WriterInv' /\ writer'[h] = w
      /\ \A g \in Handlers \ {h} : writer'[g] = writer[g]
  <2>1. w.row \in Rows' /\ w.value = value'[w.row]
    BY <1>3, <1>4, <1>7, <1>8
  <2>2. HasPage(w) /\ w.at # "file" /\ w.at \notin {"idle", "item"}
    BY <1>7 DEF HasPage
  <2> QED
    BY <1>1, <1>3, <1>4, <1>7, <2>1, <2>2, WriterMoves
<1>10. FilesInv'
  <2> DEFINE o == WrittenOwner(h)
  <2>1. o \in Owners
    BY <1>3, OwnersTyped DEF WrittenOwner
  <2>2. writer[h].page \subseteq Ids \X Values
    BY <1>5, ContentTyped
  <2>3. /\ mirror' = [mirror EXCEPT ![o] = writer[h].page] \/ mirror' = mirror
        /\ mirror' = mirror => staleFiles' = staleFiles \ {o} \/ staleFiles' = staleFiles \cup {o}
    BY DEF ReplaceFile
  <2>4. \/ mirror' = [mirror EXCEPT ![o] = writer[h].page] /\ staleFiles' = staleFiles \ {o}
        \/ mirror' = mirror /\ staleFiles' = staleFiles \cup {o}
    BY DEF ReplaceFile
  <2>5. mirror' \in [Owners -> SUBSET (Ids \X Values)] /\ staleFiles' \subseteq Owners
    BY <2>1, <2>2, <2>4 DEF MemoryInv, FilesInv
  <2>6. ASSUME NEW p \in Owners \ staleFiles' PROVE mirror'[p] = Content(p)
    <3>1. CASE p = o
      BY <1>5, <2>1, <2>4, <2>6, <3>1 DEF MemoryInv, FilesInv
    <3>2. CASE p # o
      <4>1. \A g \in Handlers : writer[g].at \in {"scope", "file"} => WrittenOwner(g) # p
        BY <1>3, <3>2 DEF Alone
      <4>2. mirror'[p] = mirror[p] /\ p \notin staleFiles
        BY <2>1, <2>4, <2>6, <3>2 DEF MemoryInv, FilesInv
      <4> QED
        BY <4>1, <4>2 DEF MemoryInv, FilesInv
    <3> QED
      BY <3>1, <3>2
  <2> QED
    BY <1>4, <2>5, <2>6 DEF FilesInv
<1>11. VectorsInv' /\ PartitionInv'
  BY <1>1, <1>2, <1>3, <1>7, <1>9, VectorsStay
<1>12. ToldInv'
  BY <1>2, <1>3, ToldStays DEF Alone
<1> QED
  BY <1>4, <1>9, <1>10, <1>11, <1>12 DEF MemoryInv

LEMMA UpsertVectorStep ==
  ASSUME MemoryInv, NEW h \in Handlers, UpsertVector(h)
  PROVE  MemoryInv'
<1>0. PICK w : w = [writer[h] EXCEPT !.at = "told"]
  OBVIOUS
<1>1. At(h, "vector") /\ Move(h, w)
  BY <1>0 DEF UpsertVector
<1>2. Same /\ UNCHANGED <<mirror, staleFiles, confirmed>>
  BY DEF UpsertVector, Same, historyVars
<1>3. /\ Alone(h) /\ writer[h].row \in Rows /\ writer[h].row \in Ids
      /\ writer[h].value = value[writer[h].row]
  BY <1>1, HandlerAlone DEF At
<1>4. /\ DatabaseInv' /\ HadInv' /\ StatementInv' /\ SettledInv' /\ Place' = "serving"
      /\ disk = conn /\ Rows' = Rows
  BY <1>2, <1>3, SameWrites DEF Alone
<1>5. IsWriter(writer[h])
  BY DEF MemoryInv, WriterInv
<1>6. w = [at |-> "told", row |-> writer[h].row, value |-> writer[h].value,
           page |-> writer[h].page, left |-> writer[h].left]
  BY <1>0, <1>5 DEF IsWriter
<1>7. IsWriter(w) /\ w.at = "told" /\ w.row = writer[h].row /\ w.value = writer[h].value
  BY <1>6 DEF IsWriter
<1>8. UNCHANGED <<value, disk, conn>>
  BY <1>2 DEF Same, startVars
<1>9. /\ WriterInv' /\ writer'[h] = w
      /\ \A g \in Handlers \ {h} : writer'[g] = writer[g]
  <2>1. w.row \in Rows' /\ w.value = value'[w.row]
    BY <1>3, <1>4, <1>7, <1>8
  <2>2. HasPage(w) /\ w.at # "file" /\ w.at \notin {"idle", "item"}
    BY <1>7 DEF HasPage
  <2> QED
    BY <1>1, <1>3, <1>4, <1>7, <2>1, <2>2, WriterMoves
<1>10. FilesInv'
  BY <1>1, <1>2, <1>3, <1>7, <1>9, FilesStay DEF At
<1> DEFINE i == writer[h].row
           x == [value |-> writer[h].value, part |-> WrittenOwner(h)]
<1>11. /\ x \in [value : Values, part : Owners] /\ x # NoVector
       /\ x.value = value[i] /\ x.part = Owner(conn, i)
  <2>1. value[i] \in Values /\ WrittenOwner(h) \in Owners
    BY <1>3, OwnersTyped DEF MemoryInv, ToldInv, WrittenOwner
  <2>2. x \in [value : Nat, part : Users \cup {Shared}]
    BY <1>3, <2>1 DEF Values, Owners
  <2> QED
    BY <1>3, <2>1, <2>2, MemoryAssumption DEF WrittenOwner
<1>12. \/ index' = [index EXCEPT ![i] = x] /\ staleVectors' = staleVectors \ {i}
       \/ index' = index /\ staleVectors' = staleVectors \cup {i}
  BY DEF UpsertVector
<1> HIDE DEF x
<1>13. /\ index' = [j \in Ids |-> index'[j]]
       /\ \A j \in Ids \ {i} : index'[j] = index[j]
       /\ index'[i] \in {index[i], x}
       /\ i \notin staleVectors' => index'[i] = x
  BY <1>3, <1>12 DEF MemoryInv, VectorsInv
<1>14. VectorsInv'
  <2>1. ASSUME NEW j \in Ids
        PROVE  index'[j] = NoVector \/ index'[j] \in [value : Values, part : Owners]
    BY <1>11, <1>13 DEF MemoryInv, VectorsInv
  <2>2. ASSUME NEW j \in Rows \ staleVectors' PROVE Current(j)'
    <3>1. CASE j = i
      BY <1>8, <1>11, <1>13, <2>2, <3>1 DEF Current
    <3>2. CASE j # i
      <4>1. j \in Ids /\ j \notin staleVectors
        BY <1>12, <2>2, <3>2, FieldsOf DEF MemoryInv, DatabaseInv, Rows, Tables
      <4>2. Current(j)
        BY <1>3, <3>2, <4>1 DEF Alone, MemoryInv, VectorsInv
      <4> QED
        BY <1>8, <1>13, <3>2, <4>1, <4>2 DEF Current
    <3> QED
      BY <3>1, <3>2
  <2>3. staleVectors' \subseteq Ids
    BY <1>3, <1>12 DEF MemoryInv, VectorsInv
  <2> QED
    BY <1>4, <1>13, <2>1, <2>2, <2>3 DEF VectorsInv
<1>15. PartitionInv'
  <2> SUFFICES ASSUME NEW j \in Ids, index'[j] # NoVector
               PROVE  /\ index'[j].part \in {Shared, Owner(disk, j)}
                      /\ index'[j].part \in {Shared, Owner(conn, j)}
    BY <1>8 DEF PartitionInv
  <2> QED
    BY <1>4, <1>11, <1>13 DEF MemoryInv, PartitionInv
<1>16. ToldInv'
  BY <1>2, <1>3, ToldStays DEF Alone
<1> QED
  BY <1>4, <1>9, <1>10, <1>14, <1>15, <1>16 DEF MemoryInv

LEMMA ReturnStep ==
  ASSUME MemoryInv, NEW h \in Handlers, Return(h)
  PROVE  MemoryInv'
<1>0. PICK w : w = IF writer[h].left > 1
                   THEN [NotWriting EXCEPT !.at = "item", !.left = writer[h].left - 1]
                   ELSE NotWriting
  OBVIOUS
<1>1. At(h, "told") /\ Move(h, w)
  BY <1>0 DEF Return
<1>2. Same /\ UNCHANGED <<mirror, staleFiles, index, staleVectors>>
  BY DEF Return, Same, historyVars
<1>3. /\ Alone(h) /\ writer[h].row \in Rows /\ writer[h].row \in Ids
      /\ writer[h].value = value[writer[h].row]
  BY <1>1, HandlerAlone DEF At
<1>4. /\ DatabaseInv' /\ HadInv' /\ StatementInv' /\ SettledInv' /\ Place' = "serving"
  BY <1>2, <1>3, SameWrites DEF Alone
<1>5. /\ w = [at |-> w.at, row |-> NoRow, value |-> 0, page |-> {}, left |-> w.left]
      /\ w.at \in {"idle", "item"}
  <2>1. CASE writer[h].left > 1
    BY <1>0, <2>1 DEF NotWriting
  <2>2. CASE ~(writer[h].left > 1)
    BY <1>0, <2>2 DEF NotWriting
  <2> QED
    BY <2>1, <2>2
<1>6. IsWriter(w) /\ w.row = NoRow
  BY <1>5, BetweenItems
<1>7. /\ WriterInv' /\ writer'[h] = w
      /\ \A g \in Handlers \ {h} : writer'[g] = writer[g]
  BY <1>1, <1>3, <1>4, <1>5, <1>6, WriterMoves DEF HasPage
<1>8. FilesInv'
  BY <1>1, <1>2, <1>3, <1>7, FilesStay DEF At
<1>9. VectorsInv' /\ PartitionInv'
  BY <1>1, <1>2, <1>3, <1>7, VectorsStay DEF At
<1>10. ToldInv'
  <2> DEFINE i == writer[h].row
  <2>1. confirmed' = [confirmed EXCEPT ![i] = value[i]]
    BY <1>3 DEF Return
  <2>2. UNCHANGED <<value, writes, served, conn>>
    BY <1>2 DEF Same, startVars
  <2>3. value[i] \in Values
    BY <1>3 DEF MemoryInv, ToldInv
  <2>4. confirmed' \in [Ids -> Values]
    BY <2>1, <2>3 DEF MemoryInv, ToldInv
  <2>5. served
    BY <1>3 DEF MemoryInv, ToldInv, Alone
  <2>6. confirmed'[i] = value[i] /\ \A j \in Ids \ {i} : confirmed'[j] = confirmed[j]
    BY <1>3, <2>1 DEF MemoryInv, ToldInv
  <2>7. value[i] <= value[i]
    BY <2>3 DEF Values
  <2> QED
    BY <1>3, <2>2, <2>4, <2>5, <2>6, <2>7 DEF MemoryInv, ToldInv, Rows
<1> QED
  BY <1>4, <1>7, <1>8, <1>9, <1>10 DEF MemoryInv

(* The row a user's item is stored in.                                       *)
LEMMA RowChosen ==
  ASSUME MemoryInv, Place = "serving", NEW u \in Users, NEW k, NEW i \in RowFor(u, k)
  PROVE  /\ i \in Ids /\ Actor[i] = u /\ Key[i] = k
         /\ i \in had["memories"] => i \in Rows /\ i \in conn.private
         /\ i \notin Rows => \A j \in Rows : ~(Owner(conn, j) = u /\ Key[j] = k)
<1> DEFINE there == {j \in Rows : Owner(conn, j) = u /\ Key[j] = k}
<1>1. Rows \subseteq Ids /\ Rows \subseteq had["memories"]
  BY FieldsOf DEF MemoryInv, DatabaseInv, HadInv, Sound, Rows, Tables
<1>2. u # Shared
  BY RowAssumption
<1>3. CASE there # {}
  BY <1>1, <1>2, <1>3 DEF RowFor, Owner
<1>4. CASE there = {}
  BY <1>1, <1>4 DEF RowFor
<1> QED
  BY <1>3, <1>4

LEMMA StoreStep ==
  ASSUME MemoryInv, NEW h \in Handlers, Store(h)
  PROVE  MemoryInv'
<1>1. At(h, "item") /\ writes < MaxWrites
  BY DEF Store
<1>2. PICK u \in Users, k \in {Key[j] : j \in Ids} : \E i \in RowFor(u, k) :
        /\ conn' = Stored(i) /\ disk' = Stored(i)
        /\ writes' = writes + 1
        /\ value' = [value EXCEPT ![i] = writes + 1]
        /\ had' = [had EXCEPT !["memories"] = @ \cup {i}]
        /\ Move(h, [writer[h] EXCEPT !.at = "scope", !.row = i, !.value = writes + 1])
  BY DEF Store
<1>3. PICK i \in RowFor(u, k) :
        /\ conn' = Stored(i) /\ disk' = Stored(i)
        /\ writes' = writes + 1
        /\ value' = [value EXCEPT ![i] = writes + 1]
        /\ had' = [had EXCEPT !["memories"] = @ \cup {i}]
        /\ Move(h, [writer[h] EXCEPT !.at = "scope", !.row = i, !.value = writes + 1])
  BY <1>2
<1>4. UNCHANGED <<pc, inTx, crashes, mirror, index, staleFiles, staleVectors, confirmed, served>>
  BY DEF Store
<1>5. Alone(h) /\ writer[h].row = NoRow /\ writer[h].at = "item"
  BY <1>1, HandlerAlone DEF At
<1>6. Place = "serving" /\ Place' = "serving"
  BY <1>4, <1>5 DEF Alone, Place
<1>7. /\ i \in Ids /\ Actor[i] = u /\ Key[i] = k
      /\ i \in had["memories"] => i \in Rows /\ i \in conn.private
      /\ i \notin Rows => \A j \in Rows : ~(Owner(conn, j) = u /\ Key[j] = k)
  BY <1>6, RowChosen
<1>8. /\ conn \in Database /\ ~inTx /\ disk = conn /\ Established
      /\ Settled(conn) /\ Sound(conn) /\ conn.fts = Rows
  BY <1>6 DEF MemoryInv, DatabaseInv, Committed, Established, Indexed, SettledInv, HadInv,
              StatementInv, Rows
<1>9. Rows = conn.rows["memories"] /\ Rows \subseteq had["memories"] /\ Rows \subseteq Ids
  BY <1>8 DEF Rows, Sound, Tables, Database
<1>0. PICK db : db = Stored(i)
  OBVIOUS
<1>10. /\ db.rows = [conn.rows EXCEPT !["memories"] = @ \cup {i}]
       /\ db.private = conn.private \cup {i} /\ db.fts = conn.fts \cup {i}
       /\ db.shape = conn.shape /\ db.aside = conn.aside /\ db.columns = conn.columns
  BY <1>0, <1>8 DEF Stored, Database
<1>11. /\ db.rows["memories"] = Rows \cup {i}
       /\ \A t \in Tables \ {"memories"} : db.rows[t] = conn.rows[t]
  BY <1>8, <1>9, <1>10 DEF Database, Tables
<1>12. Actor[i] # NoActor
  BY <1>7, RowAssumption
<1>13. db \in Database
  <2>1. db = [shape |-> db.shape, rows |-> db.rows, aside |-> db.aside,
              private |-> db.private, columns |-> db.columns, fts |-> db.fts]
    BY <1>0, <1>8 DEF Stored, Database
  <2>2. db.rows \in [Tables -> SUBSET Ids]
    <3>1. conn.rows \in [Tables -> SUBSET Ids]
      BY <1>8, FieldsOf
    <3> QED
      BY <1>7, <1>10, <3>1 DEF Tables
  <2>3. db.private \subseteq {j \in Ids : Actor[j] # NoActor} /\ db.fts \subseteq Ids
    BY <1>7, <1>8, <1>10, <1>12 DEF Database
  <2> QED
    BY <1>8, <1>10, <2>1, <2>2, <2>3 DEF Database
<1>14. conn' = db /\ disk' = db
  BY <1>0, <1>3
<1>15. /\ Owner(db, i) = u /\ \A j : j # i => Owner(db, j) = Owner(conn, j)
       /\ i \in had["memories"] => Owner(conn, i) = u
  BY <1>7, <1>10 DEF Owner
<1>16. DatabaseInv'
  BY <1>4, <1>6, <1>8, <1>13, <1>14 DEF MemoryInv, DatabaseInv
<1>17. /\ had' \in [Tables -> SUBSET Ids] /\ IsFiniteSet(had'["memories"])
       /\ had'["memories"] = had["memories"] \cup {i}
       /\ \A t \in Tables \ {"memories"} : had'[t] = had[t]
  <2>1. had \in [Tables -> SUBSET Ids] /\ IsFiniteSet(had["memories"])
    BY DEF MemoryInv, HadInv
  <2>2. had'["memories"] = had["memories"] \cup {i}
    BY <1>3, <2>1 DEF Tables
  <2>3. IsFiniteSet(had["memories"] \cup {i})
    BY <2>1, FS_AddElement
  <2> QED
    BY <1>3, <1>7, <2>1, <2>2, <2>3
<1>18. Owned(db)
  BY <1>8, <1>9, <1>10, <1>11 DEF Settled, Owned
<1>19. Superseded(db) = {}
  <2> SUFFICES ASSUME NEW a \in Rows \cup {i}, NEW b \in Rows \cup {i},
                      SameSlot(db, a, b), Age[b] > Age[a]
               PROVE  FALSE
    BY <1>11 DEF Superseded
  <2>1. CASE a \in Rows /\ b \in Rows
    <3>1. SameSlot(conn, a, b)
      BY <1>9, <1>15, <2>1 DEF SameSlot
    <3> QED
      BY <1>8, <1>9, <2>1, <3>1 DEF Settled, Superseded
  <2>2. CASE i \notin Rows /\ (a = i \/ b = i)
    <3>1. ~(a = i /\ b = i)
      BY <1>7, RowAssumption
    <3>2. PICK j \in Rows : Owner(db, j) = Owner(db, i) /\ Key[j] = Key[i] /\ j # i
      BY <2>2, <3>1 DEF SameSlot
    <3> QED
      BY <1>7, <1>15, <2>2, <3>2
  <2> QED
    BY <2>1, <2>2
<1>20. HadInv'
  <2>1. ASSUME NEW t \in Tables, NEW j \in had'[t] PROVE Held(db, t, j)
    <3>1. CASE t = "memories" /\ j = i
      BY <1>11, <3>1 DEF Held
    <3>2. CASE t = "memories" /\ j # i
      <4>1. Held(conn, t, j)
        BY <1>8, <1>17, <3>2 DEF Sound
      <4>2. Overtaken(conn, j) => Overtaken(db, j)
        <5> SUFFICES ASSUME NEW n \in Rows, SameSlot(conn, j, n), Age[n] > Age[j]
                     PROVE  SameSlot(db, j, n)
          BY <1>9, <1>11 DEF Overtaken
        <5> QED
          BY <1>9, <1>15, <3>2 DEF SameSlot
      <4> QED
        BY <1>9, <1>10, <1>11, <3>2, <4>1, <4>2 DEF Held, SetAside
    <3>3. CASE t # "memories"
      <4>1. Held(conn, t, j)
        BY <1>8, <1>17, <3>3 DEF Sound
      <4> QED
        BY <1>10, <1>11, <3>3, <4>1 DEF Held, SetAside
    <3> QED
      BY <3>1, <3>2, <3>3
  <2>2. ASSUME NEW t \in Tables
        PROVE  /\ db.rows[t] \subseteq had'[t]
               /\ db.aside[t] # NoTable => db.aside[t] \subseteq had'[t]
               /\ db.shape[t] = "new"
    <3>1. conn.rows[t] \subseteq had[t] /\ (conn.aside[t] # NoTable => conn.aside[t] \subseteq had[t])
      BY <1>8 DEF Sound
    <3>2. conn.shape[t] = "new"
      BY <1>8 DEF Settled
    <3>3. db.rows[t] \subseteq had'[t] /\ had[t] \subseteq had'[t]
      BY <1>9, <1>11, <1>17, <3>1
    <3> QED
      BY <1>10, <3>1, <3>2, <3>3
  <2>3. Sound(conn)' /\ Sound(disk)'
    BY <1>14, <1>18, <2>1, <2>2 DEF Sound, Held, Owned
  <2> QED
    BY <1>17, <2>3 DEF HadInv
<1>21. StatementInv'
  <2>0. pc' = <<"serving">>
    BY <1>4, <1>6 DEF MemoryInv, StatementInv
  <2>1. conn'.shape["memories"] = "new"
    BY <1>8, <1>10, <1>14 DEF Settled, Tables
  <2>2. conn'.fts = conn'.rows["memories"]
    BY <1>8, <1>10, <1>11, <1>14
  <2> QED
    BY <1>6, <2>0, <2>1, <2>2 DEF StatementInv, Moving, Indexed
<1>22. SettledInv'
  <2>1. Settled(db)
    BY <1>8, <1>10, <1>18, <1>19 DEF Settled
  <2>2. Settled(conn)' /\ Settled(disk)'
    BY <1>14, <2>1
  <2> QED
    BY <1>6, <1>14, <2>2 DEF SettledInv, Moving
<1>23. writes + 1 \in Values /\ value' \in [Ids -> Values]
       /\ value'[i] = writes + 1 /\ \A j \in Ids \ {i} : value'[j] = value[j]
  <2>1. writes + 1 \in Values
    BY <1>1, MemoryAssumption DEF MemoryInv, ToldInv, Values
  <2> QED
    BY <1>3, <1>7, <2>1 DEF MemoryInv, ToldInv
<1>24. Rows' = Rows \cup {i}
  BY <1>11, <1>14 DEF Rows
<1>25. PICK w : w = [writer[h] EXCEPT !.at = "scope", !.row = i, !.value = writes + 1]
  OBVIOUS
<1>26. Move(h, w)
  BY <1>3, <1>25 DEF Move
<1>27. IsWriter(w) /\ w.at = "scope" /\ w.row = i /\ w.value = writes + 1
  <2>1. IsWriter(writer[h])
    BY DEF MemoryInv, WriterInv
  <2>2. w = [at |-> "scope", row |-> i, value |-> writes + 1,
             page |-> writer[h].page, left |-> writer[h].left]
    BY <1>25, <2>1 DEF IsWriter
  <2> QED
    BY <2>2 DEF IsWriter
<1>28. /\ WriterInv' /\ writer'[h] = w
       /\ \A g \in Handlers \ {h} : writer'[g] = writer[g]
  <2>1. HasPage(w) /\ w.at # "file" /\ w.at \notin {"idle", "item"}
    BY <1>27 DEF HasPage
  <2>2. w.row \in Rows' /\ w.value = value'[w.row]
    BY <1>23, <1>24, <1>27
  <2> QED
    BY <1>5, <1>6, <1>26, <1>27, <2>1, <2>2, WriterMoves
<1>29. ToldInv'
  <2>1. ASSUME NEW j \in Ids
        PROVE  /\ value'[j] <= writes' /\ confirmed[j] <= value'[j]
               /\ confirmed[j] > 0 => served /\ j \in conn'.rows["memories"]
    <3>1. /\ value[j] \in Nat /\ confirmed[j] \in Nat /\ writes \in Nat
          /\ value[j] <= writes /\ confirmed[j] <= value[j]
          /\ confirmed[j] > 0 => served /\ j \in Rows
      BY <1>9, MemoryAssumption DEF MemoryInv, ToldInv, Values
    <3>2. writes' = writes + 1 /\ value'[j] \in {value[j], writes + 1}
      BY <1>3, <1>23
    <3> QED
      BY <1>11, <1>14, <3>1, <3>2
  <2> QED
    BY <1>3, <1>4, <1>6, <1>23, <2>1 DEF MemoryInv, ToldInv
<1>30. FilesInv'
  <2>1. ASSUME NEW o, o # u PROVE Content(o)' = Content(o)
    <3>1. \A j : (j \in Rows' /\ Owner(conn', j) = o) <=> (j \in Rows /\ Owner(conn, j) = o)
      BY <1>9, <1>14, <1>15, <1>24, <2>1
    <3>2. \A j \in Rows : Owner(conn, j) = o => j # i
      BY <1>9, <1>15, <2>1
    <3> QED
      BY <1>9, <1>23, <3>1, <3>2 DEF Content
  <2>2. WrittenOwner(h)' = u
    BY <1>14, <1>15, <1>27, <1>28 DEF WrittenOwner
  <2>3. ASSUME NEW o \in Owners \ staleFiles, o # u PROVE mirror[o] = Content(o)
    BY <1>5, <2>3 DEF Alone, MemoryInv, FilesInv
  <2>4. writer'[h].at = "scope"
    BY <1>27, <1>28
  <2> QED
    BY <1>4, <2>1, <2>2, <2>3, <2>4 DEF MemoryInv, FilesInv
<1>31. VectorsInv'
  <2>1. ASSUME NEW j \in Rows \ staleVectors, j # i PROVE Current(j)'
    <3>1. Current(j)
      BY <1>5, <2>1 DEF Alone, MemoryInv, VectorsInv
    <3> QED
      BY <1>4, <1>9, <1>23, <2>1, <3>1 DEF Current
  <2>2. writer'[h].at = "scope" /\ writer'[h].row = i
    BY <1>27, <1>28
  <2> QED
    BY <1>4, <1>24, <2>1, <2>2 DEF MemoryInv, VectorsInv
<1>32. PartitionInv'
  <2> SUFFICES ASSUME NEW j \in Ids, index[j] # NoVector
               PROVE  index[j].part \in {Shared, Owner(db, j)}
    BY <1>4, <1>14 DEF PartitionInv
  <2>1. index[j].part \in {Shared, Owner(conn, j)}
    BY DEF MemoryInv, PartitionInv
  <2> QED
    BY <1>10, <2>1, PartitionStays
<1> QED
  BY <1>16, <1>20, <1>21, <1>22, <1>28, <1>29, <1>30, <1>31, <1>32 DEF MemoryInv

(* The process dies.                                                         *)
LEMMA CrashStep ==
  ASSUME MemoryInv, Crash
  PROVE  MemoryInv'
<1> DEFINE cut == {h \in Handlers : ~At(h, "idle") /\ writer[h].row # NoRow}
<1>1. /\ Place' = "down" /\ inTx' = FALSE /\ conn' = disk /\ disk' = disk
      /\ crashes' = crashes + 1 /\ crashes < MaxCrashes
  BY DEF Crash, StartCrash, Place
<1>2. /\ writer' = [h \in Handlers |-> NotWriting]
      /\ UNCHANGED <<value, writes, mirror, index, had, confirmed, served>>
  BY DEF Crash
<1>3. /\ staleFiles' = staleFiles \cup {WrittenOwner(h) : h \in {g \in cut :
                                          writer[g].at \in {"scope", "file"}}}
      /\ staleVectors' = staleVectors \cup {writer[h].row : h \in {g \in cut :
                                          writer[g].at \in {"scope", "file", "vector"}}}
  BY DEF Crash
<1>4. ASSUME NEW h \in Handlers, writer[h].at \in {"scope", "file", "vector"}
      PROVE  h \in cut /\ writer[h].row \in Ids
  <2>1. writer[h].row \in Ids /\ ~At(h, "idle")
    BY <1>4, HandlerAlone DEF At
  <2> QED
    BY <2>1, MemoryAssumption
<1>5. /\ staleFiles \subseteq staleFiles' /\ staleFiles' \subseteq Owners
      /\ \A h \in Handlers : writer[h].at \in {"scope", "file"} => WrittenOwner(h) \in staleFiles'
  <2>1. staleFiles \subseteq Owners
    BY DEF MemoryInv, FilesInv
  <2>2. \A h \in Handlers : writer[h].at \in {"scope", "file"} =>
          h \in cut /\ WrittenOwner(h) \in Owners
    BY <1>4, OwnersTyped DEF WrittenOwner
  <2> HIDE DEF cut
  <2> QED
    <3>1. cut \subseteq Handlers
      BY DEF cut
    <3> QED
      BY <1>3, <2>1, <2>2, <3>1
<1>6. /\ staleVectors \subseteq staleVectors' /\ staleVectors' \subseteq Ids
      /\ \A h \in Handlers : writer[h].at \in {"scope", "file", "vector"} =>
           writer[h].row \in staleVectors'
  <2>1. staleVectors \subseteq Ids /\ cut \subseteq Handlers
    BY DEF MemoryInv, VectorsInv
  <2> HIDE DEF cut
  <2> QED
    BY <1>3, <1>4, <2>1
<1>7. DatabaseInv'
  <2>1. crashes + 1 \in 0..MaxCrashes
    BY <1>1, MigrationBounds DEF MemoryInv, DatabaseInv
  <2> QED
    BY <1>1, <2>1 DEF MemoryInv, DatabaseInv
<1>8. HadInv'
  BY <1>1, <1>2 DEF MemoryInv, HadInv, Sound, Whole, Held
<1>9. StatementInv'
  BY <1>1 DEF StatementInv, Moving, Indexed
<1>10. Established' => Established
  BY <1>1, <1>2, <1>5, <1>6 DEF Established, Indexed, MemoryInv, FilesInv, VectorsInv
<1>11. SettledInv'
  BY <1>1, <1>10 DEF MemoryInv, SettledInv, Settled, Owned, Moving
<1>12. ASSUME Established
       PROVE  /\ Rows' = Rows /\ conn'.private = conn.private
              /\ \A o : Content(o)' = Content(o)
  <2>1. conn'.rows = conn.rows /\ conn'.private = conn.private
    BY <1>1, <1>12 DEF MemoryInv, SettledInv
  <2>2. ASSUME NEW o PROVE Content(o)' = Content(o)
    BY <1>2, <2>1, SameContent
  <2> QED
    BY <2>1, <2>2 DEF Rows
<1>13. WriterInv'
  BY <1>2 DEF WriterInv, IsWriter, HasRow, HasPage, NotWriting
<1>14. ToldInv'
  <2>1. ASSUME NEW i \in Ids, confirmed[i] > 0
        PROVE  i \in conn'.rows["memories"]
    BY <1>12, <2>1 DEF MemoryInv, ToldInv, Established, Rows
  <2> QED
    BY <1>1, <1>2, <2>1 DEF MemoryInv, ToldInv
<1>15. FilesInv'
  <2>1. ASSUME NEW o \in Owners \ staleFiles' PROVE mirror[o] = Content(o)'
    <3>1. mirror[o] = Content(o)
      BY <1>5, <2>1 DEF MemoryInv, FilesInv
    <3> QED
      BY <1>5, <1>12, <2>1, <3>1 DEF Established
  <2> QED
    BY <1>2, <1>5, <2>1 DEF MemoryInv, FilesInv
<1>16. VectorsInv'
  <2>1. conn' \in Database
    BY <1>1 DEF MemoryInv, DatabaseInv
  <2>2. ASSUME NEW i \in Rows' \ staleVectors' PROVE Current(i)'
    <3>1. i \in Ids /\ i \notin staleVectors
      BY <1>6, <2>1, <2>2, FieldsOf DEF Rows, Tables
    <3>2. Rows' = Rows
      BY <1>12, <3>1 DEF Established
    <3>3. Current(i)
      BY <1>6, <2>2, <3>1, <3>2 DEF MemoryInv, VectorsInv
    <3> QED
      BY <1>2, <3>3 DEF Current
  <2> QED
    BY <1>2, <1>6, <2>2 DEF MemoryInv, VectorsInv
<1>17. PartitionInv'
  BY <1>1, <1>2 DEF MemoryInv, PartitionInv
<1> QED
  BY <1>7, <1>8, <1>9, <1>11, <1>13, <1>14, <1>15, <1>16, <1>17 DEF MemoryInv

-----------------------------------------------------------------------------
(* The invariant holds of every state the process and its crashes can reach. *)
THEOREM MemoryStays == Spec => []MemoryInv
<1>1. MemoryInv /\ [Next]_vars => MemoryInv'
  <2> SUFFICES ASSUME MemoryInv, [Next]_vars PROVE MemoryInv'
    OBVIOUS
  <2>1. ASSUME NEW h \in Handlers, Begin(h) \/ Write(h) PROVE MemoryInv'
    BY <2>1, BeginStep, StoreStep, GiveUpStep, ReadScopeStep, ReplaceFileStep,
       UpsertVectorStep, ReturnStep
    DEF Write
  <2>2. CASE UNCHANGED vars
    <3>1. UNCHANGED <<pc, disk, conn, inTx, crashes, value, writes, mirror, index, writer,
                      had, staleFiles, staleVectors, confirmed, served>>
      BY <2>2 DEF vars, startVars, copyVars, historyVars
    <3>2. DatabaseInv' /\ StatementInv'
      BY <3>1 DEF MemoryInv, DatabaseInv, StatementInv, Owned, Place
    <3>3. HadInv'
      BY <3>1 DEF MemoryInv, HadInv, Sound, Whole, Held
    <3>4. SettledInv'
      BY <3>1 DEF MemoryInv, SettledInv, Settled, Owned, Established, Place
    <3>5. \A o : Content(o)' = Content(o)
      BY <3>1, SameContent
    <3>6. WriterInv'
      BY <3>1, <3>5 DEF MemoryInv, WriterInv, IsWriter, HasRow, HasPage, Rows, Owner, Place
    <3>7. ToldInv' /\ PartitionInv'
      BY <3>1 DEF MemoryInv, ToldInv, PartitionInv, Place
    <3>8. FilesInv'
      BY <3>1, <3>5 DEF MemoryInv, FilesInv, WrittenOwner, Owner
    <3>9. VectorsInv'
      BY <3>1 DEF MemoryInv, VectorsInv, Rows, Current
    <3> QED
      BY <3>2, <3>3, <3>4, <3>6, <3>7, <3>8, <3>9 DEF MemoryInv
  <2> QED
    BY <2>1, <2>2, StartStep, SyncAllStep, BackfillStep, CrashStep DEF Next
<1> QED
  BY <1>1, MemoryInit, PTL DEF Spec

(* The database and the copies keep their shape, and messages are served with
   everything committed.                                                     *)
THEOREM StoreTypeCorrect == Spec => []StoreTypeOK
<1>1. MemoryInv => StoreTypeOK
  <2> SUFFICES ASSUME MemoryInv PROVE StoreTypeOK
    OBVIOUS
  <2>1. disk \in Database /\ conn \in Database
    BY DEF MemoryInv, DatabaseInv
  <2>2. pc = <<"serving">> => ~inTx /\ disk = conn
    BY DEF MemoryInv, DatabaseInv, Committed, Place
  <2> QED
    BY <2>1, <2>2, FieldsOf
    DEF StoreTypeOK, MemoryInv, DatabaseInv, ToldInv, FilesInv, VectorsInv
<1> QED
  BY <1>1, MemoryStays, PTL

(* No row is destroyed, whenever the process dies.                           *)
THEOREM RowsSurvive == Spec => []NothingVanishes
<1>1. MemoryInv => NothingVanishes
  BY DEF MemoryInv, HadInv, Sound, Held, SetAside, Overtaken, NothingVanishes
<1> QED
  BY <1>1, MemoryStays, PTL

(* What is served is in the text index and without duplicates, and holds every
   value a user was told is stored, or a later one.                          *)
THEOREM StoredWhenTold == Spec => []ToldIsStored
<1>1. MemoryInv => ToldIsStored
  <2> SUFFICES ASSUME MemoryInv, pc = <<"serving">>
               PROVE  /\ Superseded(disk) = {} /\ disk.fts = disk.rows["memories"]
                      /\ \A i \in Ids : confirmed[i] > 0 =>
                           i \in disk.rows["memories"] /\ value[i] >= confirmed[i]
    BY DEF ToldIsStored
  <2>1. Place = "serving"
    BY DEF Place
  <2>2. disk = conn /\ Established
    BY <2>1 DEF MemoryInv, DatabaseInv, Committed, Established, Indexed
  <2>3. Superseded(disk) = {} /\ conn.fts = conn.rows["memories"]
    BY <2>1, <2>2 DEF MemoryInv, SettledInv, Settled, StatementInv, Indexed
  <2>4. ASSUME NEW i \in Ids PROVE value[i] >= confirmed[i]
    BY MemoryAssumption DEF MemoryInv, ToldInv, Values
  <2> QED
    BY <2>2, <2>3, <2>4 DEF MemoryInv, ToldInv
<1> QED
  BY <1>1, MemoryStays, PTL

(* The files and vectors are those of the rows, but where an update failed or is
   under way.                                                                *)
THEOREM CopiesStayFresh == Spec => []CopiesFresh
<1>1. MemoryInv => CopiesFresh
  <2> SUFFICES ASSUME MemoryInv
               PROVE  /\ \A o \in Owners \ staleFiles :
                           (\A h \in Handlers : writer[h].row # NoRow => WrittenOwner(h) # o)
                           => mirror[o] = Content(o)
                      /\ \A i \in Rows \ staleVectors :
                           (\A h \in Handlers : writer[h].row # i) => Current(i)
    BY DEF CopiesFresh
  <2>1. \A h \in Handlers : writer[h].at \in {"scope", "file"} => writer[h].row # NoRow
    <3> TAKE h \in Handlers
    <3>1. writer[h].at \in {"scope", "file"} => writer[h].row \in Ids
      BY HandlerAlone DEF At
    <3> QED
      BY <3>1, MemoryAssumption
  <2> QED
    BY <2>1 DEF MemoryInv, FilesInv, VectorsInv
<1> QED
  BY <1>1, MemoryStays, PTL

(* A search finds what the user may see, all of it and nothing else.         *)
THEOREM SearchStaysExact == Spec => []SearchExact
<1>1. MemoryInv => SearchExact
  <2> SUFFICES ASSUME MemoryInv, pc = <<"serving">>, NEW u \in Users
               PROVE  /\ Lexical(u) = {i \in Rows : Owner(conn, i) \in {Shared, u}}
                      /\ Found(u) = {i \in Lexical(u) : index[i] # NoVector}
    BY DEF SearchExact
  <2>1. Place = "serving"
    BY DEF Place
  <2>2. conn.fts = Rows
    BY <2>1 DEF MemoryInv, StatementInv, Indexed, Rows
  <2>3. Rows \subseteq Ids
    BY FieldsOf DEF MemoryInv, DatabaseInv, Rows, Tables
  <2>4. Lexical(u) = {i \in Rows : Owner(conn, i) \in {Shared, u}}
    BY <2>2 DEF Lexical, MayRead
  <2>5. \A i \in Ids : index[i] # NoVector => index[i].part \in {Shared, Owner(conn, i)}
    BY DEF MemoryInv, PartitionInv
  <2> QED
    BY <2>3, <2>4, <2>5 DEF Found, MayRead
<1> QED
  BY <1>1, MemoryStays, PTL

(* Once the database has served, a start changes neither its rows nor their
   owners.                                                                   *)
THEOREM StartsKeepRows == Spec => StartsKeep
<1>1. MemoryInv /\ [Next]_vars =>
        [served /\ pc # <<"serving">>
           => disk'.rows = disk.rows /\ disk'.private = disk.private]_vars
  <2> SUFFICES ASSUME MemoryInv, Next, served, pc # <<"serving">>
               PROVE  disk'.rows = disk.rows /\ disk'.private = disk.private
    OBVIOUS
  <2>1. CASE Start
    BY <2>1, StartStep DEF Keeps
  <2>2. CASE SyncAll \/ Backfill \/ Crash
    BY <2>2 DEF SyncAll, Backfill, Crash, StartCrash
  <2>3. ASSUME NEW h \in Handlers, Begin(h) \/ Write(h) PROVE FALSE
    <3>1. Place # "serving"
      BY DEF MemoryInv, StatementInv
    <3>2. ~Begin(h)
      BY DEF Begin
    <3>3. ~Write(h)
      BY <3>1, AllIdle DEF Write, Store, GiveUp, ReadScope, ReplaceFile, UpsertVector, Return, At
    <3> QED
      BY <2>3, <3>2, <3>3
  <2> QED
    BY <2>1, <2>2, <2>3 DEF Next
<1> QED
  BY <1>1, MemoryStays, PTL DEF Spec, StartsKeep
=============================================================================
