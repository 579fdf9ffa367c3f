------------------------------ MODULE Database ------------------------------
(***************************************************************************)
(* src/storage/database.c: one table, its .tbl file, its .idx file and the *)
(* table cached in a running process.  Statements run one at a time: the   *)
(* server holds the DbApi mutex around each of them, the REPL has one      *)
(* thread.  The process may be killed between two steps of a statement.    *)
(*                                                                         *)
(* A row is its id and what its line is like; a row's offset is its        *)
(* position in the file.  A line is short, or long (above the 8191 bytes   *)
(* fgets takes at once).  The last line may lack its newline, because an   *)
(* editor dropped it or because an append stopped half way: it is open if  *)
(* it has all columns and cut if it has not.  A row appended behind it is  *)
(* the tail of that line, which is joined from then on.                    *)
(*                                                                         *)
(* Bounds on lines: tables have columns besides the id; the part of a row  *)
(* that reaches the disk goes beyond the id and a comma and fits fgets; a  *)
(* joined line fits it too, unless its tail is long; and an append stops   *)
(* half way only on a line of its own.                                     *)
(*                                                                         *)
(* The B+ tree is the map it implements (module BPlusTree): an             *)
(* index is its map, its header's size and next id, and whether the file   *)
(* is torn, that is, whether a write of the last insert is still missing   *)
(* from it.                                                                *)
(***************************************************************************)
EXTENDS MachineInt, Sequences, FiniteSets, SequencesExt

CONSTANTS InitialRows,     \* content of the .tbl file at the beginning
          ExplicitIds,     \* ids that INSERT statements may name
          AutoId,          \* an INSERT statement that names no id
          Lengths,         \* subset of RowLengths: the rows INSERTs write
          Copies,          \* contents an operator may copy over the .tbl file
          MaxRows,         \* bound: rows in the table
          MaxClock,        \* bound: seconds
          Failures         \* subset of Mishaps, what may happen: the process is
                           \* killed, I/O on the index fails, the disk has no
                           \* room for a row, an editor drops the last newline;
                           \* bound: I/O on each file fails once

Mishaps == {"kill", "idx", "tbl", "edit"}

(* A row that fits the stdio buffer goes out in one write; a wide one fits *)
(* fgets but goes out in several, like a long one.                         *)
RowLengths == {"short", "wide", "long"}

(* What a .tbl file may hold.                                              *)
LineKinds == {"short", "long", "open", "cut", "joined", "tail", "longtail"}
TableRows == Seq([id : Ints, length : LineKinds])

ASSUME DatabaseAssumption ==
    /\ InitialRows \in TableRows
    /\ \A r \in Copies : r \in TableRows
    /\ ExplicitIds \subseteq Ints
    /\ Lengths \subseteq RowLengths
    /\ Failures \subseteq Mishaps
    /\ {MaxRows, MaxClock} \subseteq Nat

VARIABLES rows,            \* the data lines of the .tbl file
          tableTime,       \* st_mtime of the .tbl file, in seconds
          disk,            \* the .idx file as the next process would find it
          written,         \* the .idx file as this process reads it
          indexTime,       \* st_mtime of the .idx file
          clock,           \* the current second
          pc,              \* where the process is; "down": not running
          job,             \* the running statement
          loaded,          \* the table is in database->tables
          index,           \* table->index of the loaded table: header in memory
          nextId,          \* table->next_id
          rowCount,        \* table->row_count
          acked,           \* history: ids whose INSERT was acknowledged
          failed           \* history: the kinds of mishap that have happened

fileVars == <<rows, tableTime, disk, indexTime>>
tableVars == <<loaded, written, index, nextId, rowCount>>
history == <<acked, failed>>
vars == <<fileVars, clock, pc, job, tableVars, history>>

Row(id, length) == [id |-> id, length |-> length]
Index(map, size, next, torn) == [map |-> map, size |-> size, nextId |-> next, torn |-> torn]
EmptyMap == [k \in {} |-> 0]
EmptyIndex == Index(EmptyMap, 0, 1, FALSE)
Job(kind, id, length) == [kind |-> kind, id |-> id, length |-> length, offset |-> 0]
NoJob == Job("none", AutoId, "short")

Init ==
    /\ rows = InitialRows
    /\ tableTime = 0
    /\ disk = EmptyIndex
    /\ indexTime = 0
    /\ clock = 0
    /\ pc = "down"
    /\ job = NoJob
    /\ loaded = FALSE
    /\ written = EmptyIndex
    /\ index = EmptyIndex
    /\ nextId = 1
    /\ rowCount = 0
    /\ acked = {}
    /\ failed = {}

-----------------------------------------------------------------------------
(* Reading the .tbl file                                                   *)

IdsOf(r) == {r[i].id : i \in DOMAIN r}

RowsLike(r, lengths) == {i \in DOMAIN r : r[i].length \in lengths}

(* count_table_rows counts lines, not rows: fgets into 8192 bytes returns  *)
(* a long line in two pieces, and a tail begins no line.                   *)
CountTableRows(r) ==
    Len(r) + Cardinality(RowsLike(r, {"long", "longtail"}))
           - Cardinality(RowsLike(r, {"tail", "longtail"}))

(* build_index stops at the first line it cannot index: the second piece   *)
(* of a long line, a cut line and a joined line have the wrong number of   *)
(* columns, and a repeated id is refused by bptree_insert.                 *)
Indexable(r, i) ==
    /\ r[i].length \in {"short", "open"}
    /\ \A j \in 1 .. i - 1 : r[j].id # r[i].id

BuildSucceeds(r) == \A i \in DOMAIN r : Indexable(r, i)

PositionOf(r, id) == CHOOSE i \in DOMAIN r : r[i].id = id
Positions(r) == [k \in IdsOf(r) |-> PositionOf(r, k)]

(* next_id after the ids of r were inserted into an empty tree.            *)
NextIdOf(r) ==
    LET next[i \in 0 .. Len(r)] ==
          IF i = 0 THEN 1 ELSE NextIdAfter(next[i - 1], r[i].id)
    IN  next[Len(r)]

BuiltIndex(r) == Index(Positions(r), Len(r), NextIdOf(r), FALSE)

(* The file of an index whose last header write is still buffered: the     *)
(* header it had before.                                                   *)
Unsettled(ix, before) == Index(ix.map, before.size, before.nextId, TRUE)

(* fseek or fclose on the index file writes out what is buffered.          *)
Settle ==
    /\ disk' = written
    /\ indexTime' = IF disk = written THEN indexTime ELSE clock

-----------------------------------------------------------------------------
(* The process                                                             *)

(* database_init: no table is loaded.                                      *)
Start ==
    /\ pc = "down"
    /\ pc' = "idle"
    /\ loaded' = FALSE
    /\ UNCHANGED <<fileVars, clock, job, written, index, nextId, rowCount, history>>

(* database_free closes the index files.                                   *)
Quit ==
    /\ pc = "idle"
    /\ pc' = "down"
    /\ loaded' = FALSE
    /\ IF loaded THEN Settle ELSE UNCHANGED <<disk, indexTime>>
    /\ UNCHANGED <<rows, tableTime, clock, job, written, index, nextId, rowCount, history>>

(* The process is killed: stdio buffers are lost.  In the middle of        *)
(* bptree_insert some of its writes may have reached the file.             *)
Kill ==
    /\ "kill" \in Failures
    /\ pc # "down"
    /\ failed' = failed \cup {"kill"}
    /\ pc' = "down"
    /\ loaded' = FALSE
    /\ \/ disk' = disk
       \/ pc = "append" /\ disk' = [disk EXCEPT !.torn = TRUE]
    /\ UNCHANGED <<rows, tableTime, indexTime, clock, job, written, index, nextId, rowCount, acked>>

(* A second passes.                                                        *)
Tick ==
    /\ clock < MaxClock
    /\ clock' = clock + 1
    /\ UNCHANGED <<fileVars, pc, job, tableVars, history>>

(* With no process running, another data file is copied over the table,    *)
(* now or with the time stamp it had (cp -p, git, tar).                    *)
CopyTable(r, time) ==
    /\ pc = "down"
    /\ rows' = r
    /\ tableTime' = time
    /\ failed' = failed \cup {"copy"}
    /\ UNCHANGED <<disk, indexTime, clock, pc, job, tableVars, acked>>

(* With no process running, an editor saves the table without the newline  *)
(* of its last line.                                                       *)
EditTable ==
    /\ "edit" \in Failures
    /\ pc = "down"
    /\ Len(rows) \in RowsLike(rows, {"short"})
    /\ rows' = Append(Front(rows), Row(Last(rows).id, "open"))
    /\ tableTime' = clock
    /\ failed' = failed \cup {"edit"}
    /\ UNCHANGED <<disk, indexTime, clock, pc, job, tableVars, acked>>

-----------------------------------------------------------------------------
(* load_table                                                              *)

Request(kind, id, length) ==
    /\ pc = "idle"
    /\ pc' = "load"
    /\ job' = Job(kind, id, length)
    /\ UNCHANGED <<fileVars, clock, tableVars, history>>

(* The table is cached.                                                    *)
LoadCached ==
    /\ pc = "load"
    /\ loaded
    /\ pc' = "execute"
    /\ UNCHANGED <<fileVars, clock, job, tableVars, history>>

(* Mutants: the rebuild decision without the row count, and without the    *)
(* row count and the time.                                                 *)
ShouldRebuildByTime == disk.size = 0 \/ tableTime > indexTime
ShouldRebuildOnlyEmpty == disk.size = 0

(* should_rebuild_index.                                                   *)
ShouldRebuild ==
    \/ disk.size = 0
    \/ disk.size # CountTableRows(rows)
    \/ tableTime > indexTime

(* The index file is taken as it is.                                       *)
LoadKeep ==
    /\ pc = "load"
    /\ ~loaded
    /\ ~ShouldRebuild
    /\ loaded' = TRUE
    /\ written' = disk
    /\ index' = disk
    /\ nextId' = disk.nextId
    /\ rowCount' = CountTableRows(rows)
    /\ pc' = "execute"
    /\ UNCHANGED <<fileVars, clock, job, history>>

(* rebuild_index: a new index file from all rows.                          *)
LoadRebuild ==
    /\ pc = "load"
    /\ ~loaded
    /\ ShouldRebuild
    /\ BuildSucceeds(rows)
    /\ loaded' = TRUE
    /\ index' = BuiltIndex(rows)
    /\ written' = index'
    /\ nextId' = index'.nextId
    /\ rowCount' = index'.size
    /\ disk' = IF rows = <<>> THEN index'
               ELSE Unsettled(index', BuiltIndex(Front(rows)))
    /\ indexTime' = clock
    /\ pc' = "execute"
    /\ UNCHANGED <<rows, tableTime, clock, job, history>>

(* A line that cannot be indexed: the table is not loaded, and the index   *)
(* file holds the lines before it, and the first piece of a long line if   *)
(* that piece happens to have all columns.                                 *)
LoadFails ==
    /\ pc = "load"
    /\ ~loaded
    /\ ShouldRebuild
    /\ \E bad \in DOMAIN rows :
          /\ ~Indexable(rows, bad)
          /\ \A i \in 1 .. bad - 1 : Indexable(rows, i)
          /\ \/ disk' = BuiltIndex(SubSeq(rows, 1, bad - 1))
             \/ /\ rows[bad].length = "long"
                /\ \A i \in 1 .. bad - 1 : rows[i].id # rows[bad].id
                /\ disk' = BuiltIndex(SubSeq(rows, 1, bad))
    /\ indexTime' = clock
    /\ pc' = "idle"
    /\ job' = NoJob
    /\ UNCHANGED <<rows, tableTime, clock, tableVars, history>>

(* A path too long, no memory, no such file, no id column: an error reply. *)
LoadRefused ==
    /\ pc = "load"
    /\ ~loaded
    /\ pc' = "idle"
    /\ job' = NoJob
    /\ UNCHANGED <<fileVars, clock, tableVars, history>>

(* Killed inside rebuild_index: the new file counts fewer rows.            *)
KillDuringRebuild(n) ==
    /\ "kill" \in Failures
    /\ pc = "load"
    /\ ~loaded
    /\ ShouldRebuild
    /\ n < Len(rows)
    /\ disk' = Index(EmptyMap, n, 1, TRUE)
    /\ indexTime' = clock
    /\ failed' = failed \cup {"kill"}
    /\ pc' = "down"
    /\ UNCHANGED <<rows, tableTime, clock, job, tableVars, acked>>

-----------------------------------------------------------------------------
(* database_execute_select                                                 *)

(* One entry for every row returned: its id and its place.                 *)
Answer(ok, found) == [ok |-> ok, found |-> found]

(* WHERE id op k through the index: the lines at the stored offsets of the *)
(* matching keys, whatever the ids in them.  A line above the buffer is    *)
(* not returned as it was written; a cut line, a joined line and an offset *)
(* behind the end of the file are errors.                                  *)
IndexedSelect(op, k) ==
    LET visited == {j \in DOMAIN index.map : Holds(op, j, k)}
    IN  IF \A j \in visited : index.map[j] \in RowsLike(rows, {"short", "open", "tail"})
        THEN Answer(TRUE, {<<j, index.map[j]>> : j \in visited}) ELSE Answer(FALSE, {})

(* The same by execute_linear_select, which compares every line's id and   *)
(* fails on the second piece of a long line, on a cut line and on a joined *)
(* one.                                                                    *)
LinearSelect(op, k) ==
    IF RowsLike(rows, {"long", "cut", "joined"}) # {} THEN Answer(FALSE, {})
    ELSE Answer(TRUE, {<<rows[i].id, i>> : i \in {j \in DOMAIN rows : Holds(op, rows[j].id, k)}})

(* Reading pages of the index seeks in its file; a scan leaves it alone.   *)
ExecuteSelect ==
    /\ pc = "execute"
    /\ \/ job.kind = "select" /\ Settle
       \/ job.kind = "scan" /\ UNCHANGED <<disk, indexTime>>
    /\ pc' = "idle"
    /\ job' = NoJob
    /\ UNCHANGED <<rows, tableTime, clock, tableVars, history>>

-----------------------------------------------------------------------------
(* database_execute_insert                                                 *)

(* build_insert_row: an id the statement names, or next_id.                *)
InsertId == IF job.id = AutoId THEN nextId ELSE job.id

(* Wrong columns (before the search for duplicates), a value the format    *)
(* cannot hold or a table file that cannot be opened (after it): an error  *)
(* reply and no change.                                                    *)
InsertRefused ==
    /\ pc = "execute"
    /\ job.kind = "insert"
    /\ \/ UNCHANGED <<disk, indexTime>>
       \/ InsertId \notin DOMAIN index.map /\ Settle
    /\ pc' = "idle"
    /\ job' = NoJob
    /\ UNCHANGED <<rows, tableTime, clock, tableVars, history>>

(* bptree_search finds the id: an error reply.                             *)
InsertDuplicate ==
    /\ pc = "execute"
    /\ job.kind = "insert"
    /\ InsertId \in DOMAIN index.map
    /\ Settle
    /\ pc' = "idle"
    /\ job' = NoJob
    /\ UNCHANGED <<rows, tableTime, clock, tableVars, history>>

(* A read or write of file f fails.                                        *)
Fault(f) ==
    /\ f \in Failures \ failed
    /\ failed' = failed \cup {f}

(* The last line has no newline.                                           *)
Unfinished == Len(rows) \in RowsLike(rows, {"open", "cut"})

RowsWith(id, length) ==
    IF Unfinished
    THEN Front(rows) \o <<Row(Last(rows).id, "joined"),
                          Row(id, IF length = "long" THEN "longtail" ELSE "tail")>>
    ELSE Append(rows, Row(id, IF length = "long" THEN "long" ELSE "short"))

(* Mutant: the offset comes from the row count, not from the file's end.   *)
AppendRowAtCount ==
    /\ rows' = RowsWith(InsertId, job.length)
    /\ tableTime' = clock
    /\ job' = [job EXCEPT !.offset = rowCount + 1]

(* The row goes to the end of the file, behind an unfinished line or on a  *)
(* line of its own; the offset of the end is kept for the index.           *)
AppendRow ==
    /\ rows' = RowsWith(InsertId, job.length)
    /\ tableTime' = clock
    /\ job' = [job EXCEPT !.offset = Len(rows) + 1]

(* Only a part of the row goes there, some columns or all.                 *)
AppendPart ==
    /\ ~Unfinished
    /\ \E kind \in {"cut", "open"} : rows' = Append(rows, Row(InsertId, kind))
    /\ tableTime' = clock

(* Mutant: no search for a duplicate.                                      *)
InsertAppendUnchecked ==
    /\ pc = "execute"
    /\ job.kind = "insert"
    /\ Settle
    /\ AppendRow
    /\ pc' = "append"
    /\ UNCHANGED <<clock, tableVars, history>>

(* It does not, or a failed read looks the same (bptree_search returns 0  *)
(* for both): the row is appended to the .tbl file, which is closed.       *)
InsertAppend ==
    /\ pc = "execute"
    /\ job.kind = "insert"
    /\ \/ InsertId \notin DOMAIN index.map /\ failed' = failed
       \/ InsertId \in DOMAIN index.map /\ Fault("idx")
    /\ Settle
    /\ AppendRow
    /\ pc' = "append"
    /\ UNCHANGED <<clock, tableVars, acked>>

(* No room for the row: fputs, fputc or fclose fails, nobody looks at what *)
(* they return, and the statement goes on without the row or with a part   *)
(* of it in the file.                                                      *)
InsertAppendFails ==
    /\ pc = "execute"
    /\ job.kind = "insert"
    /\ InsertId \notin DOMAIN index.map
    /\ Fault("tbl")
    /\ Settle
    /\ UNCHANGED <<rows, tableTime>> \/ AppendPart
    /\ job' = [job EXCEPT !.offset = Len(rows) + 1]
    /\ pc' = "append"
    /\ UNCHANGED <<clock, tableVars, acked>>

(* Killed between two of the writes that a row above the stdio buffer      *)
(* takes.                                                                  *)
KillDuringAppend ==
    /\ "kill" \in Failures
    /\ pc = "execute"
    /\ job.kind = "insert"
    /\ job.length \in {"wide", "long"}
    /\ InsertId \notin DOMAIN index.map
    /\ Settle
    /\ AppendPart
    /\ failed' = failed \cup {"kill"}
    /\ pc' = "down"
    /\ loaded' = FALSE
    /\ UNCHANGED <<clock, job, written, index, nextId, rowCount, acked>>

(* Mutants: the offset of the row before, and a key that is only counted.  *)
ExtendedOffByOne ==
    LET id == InsertId
        map == [k \in DOMAIN index.map \cup {id} |->
                   IF k = id THEN job.offset - 1 ELSE index.map[k]]
    IN  Index(map, index.size + 1, NextIdAfter(index.nextId, id), FALSE)

ExtendedWithoutEntry ==
    Index(index.map, index.size + 1, NextIdAfter(index.nextId, InsertId), FALSE)

(* The index with the appended row.                                        *)
Extended ==
    LET id == InsertId
        map == [k \in DOMAIN index.map \cup {id} |->
                   IF k = id THEN job.offset ELSE index.map[k]]
    IN  Index(map, index.size + 1, NextIdAfter(index.nextId, id), FALSE)

(* bptree_insert, the counters and the acknowledgement.                    *)
InsertIndex ==
    /\ pc = "append"
    /\ InsertId \notin DOMAIN index.map
    /\ index' = Extended
    /\ written' = index'
    /\ nextId' = NextIdAfter(nextId, InsertId)
    /\ acked' = acked \cup {InsertId}
    /\ rowCount' = rowCount + 1
    /\ disk' = Unsettled(index', written)
    /\ indexTime' = clock
    /\ pc' = "idle"
    /\ job' = NoJob
    /\ UNCHANGED <<rows, tableTime, clock, loaded, failed>>

(* bptree_insert finds the id the search missed: an error reply, although  *)
(* the row is in the file.                                                 *)
InsertIndexDuplicate ==
    /\ pc = "append"
    /\ InsertId \in DOMAIN index.map
    /\ pc' = "idle"
    /\ job' = NoJob
    /\ UNCHANGED <<fileVars, clock, tableVars, history>>

(* bptree_insert fails on a write: an error reply, although the row is in  *)
(* the file.  The header in the file stays as it was.  Either the last     *)
(* write_header fails, or the leaf write that its seek flushes: the header *)
(* in memory already counts the key.  Or an earlier write of a split does: *)
(* the key is not counted and entries of the split nodes may be lost.      *)
InsertIndexFails ==
    /\ pc = "append"
    /\ InsertId \notin DOMAIN index.map
    /\ Fault("idx")
    /\ \/ \E kept \in {DOMAIN index.map, DOMAIN Extended.map} :
             index' = [Extended EXCEPT !.map = Restrict(@, kept)]
       \/ \E kept \in SUBSET DOMAIN Extended.map :
             index' = [index EXCEPT !.map = Restrict(Extended.map, kept)]
    /\ written' = Index(index'.map, written.size, written.nextId, index'.torn)
    /\ disk' = Unsettled(index', written)
    /\ indexTime' = clock
    /\ pc' = "idle"
    /\ job' = NoJob
    /\ UNCHANGED <<rows, tableTime, clock, loaded, nextId, rowCount, acked>>

-----------------------------------------------------------------------------
Next ==
    \/ Start
    \/ Quit
    \/ Kill
    \/ Tick
    \/ \E r \in Copies : \E time \in {0, clock} : CopyTable(r, time)
    \/ EditTable
    \/ \E kind \in {"select", "scan"} : Request(kind, AutoId, "short")
    \/ \E id \in ExplicitIds \cup {AutoId} : \E length \in Lengths :
          Len(rows) < MaxRows /\ Request("insert", id, length)
    \/ LoadCached
    \/ LoadKeep
    \/ LoadRebuild
    \/ LoadFails
    \/ LoadRefused
    \/ \E n \in 0 .. MaxRows : KillDuringRebuild(n)
    \/ ExecuteSelect
    \/ InsertRefused
    \/ InsertDuplicate
    \/ InsertAppend
    \/ InsertAppendFails
    \/ KillDuringAppend
    \/ InsertIndex
    \/ InsertIndexDuplicate
    \/ InsertIndexFails

Spec == Init /\ [][Next]_vars
-----------------------------------------------------------------------------
(* Properties                                                              *)

(* Every variable has its type; the fields of DatabaseTable and Database   *)
(* (database.c 56-66).                                                     *)
IndexTyped(ix) ==
    /\ ix = Index(ix.map, ix.size, ix.nextId, ix.torn)
    /\ DOMAIN ix.map \subseteq Ints
    /\ ix.size \in Nat
    /\ ix.nextId \in Ints
    /\ ix.torn \in BOOLEAN

TypeOK ==
    /\ rows \in TableRows
    /\ {tableTime, indexTime, clock} \subseteq 0 .. MaxClock
    /\ pc \in {"down", "idle", "load", "execute", "append"}
    /\ job \in [kind : {"none", "select", "scan", "insert"}, id : ExplicitIds \cup {AutoId},
                length : RowLengths, offset : Nat]
    /\ loaded \in BOOLEAN
    /\ IndexTyped(disk) /\ IndexTyped(written) /\ IndexTyped(index)
    /\ nextId \in Ints
    /\ rowCount \in Nat
    /\ acked \subseteq Ints
    /\ failed \subseteq Failures \cup {"copy"}

Ready == loaded /\ pc \in {"idle", "execute"}

(* Between statements a SELECT through the index returns the same rows as  *)
(* a scan of the table, for every comparison with every id, after any      *)
(* sequence of inserts, kills and restarts (database.c 702-753, 761-831).  *)
IndexAnswersLikeScan ==
    Ready => \A op \in Ops : \A k \in Ints : IndexedSelect(op, k) = LinearSelect(op, k)

PointsRight(map, r) == \A k \in DOMAIN map : map[k] \in DOMAIN r /\ r[map[k]].id = k
RightFor(map, r) == DOMAIN map = IdsOf(r) /\ PointsRight(map, r)

(* An index file that the next process would take as it is (its size is    *)
(* the number of rows and the table is not newer, database.c 487-489) is   *)
(* complete: it holds every row at its place and no other, wherever the    *)
(* previous process was killed.                                            *)
TrustedIndexIsRight ==
    pc = "down" /\ ~ShouldRebuild => ~disk.torn /\ RightFor(disk.map, rows)

(* The .tbl file can always be indexed again: no id is in it twice, also   *)
(* after next_id wrapped, so rebuild_index never refuses a table whose     *)
(* rows this program wrote in one piece (database.c 320-323).              *)
TableStaysLoadable == BuildSucceeds(rows)

(* The id that the next INSERT without an id will be given is not taken,   *)
(* until some row has the largest id (database.c 940-1042, 1126-1128).     *)
AutoIdIsFree ==
    Ready /\ MaxInt \notin DOMAIN index.map => nextId \notin DOMAIN index.map

(* A row whose INSERT was acknowledged is found by SELECT ... WHERE id,    *)
(* in this process and in every later one.                                 *)
AckedRowIsFound ==
    Ready => \A k \in acked : IndexedSelect("=", k).ok /\ IndexedSelect("=", k).found # {}

(* Even after failed reads and writes of the index it never leads to a row *)
(* of another id (index_visit_callback ignores the key, database.c 659),   *)
(* nor does it when the first INSERT went behind a line without a newline. *)
(* A failed append is another matter: the next row may take the place of   *)
(* the lost one, and its offset.                                           *)
IndexNeverPointsWrong ==
    Ready /\ "tbl" \notin failed => PointsRight(index.map, rows)

(* An append that fails, wholly or half way, costs no other row, nor does  *)
(* a row too long for fgets: each row that is on a line of its own is      *)
(* found by its id, in this process and in later ones that start after it  *)
(* ended cleanly, whether they trust the index or build it again           *)
(* (database.c 345-366, 487-489, 1101-1120).                               *)
WholeRowsAreFound ==
    failed \subseteq {"tbl"} /\ Ready =>
        \A i \in RowsLike(rows, {"short"}) :
            IndexedSelect("=", rows[i].id) = Answer(TRUE, {<<rows[i].id, i>>})

-----------------------------------------------------------------------------
(* The inductive invariants behind the last two properties                 *)

(* As long as every append took place and nobody copied another file over  *)
(* the table, every entry of the index leads to a row of its id, in        *)
(* memory, in the buffers and in the file; and between the append and the  *)
(* insertion the offset that was kept is that of the new row.              *)
PlacesRight ==
    failed \cap {"tbl", "copy"} = {} =>
        /\ PointsRight(disk.map, rows)
        /\ PointsRight(written.map, rows)
        /\ PointsRight(index.map, rows)
        /\ pc = "append" => job.offset \in DOMAIN rows /\ rows[job.offset].id = InsertId

(* The entries of the rows on lines of their own, all of them or all but   *)
(* that of the new row.                                                    *)
ServesShort(map, r) ==
    \A i \in RowsLike(r, {"short"}) : r[i].id \in DOMAIN map /\ map[r[i].id] = i
ServesShortSoon(map, r, id, offset) ==
    /\ id \notin DOMAIN map
    /\ \A i \in RowsLike(r, {"short"}) :
          IF r[i].id = id THEN i = offset ELSE r[i].id \in DOMAIN map /\ map[r[i].id] = i

(* As long as at most an append has gone wrong, the index in memory has    *)
(* these entries, and so has a file with as many keys as the table has     *)
(* lines, even one a failed rebuild left.                                  *)
ShortRowsServed ==
    failed \subseteq {"tbl"} =>
        /\ pc = "down" => ~loaded
        /\ pc \in {"execute", "append"} => loaded
        /\ ~loaded /\ disk.size = CountTableRows(rows) /\ disk.size # 0 =>
              ServesShort(disk.map, rows)
        /\ loaded => written = index
        /\ loaded /\ pc # "append" => ServesShort(index.map, rows)
        /\ pc = "append" => ServesShortSoon(index.map, rows, InsertId, job.offset)

FaultInv == TypeOK /\ PlacesRight /\ ShortRowsServed
=============================================================================
