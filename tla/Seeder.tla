------------------------------- MODULE Seeder -------------------------------
(***************************************************************************)
(* src/apps/seed_main.c beside the shell or server of module Database: the *)
(* seeder makes the table anew or continues one that an earlier run left   *)
(* behind, then inserts rows without ids until there are as many as asked  *)
(* for.  Its statements run through the engine like any other.  It is not  *)
(* run while another process uses the table.                               *)
(***************************************************************************)
EXTENDS Database

CONSTANTS Targets,         \* values of --rows
          NoSeed           \* no seeder is running

ASSUME SeederAssumption ==
    /\ Targets \subseteq 1 .. MaxRows
    /\ Targets \subseteq Ints
    /\ Copies = {}
    /\ NoSeed \notin [next : Nat, target : Nat]

VARIABLES seeder,          \* index and rows of main, or NoSeed
          tableFile,       \* "none", "empty" (no header line), or "table"
          mixed            \* history: someone else wrote a row of this table

seedVars == <<seeder, tableFile, mixed>>

SeederInit ==
    /\ Init
    /\ seeder = NoSeed
    /\ tableFile = "table"
    /\ mixed = TRUE

-----------------------------------------------------------------------------
(* Before the first statement                                              *)

(* fopen(..., "wb") leaves an empty index file.                            *)
ResetIndexFile ==
    /\ disk' = EmptyIndex
    /\ indexTime' = clock

RunFrom(first, target) ==
    /\ seeder' = [next |-> first, target |-> target]
    /\ pc' = "idle"
    /\ loaded' = FALSE

(* prepare_table: both files are removed, then made again.                 *)
PrepareTable ==
    /\ rows' = <<>>
    /\ tableTime' = clock
    /\ ResetIndexFile
    /\ acked' = {}
    /\ mixed' = FALSE

Idle == pc = "down" /\ seeder = NoSeed

(* A new table, or --resume with no table file.                            *)
SeedFresh(target) ==
    /\ Idle
    /\ PrepareTable
    /\ tableFile' = "table"
    /\ RunFrom(1, target)
    /\ UNCHANGED <<clock, job, written, index, nextId, rowCount, failed>>

(* Killed inside prepare_table, or a file cannot be made: the table file is*)
(* gone, or there but without its header line.                             *)
KillDuringPrepare ==
    /\ "kill" \in Failures
    /\ Idle
    /\ PrepareTable
    /\ tableFile' \in {"none", "empty"}
    /\ failed' = failed \cup {"kill"}
    /\ UNCHANGED <<clock, pc, job, loaded, written, index, nextId, rowCount, seeder>>

(* Mutant: the header line is counted as a row.                            *)
CountExistingRowsAndHeader == CountTableRows(rows) + 1

(* count_existing_rows: the lines of the file without the header line.     *)
CountExistingRows == CountTableRows(rows)

(* --resume with a table file: the index file is emptied, also if there    *)
(* turns out to be nothing to do.                                          *)
SeedResume(target) ==
    /\ Idle
    /\ tableFile # "none"
    /\ ResetIndexFile
    /\ IF CountExistingRows >= target
       THEN UNCHANGED <<pc, loaded, seeder>>
       ELSE RunFrom(CountExistingRows + 1, target)
    /\ UNCHANGED <<rows, tableTime, clock, job, written, index, nextId, rowCount, history,
                   tableFile, mixed>>

-----------------------------------------------------------------------------
(* The loop                                                                *)

(* load_schema refuses a file without a header line, and there is nothing  *)
(* to open without a file.                                                 *)
LoadsTable == pc = "load" /\ ~loaded /\ pc' = "execute" => tableFile = "table"

Seeding == seeder # NoSeed

(* One INSERT without an id.                                               *)
SeedInsert ==
    /\ Seeding
    /\ seeder.next <= seeder.target
    /\ Request("insert", AutoId, "short")
    /\ UNCHANGED seedVars

(* A step of that statement, or a kill: the loop goes on after a success,  *)
(* which counts the row, and ends at the first failure.                    *)
SeedStep ==
    /\ Seeding
    /\ pc # "idle"
    /\ Next
    /\ LoadsTable
    /\ seeder' = CASE pc' = "down" -> NoSeed
                   [] pc' = "idle" /\ rowCount' # rowCount + 1 -> [seeder EXCEPT !.target = 0]
                   [] pc' = "idle" /\ rowCount' = rowCount + 1 -> [seeder EXCEPT !.next = @ + 1]
                   [] OTHER -> seeder
    /\ UNCHANGED <<tableFile, mixed>>

(* All rows inserted, or an error: sql_engine_free.                        *)
SeedEnds ==
    /\ Seeding
    /\ seeder.next > seeder.target
    /\ Quit
    /\ seeder' = NoSeed
    /\ UNCHANGED <<tableFile, mixed>>

(* Killed between two statements.                                          *)
SeedKilled ==
    /\ Seeding
    /\ pc = "idle"
    /\ Kill
    /\ seeder' = NoSeed
    /\ UNCHANGED <<tableFile, mixed>>

(* Another process of this program, or none.                               *)
OtherStep ==
    /\ ~Seeding
    /\ Next
    /\ LoadsTable
    /\ mixed' = (mixed \/ rows' # rows)
    /\ UNCHANGED <<seeder, tableFile>>

SeederNext ==
    \/ \E target \in Targets : SeedFresh(target) \/ SeedResume(target)
    \/ KillDuringPrepare
    \/ SeedInsert
    \/ SeedStep
    \/ SeedEnds
    \/ SeedKilled
    \/ OtherStep

SeederSpec == SeederInit /\ [][SeederNext]_<<vars, seedVars>>

-----------------------------------------------------------------------------
(* Properties                                                              *)

(* In a table that only the seeder wrote, in however many runs that were   *)
(* killed anywhere and resumed, the id of a row is its number, so that the *)
(* special row has the id it is announced with (seed_main.c 254-264, 288), *)
(* and the loop's index is the number of the row it inserts next.          *)
SeededIdsAreRowNumbers ==
    ~mixed => /\ \A i \in DOMAIN rows : rows[i].id = i
              /\ Seeding /\ pc = "idle" /\ seeder.target # 0 => seeder.next = Len(rows) + 1

-----------------------------------------------------------------------------
(* The inductive invariant behind the properties of an undisturbed table   *)

(* The process may be killed, but every row was written by this program    *)
(* and fits fgets, and reads and writes succeed.                           *)
ShortRows == Seq([id : Ints, length : {"short"}])

Undisturbed ==
    /\ Failures \subseteq {"kill"}
    /\ Lengths \subseteq {"short"}
    /\ InitialRows \in ShortRows
    /\ BuildSucceeds(InitialRows)

RowsRight ==
    /\ rows \in ShortRows
    /\ BuildSucceeds(rows)
    /\ acked \subseteq IdsOf(rows)

(* An index file that counts every row is the index of these rows.         *)
DiskRight == disk.size = Len(rows) => disk = BuiltIndex(rows)

JobTyped ==
    job \in [kind : {"none", "select", "scan", "insert"}, id : ExplicitIds \cup {AutoId},
             length : {"short"}, offset : Nat]

(* Where the process is, and what the loaded table has to do with the rows.*)
ProcessState ==
    /\ pc \in {"down", "idle", "load", "execute", "append"}
    /\ loaded \in BOOLEAN /\ rowCount \in Nat
    /\ pc = "down" => ~loaded
    /\ pc \in {"execute", "append"} => loaded
    /\ loaded => written = index /\ nextId = index.nextId
    /\ loaded /\ pc # "append" => index = BuiltIndex(rows) /\ rowCount = Len(rows)

(* Between the append and the insertion: the index lacks the last row.     *)
AppendState ==
    pc = "append" =>
        /\ rows # <<>>
        /\ index = BuiltIndex(Front(rows))
        /\ rowCount = Len(rows) - 1
        /\ disk = index
        /\ Last(rows).id = InsertId
        /\ job.offset = Len(rows)

SeedState ==
    /\ mixed \in BOOLEAN
    /\ Seeding => /\ seeder \in [next : Nat \ {0}, target : Targets \cup {0}]
                  /\ pc # "down"
                  /\ pc # "idle" => /\ job.kind = "insert"
                                    /\ job.id = AutoId
                                    /\ seeder.next <= seeder.target
    /\ ~mixed => /\ \A i \in DOMAIN rows : rows[i].id = i
                 /\ Seeding /\ seeder.target # 0 =>
                       seeder.next = IF pc = "append" THEN Len(rows) ELSE Len(rows) + 1

TableInv == RowsRight /\ DiskRight /\ JobTyped /\ ProcessState /\ AppendState
SeederInv == TableInv /\ SeedState
=============================================================================
