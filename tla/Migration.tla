---- MODULE Migration ----
(***************************************************************************)
(* database/migrate.py: runs of the migration script, one after the other, *)
(* after one another's crashes or at once, on one database.                *)
(*                                                                         *)
(* The connection is in autocommit mode: the CREATE TABLE, a whole file    *)
(* and the INSERT of its name are transactions of their own.  A lost       *)
(* connection (OperationalError) may hide that the statement was executed; *)
(* the script then starts again from the first file.  Any other exception  *)
(* ends it.  The files can be executed again (IF NOT EXISTS, OR REPLACE).  *)
(***************************************************************************)
EXTENDS Naturals

CONSTANTS
    Runners,    \* runs of python -m database.migrate
    NumFiles,   \* migration files (3 in the code)
    Retries     \* most attempts of a run (5 in the code)

ASSUME NumFilesNat == NumFiles \in Nat
ASSUME RetriesNat == Retries \in Nat \ {0}

\* sorted(MIGRATIONS_DIR.glob("*.sql")), by position
Files == 1..NumFiles

VARIABLES
    applied,    \* the files whose statements the database has executed
    recorded,   \* the versions in schema_migrations; none before it exists
    runner      \* runner[r]: the local variables of a run

migrationVars == <<applied, recorded, runner>>

Working == {"connecting", "looking", "applying", "recording"}

\* The for loop goes on with the next file, or ends.
NextFile(r) ==
    IF runner[r].file < NumFiles
    THEN [runner[r] EXCEPT !.pc = "looking", !.file = @ + 1]
    ELSE [runner[r] EXCEPT !.pc = "done"]

\* Connect, and CREATE TABLE IF NOT EXISTS schema_migrations.
Connect(r) ==
    /\ runner[r].pc = "connecting"
    /\ runner' = [runner EXCEPT ![r] = NextFile(r)]
    /\ UNCHANGED <<applied, recorded>>

\* SELECT 1 FROM schema_migrations WHERE version = ...
Look(r) ==
    /\ runner[r].pc = "looking"
    /\ runner' = [runner EXCEPT ![r] = IF @.file \in recorded THEN NextFile(r)
                                       ELSE [@ EXCEPT !.pc = "applying"]]
    /\ UNCHANGED <<applied, recorded>>

\* The whole file, one implicit transaction.
Apply(r) ==
    /\ runner[r].pc = "applying"
    /\ applied' = applied \cup {runner[r].file}
    /\ runner' = [runner EXCEPT ![r].pc = "recording"]
    /\ UNCHANGED recorded

\* INSERT INTO schema_migrations: a version that another run has recorded by
\* now violates the primary key.
Record(r) ==
    /\ runner[r].pc = "recording"
    /\ recorded' = recorded \cup {runner[r].file}
    /\ runner' = [runner EXCEPT ![r] = IF @.file \in recorded THEN [@ EXCEPT !.pc = "raised"]
                                       ELSE NextFile(r)]
    /\ UNCHANGED applied

\* The effect of the statement that r is executing.
Executed(r) ==
    /\ applied' = IF runner[r].pc = "applying" THEN applied \cup {runner[r].file} ELSE applied
    /\ recorded' = IF runner[r].pc = "recording" THEN recorded \cup {runner[r].file} ELSE recorded

\* Mutant: a retry goes on with the next file.
RestartedNext(r) ==
    IF runner[r].attempt < Retries
    THEN [runner[r] EXCEPT !.pc = "connecting", !.attempt = @ + 1]
    ELSE [runner[r] EXCEPT !.pc = "exited"]

\* The next attempt, or sys.exit(1) after the last.
Restarted(r) ==
    IF runner[r].attempt < Retries
    THEN [pc |-> "connecting", file |-> 0, attempt |-> runner[r].attempt + 1]
    ELSE [runner[r] EXCEPT !.pc = "exited"]

\* except psycopg2.OperationalError: the statement was executed, or it was not.
LoseConnection(r) ==
    /\ runner[r].pc \in Working
    /\ Executed(r) \/ UNCHANGED <<applied, recorded>>
    /\ runner' = [runner EXCEPT ![r] = Restarted(r)]

\* Another exception (two CREATE TABLE at once, a file that cannot be executed
\* while another run executes it), or the end of the process.
Raise(r) ==
    /\ runner[r].pc \in Working
    /\ runner' = [runner EXCEPT ![r].pc = "raised"]
    /\ UNCHANGED <<applied, recorded>>

MigrationInit ==
    /\ applied = {}
    /\ recorded = {}
    /\ runner = [r \in Runners |-> [pc |-> "connecting", file |-> 0, attempt |-> 1]]

MigrationNext ==
    \/ \E r \in Runners : Connect(r)
    \/ \E r \in Runners : Look(r)
    \/ \E r \in Runners : Apply(r)
    \/ \E r \in Runners : Record(r)
    \/ \E r \in Runners : LoseConnection(r)
    \/ \E r \in Runners : Raise(r)

MigrationSpec == MigrationInit /\ [][MigrationNext]_migrationVars

----------------------------------------------------------------------------
(* Properties *)

RunState == [pc : Working \cup {"done", "exited", "raised"},
             file : 0..NumFiles, attempt : 1..Retries]

MigrationTypeOK ==
    /\ applied \subseteq Files
    /\ recorded \subseteq Files
    /\ runner \in [Runners -> RunState]

(***************************************************************************)
(* The schema is built in order, and the record of it can be trusted: what *)
(* is recorded was executed, a file is executed only when all before it    *)
(* are recorded, and a run that ends well leaves none out.  Runs that      *)
(* overlap, crash between a file and its record, or lose an answer and     *)
(* start again do not change that; at worst a file is executed again.      *)
(***************************************************************************)
SchemaInOrder ==
    /\ recorded \subseteq applied
    /\ \A f \in applied : 1..(f - 1) \subseteq recorded
    /\ \A r \in Runners : runner[r].pc = "done" => recorded = Files

====
