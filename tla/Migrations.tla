----------------------------- MODULE Migrations -----------------------------
(***************************************************************************)
(* The migration runner.  Every backend container runs it before it starts *)
(* to serve, so several runners, of images with different numbers of       *)
(* migration files, may work on one database at once, be killed and be     *)
(* started again.                                                          *)
(*                                                                         *)
(* Files are numbered in the order of their names.  The connection is in   *)
(* autocommit mode, so every statement is an action, except that the SQL   *)
(* of a file and the record of it are one transaction: until it commits,   *)
(* PostgreSQL hides its changes from the others and makes them wait.       *)
(***************************************************************************)
EXTENDS Integers

CONSTANTS
  Runners,        \* processes that run migrate.py
  NumFiles,       \* migration files in the newest image
  Version,        \* Version[r]: how many of them the image of r has
  Rerunnable,     \* files whose SQL would succeed a second time
  MaxFaults       \* bound on broken connections and killed processes

Files == 1..NumFiles

ASSUME FilesAssumption ==
  /\ NumFiles \in Nat
  /\ Version \in [Runners -> 0..NumFiles]
  /\ Rerunnable \subseteq Files
  /\ MaxFaults \in Nat

VARIABLES
  recorded,  \* rows of schema_migrations
  executed,  \* executed[f]: how often the SQL of f was committed
  pc,        \* pc[r]: next statement of r, or how its last run ended
  applied,   \* applied[r]: the set of file names r has read
  position,  \* position[r]: where r is in its sorted list of files
  faults     \* failures so far that are not the runners' own doing

vars == <<recorded, executed, pc, applied, position, faults>>

Running == {"create_table", "select", "apply", "record"}
Ended == {"not_started", "up_to_date", "failed"}

Init ==
  /\ recorded = {}
  /\ executed = [f \in Files |-> 0]
  /\ pc = [r \in Runners |-> "not_started"]
  /\ applied = [r \in Runners |-> {}]
  /\ position = [r \in Runners |-> 1]
  /\ faults = 0

Goto(r, label) == pc' = [pc EXCEPT ![r] = label]

\* Mutant: the files in reverse, as an unsorted glob may return them.
Unsorted(r) == Version[r] + 1 - position[r]

\* The file under the loop variable, in sorted order.
Path(r) == position[r]

\* Mutant: the loop does not move on.
SamePosition(r) == UNCHANGED position

NextPosition(r) == position' = [position EXCEPT ![r] = @ + 1]

-----------------------------------------------------------------------------
(* One run of run_migrations.                                              *)

\* A container starts, for the first time or again.
Start(r) ==
  /\ pc[r] \in Ended
  /\ Goto(r, "create_table")
  /\ applied' = [applied EXCEPT ![r] = {}]
  /\ position' = [position EXCEPT ![r] = 1]
  /\ UNCHANGED <<recorded, executed, faults>>

\* CREATE TABLE IF NOT EXISTS; the table starts empty.
CreateTable(r) ==
  /\ pc[r] = "create_table"
  /\ Goto(r, "select")
  /\ UNCHANGED <<recorded, executed, applied, position, faults>>

\* The one read of schema_migrations; the loop works with this set.
SelectApplied(r) ==
  /\ pc[r] = "select"
  /\ applied' = [applied EXCEPT ![r] = recorded]
  /\ Goto(r, "apply")
  /\ UNCHANGED <<recorded, executed, position, faults>>

Skip(r) ==
  /\ pc[r] = "apply" /\ position[r] <= Version[r]
  /\ Path(r) \in applied[r]
  /\ NextPosition(r)
  /\ UNCHANGED <<recorded, executed, pc, applied, faults>>

\* Mutant: the exception is printed and not raised again.
Swallowed(r) == Goto(r, "apply") /\ NextPosition(r)

\* The transaction is rolled back and the exception ends the process.
Raised(r) == Goto(r, "failed") /\ UNCHANGED position

\* Another transaction has executed f and not committed yet.
LockedByOther(r, f) ==
  \E s \in Runners \ {r} : pc[s] = "record" /\ Path(s) = f

\* conn.execute(sql).  What creates a table, a column or an index waits for a
\* transaction that is creating it, and fails if it exists.
Execute(r) ==
  /\ pc[r] = "apply" /\ position[r] <= Version[r]
  /\ Path(r) \notin applied[r]
  /\ \/ /\ Path(r) \in Rerunnable
        /\ Goto(r, "record") /\ UNCHANGED position
     \/ /\ Path(r) \notin Rerunnable
        /\ ~LockedByOther(r, Path(r))
        /\ \/ executed[Path(r)] = 0 /\ Goto(r, "record") /\ UNCHANGED position
           \/ executed[Path(r)] > 0 /\ Raised(r)
  /\ UNCHANGED <<recorded, executed, applied, faults>>

\* Mutant: no PRIMARY KEY on filename.
NoKey(f) == FALSE

\* The PRIMARY KEY on schema_migrations.filename.
KeyTaken(f) == f \in recorded

\* INSERT INTO schema_migrations and the commit of both statements.
Record(r) ==
  /\ pc[r] = "record"
  /\ \/ /\ KeyTaken(Path(r))
        /\ Raised(r)
        /\ UNCHANGED <<recorded, executed>>
     \/ /\ ~KeyTaken(Path(r))
        /\ recorded' = recorded \cup {Path(r)}
        /\ executed' = [executed EXCEPT ![Path(r)] = @ + 1]
        /\ Goto(r, "apply") /\ NextPosition(r)
  /\ UNCHANGED <<applied, faults>>

\* All files seen (or none found): the backend may start.
Finish(r) ==
  /\ pc[r] = "apply" /\ position[r] > Version[r]
  /\ Goto(r, "up_to_date")
  /\ UNCHANGED <<recorded, executed, applied, position, faults>>

Fault == faults < MaxFaults /\ faults' = faults + 1

\* A statement fails for reasons of its own; a transaction is rolled back.
StatementFails(r) ==
  /\ Fault
  /\ \/ pc[r] \in {"create_table", "select"} /\ Goto(r, "failed") /\ UNCHANGED position
     \/ pc[r] = "apply" /\ position[r] <= Version[r] /\ Path(r) \notin applied[r]
          /\ Raised(r)
     \/ pc[r] = "record" /\ Raised(r)
  /\ UNCHANGED <<recorded, executed, applied>>

\* The process is killed, or dies on a lost answer to its commit.
Killed(r) ==
  /\ Fault
  /\ pc[r] \in Running
  /\ \/ UNCHANGED <<recorded, executed>>
     \/ /\ pc[r] = "record" /\ ~KeyTaken(Path(r))
        /\ recorded' = recorded \cup {Path(r)}
        /\ executed' = [executed EXCEPT ![Path(r)] = @ + 1]
  /\ Goto(r, "failed")
  /\ UNCHANGED <<applied, position>>

-----------------------------------------------------------------------------
Progress(r) ==
  \/ CreateTable(r) \/ SelectApplied(r)
  \/ Skip(r) \/ Execute(r) \/ Record(r) \/ Finish(r)

Next == \E r \in Runners :
  Start(r) \/ Progress(r) \/ StatementFails(r) \/ Killed(r)

\* A started run keeps going; nobody has to start one.
Spec == Init /\ [][Next]_vars /\ \A r \in Runners : WF_vars(Progress(r))

-----------------------------------------------------------------------------
(* Properties.                                                             *)

TypeOK ==
  /\ recorded \subseteq Files
  /\ executed \in [Files -> Nat]
  /\ pc \in [Runners -> Running \cup Ended]
  /\ applied \in [Runners -> SUBSET Files]
  /\ position \in [Runners -> 1..(NumFiles + 1)]
  /\ faults \in 0..MaxFaults

\* Claimed by migrate.py: each file is applied exactly once.  Concurrent
\* runners with an outdated set, and a process killed in the middle of a file,
\* leave neither a file applied twice nor a record without its effect.
ExactlyOnce ==
  \A f \in Files : executed[f] = IF f \in recorded THEN 1 ELSE 0

\* Claimed by migrate.py: in order.  No file is applied before its
\* predecessors, whichever runners applied those.
InOrder ==
  \A f \in recorded : 1..f \subseteq recorded

\* A backend only starts to serve on a schema that has all its migrations.
ServesMigrated ==
  \A r \in Runners : pc[r] = "up_to_date" => 1..Version[r] \subseteq recorded

\* Concurrent runners make each other fail (a table exists, a key is taken), but
\* not for ever: a backend that is started again each time its run failed gets
\* to serve, once the failures from outside have ended.
SchemaCompleted ==
  \A r \in Runners : []<>(pc[r] \in Running) => <>(pc[r] = "up_to_date")

-----------------------------------------------------------------------------
(* Migrations implements SchemaHistory.                                    *)

Serving == {r \in Runners : pc[r] = "up_to_date"}

History == INSTANCE SchemaHistory WITH runs <- executed, serving <- Serving

\* Racing, failing and restarted runners of images of different ages together
\* take one schema from version to version, none skipped, repeated or undone, and
\* let a backend serve on its own version or a later one.
ImplementsHistory == History!Spec

-----------------------------------------------------------------------------
(* The inductive invariant the safety properties rest on.                  *)

\* The set a runner works with was true once, and nothing is taken back.
AppliedIsRecorded ==
  \A r \in Runners : applied[r] \subseteq recorded

\* What a runner has left behind is recorded, by it or by others.
PassedIsRecorded ==
  \A r \in Runners : pc[r] \in Running =>
    \A f \in Files : f < position[r] => f \in recorded

\* In a transaction the loop has not run out of files.
WithinFiles ==
  \A r \in Runners : pc[r] = "record" => position[r] <= Version[r]

\* What every step preserves: the recorded files are a prefix, and each runner
\* is at most one past the part of it that it knows.
IndInv ==
  /\ TypeOK
  /\ ExactlyOnce
  /\ InOrder
  /\ AppliedIsRecorded
  /\ PassedIsRecorded
  /\ WithinFiles
  /\ ServesMigrated

=============================================================================
