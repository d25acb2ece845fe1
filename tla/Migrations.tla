----------------------------- MODULE Migrations -----------------------------
(***************************************************************************)
(* The migration runner (runMigrations.js): the files on disk, the ledger  *)
(* of what was applied, and runs that may overlap, fail at a file or die   *)
(* at any point.  Files are numbered in filename order; what a file says   *)
(* is the number of its edit, which its checksum tells apart.              *)
(***************************************************************************)
EXTENDS Integers, FiniteSets

CONSTANTS
  Files,        \* a finite set of numbers, the order of the filenames
  Runs,         \* runs of the script, each once
  None,         \* no file, no row
  MaxEdits      \* bound: edits of files on disk

VARIABLES
  disk,         \* what each file says, if it is there
  ledger,       \* schema_migrations: the checksum recorded for each file
  schema,       \* what the database really went through, for each file
  run,          \* where each run is, and the files it has to apply
  tx,           \* its open transaction: the file whose statements ran, and what it recorded
  late,         \* files that appeared after a later one was applied
  edits

vars == <<disk, ledger, schema, run, tx, late, edits>>

Versions == Nat
Contents == [Files -> Versions \cup {None}]
Nothing == [f \in Files |-> None]
NoTx == [file |-> None, says |-> None, recorded |-> FALSE]

Init ==
  /\ disk \in [Files -> {0, None}]
  /\ ledger = Nothing /\ schema = Nothing
  /\ run = [r \in Runs |-> [at |-> "new", pending |-> Nothing]]
  /\ tx = [r \in Runs |-> NoTx]
  /\ late = {} /\ edits = 0

\* resolveState: what the ledger does not know is pending, in what it then says.
Edited == {f \in Files : ledger[f] # None /\ disk[f] # None /\ ledger[f] # disk[f]}
Pending == [f \in Files |-> IF ledger[f] = None THEN disk[f] ELSE None]

\* An edited file aborts the run before anything is applied; a missing one does not.
Resolve(r) ==
  /\ run[r].at = "new"
  /\ run' = [run EXCEPT ![r] = IF Edited # {} THEN [@ EXCEPT !.at = "aborted"]
                               ELSE [at |-> "applying", pending |-> Pending]]
  /\ UNCHANGED <<disk, ledger, schema, tx, late, edits>>

ToDo(r) == {f \in Files : run[r].pending[f] # None}
First(r) == {f \in ToDo(r) : \A g \in ToDo(r) : f <= g}

\* BEGIN, and the file's statements.
Apply(r) ==
  /\ run[r].at = "applying" /\ tx[r] = NoTx
  /\ \E f \in First(r) :
       tx' = [tx EXCEPT ![r] = [file |-> f, says |-> run[r].pending[f], recorded |-> FALSE]]
  /\ UNCHANGED <<disk, ledger, schema, run, late, edits>>

\* The key of the ledger: a row of another open transaction is waited for, and
\* one that is there refuses this one.
Recorded(f) == ledger[f] # None
Claimed(r, f) == \E other \in Runs \ {r} : tx[other].file = f /\ tx[other].recorded

InsertLedgerRow(r) ==
  /\ tx[r].file # None /\ ~tx[r].recorded
  /\ ~Claimed(r, tx[r].file) /\ ~Recorded(tx[r].file)
  /\ tx' = [tx EXCEPT ![r].recorded = TRUE]
  /\ UNCHANGED <<disk, ledger, schema, run, late, edits>>

\* Mutant: the checksum is of the file as it is by now.
CommitRehashed(r) ==
  /\ tx[r].recorded
  /\ LET f == tx[r].file IN
     /\ schema' = [schema EXCEPT ![f] = tx[r].says]
     /\ ledger' = [ledger EXCEPT ![f] = disk[f]]
     /\ run' = [run EXCEPT ![r].pending[f] = None]
  /\ tx' = [tx EXCEPT ![r] = NoTx]
  /\ UNCHANGED <<disk, late, edits>>
Commit(r) ==
  /\ tx[r].recorded
  /\ LET f == tx[r].file IN
     /\ schema' = [schema EXCEPT ![f] = tx[r].says]
     /\ ledger' = [ledger EXCEPT ![f] = run[r].pending[f]]
     /\ run' = [run EXCEPT ![r].pending[f] = None]
  /\ tx' = [tx EXCEPT ![r] = NoTx]
  /\ UNCHANGED <<disk, late, edits>>

\* A statement fails, or the row is already there: ROLLBACK, and no further file.
Fail(r) ==
  /\ tx[r].file # None
  /\ tx' = [tx EXCEPT ![r] = NoTx]
  /\ run' = [run EXCEPT ![r].at = "failed"]
  /\ UNCHANGED <<disk, ledger, schema, late, edits>>

Done(r) ==
  /\ run[r].at = "applying" /\ ToDo(r) = {}
  /\ run' = [run EXCEPT ![r].at = "done"]
  /\ UNCHANGED <<disk, ledger, schema, tx, late, edits>>

\* The process dies; its connection's transaction goes with it.
Crash(r) ==
  /\ run[r].at = "applying"
  /\ tx' = [tx EXCEPT ![r] = NoTx]
  /\ run' = [run EXCEPT ![r].at = "crashed"]
  /\ UNCHANGED <<disk, ledger, schema, late, edits>>

\* The repository changes under the database: a file is added, edited or removed.
ChangeFile(f) ==
  /\ edits < MaxEdits /\ edits' = edits + 1
  /\ disk' \in {[disk EXCEPT ![f] = edits'], [disk EXCEPT ![f] = None]}
  /\ late' = late \cup {f}
  /\ UNCHANGED <<ledger, schema, run, tx>>

Next ==
  \/ \E r \in Runs : \/ Resolve(r) \/ Apply(r) \/ InsertLedgerRow(r) \/ Commit(r)
                     \/ Fail(r) \/ Done(r) \/ Crash(r)
  \/ \E f \in Files : ChangeFile(f)

Spec == Init /\ [][Next]_vars
-----------------------------------------------------------------------------
TypeOK ==
  /\ disk \in Contents /\ ledger \in Contents /\ schema \in Contents
  /\ run \in [Runs -> [at : {"new", "applying", "aborted", "failed", "done", "crashed"}, pending : Contents]]
  /\ tx \in [Runs -> [file : Files \cup {None}, says : Versions \cup {None}, recorded : BOOLEAN]]
  /\ late \subseteq Files /\ edits \in Nat

\* The ledger says of every file what the database really went through, and no
\* file is applied over the gap an earlier one left - it failed, or its run
\* died - and that has been on disk all along: with runs that overlap, fail and
\* die at any point, what is applied is always what a fresh database would get
\* first (migrate's transaction per file, and its stop at a failure).
LedgerIsTheSchema == ledger = schema
NoGaps ==
  \A f \in Files : schema[f] # None =>
    \A g \in Files \ late : g < f /\ disk[g] # None => schema[g] # None
SchemaIsReproducible == LedgerIsTheSchema /\ NoGaps
=============================================================================
