-------------------------- MODULE IngestedInventory --------------------------
(***************************************************************************)
(* Ingest of runs, what storing a line of an artifact does to the rows of  *)
(* the run, and what the inventory answers of a run that is complete.      *)
(***************************************************************************)
EXTENDS IngestWorker, RecordStorage, InventoryQueries

\* The rows of a complete run are those of its records, whatever lines were stored again
\* after a checkpoint, and in whatever order its observations came.
RecordsHold == \A r \in Runs : status[r] = "COMPLETE" => StorageHolds

\* What the inventory routes answer of a complete run is what was asked, whole.
InventoryAnswers ==
    \A r \in Runs : status[r] = "COMPLETE" => QueriesHold /\ ReadersMissNothing
=============================================================================
