-------------------------- MODULE MCRecordStorage --------------------------
\* The lines of one artifact, stored one after the other.
EXTENDS RecordStorage

VARIABLES
    format, lines,  \* the artifact
    at,             \* lines stored
    store           \* the rows, and the cache of the worker

Init == /\ format \in Formats
        /\ lines \in Artifacts(format)
        /\ at = 0 /\ store = NothingStored

StoreNext == /\ at < Len(lines)
             /\ at' = at + 1
             /\ store' = Store(store, lines[at + 1])
             /\ UNCHANGED <<format, lines>>

Spec == Init /\ [][StoreNext]_<<format, lines, at, store>>

\* What the comment of upsert_resource says of placeholders, that no duplicate is created
\* for the same named resource: a share has one row, which has its items.
OneRowPerShare == at = Len(lines) => StoredAsTold(format, lines, store)
=============================================================================
