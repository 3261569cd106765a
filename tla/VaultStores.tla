---------------------------- MODULE VaultStores ----------------------------
(* What the vault keeps: its database (VaultDB) and its storage of large     *)
(* values (LargeValues), side by side and each with writers of its own.      *)
CONSTANTS
  Calls, JobOf, ParentOf, Overrides, Streams, NoJob, PoolSizes, StreamWriters, WriterOn, SchemaOf,
  Paths, Contents, Writers, PathOf, None, SaveBound

VARIABLES
  pool, at, todo, written, visible, schema, opening, cached, channel,
  cloud, object, piping, ref, saving, published, last, saves

DB == INSTANCE VaultDB WITH Writers <- StreamWriters
Store == INSTANCE LargeValues

\* The records of a call of ensureJobAndStatusAndConnectorRecs appear together
\* (VaultDB).
RecordsTogether == DB!RecordsTogether
\* That call ends, if only by the pool's timeout (VaultDB).
EnsureSettles == DB!EnsureSettles
\* A stream whose writers declare one schema carries no other data (VaultDB).
DeclaredSchemaHolds == DB!DeclaredSchemaHolds
\* Whatever a published datapoint refers to can be fetched (LargeValues).
NoDanglingRef == Store!NoDanglingRef
\* A path of one writer's gives back its last value (LargeValues).
LatestRestored == Store!LatestRestored
\* A hash with a reference leads to a file with that content, as the comment at
\* storage-s3/src/s3-storage-provider.ts:73 says (LargeValues).
HashRefHoldsContent == Store!HashRefHoldsContent
=============================================================================
