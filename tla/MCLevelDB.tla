----------------------------- MODULE MCLevelDB -----------------------------
(* A writer that syncs, one that does not, and a thread that flushes; logs of   *)
(* three records, which end before, at and behind every place in a block.      *)
EXTENDS StoreLogs

MCWriters == {"synced", "plain"}
MCSyncWriters == {"synced"}
MCFlushers == {"flush"}
MCRecordLengths == {1, 4, 5, 16}
=============================================================================
