----------------------------- MODULE StoreLogs -----------------------------
(***************************************************************************)
(* The logs of the store of LevelDB, which are sequences of records there, *)
(* as the files of LogFile, whose records may have any length.             *)
(***************************************************************************)
EXTENDS LevelDB, LogFile

\* A log now, and after up to MaxRecords records in all.
Lengths(n) == Len(logs[n].recs) .. MaxRecords

\* What a crash or a loss of power leaves of a log, cut at any byte behind its
\* last sync, is what LevelDB has in Truncations: the records appended whole,
\* the synced ones at least, whatever is appended before it comes to that
\* (Writer::AddRecord, Reader::ReadRecord).
TruncatedLogRead ==
    \A n \in DOMAIN logs : \A length \in Lengths(n) :
        <<length, logs[n].synced>> \notin MisreadCuts

\* Should an append to a log fail half-way, so that the file is not where the
\* writer takes it to be, then records may be lost, later ones too.  But what is
\* read are whole records, each at most once and in their order, with all those
\* before the failure, and whether one is read does not change with what is appended
\* or cut behind it, as LevelDB has it in AddRecord (Reader::ReadPhysicalRecord).
FailedAppendRead ==
    \A n \in DOMAIN logs : Lengths(n) \cap MisreadFailures = {}
=============================================================================
