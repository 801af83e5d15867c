------------------------------ MODULE LogFile ------------------------------
(***************************************************************************)
(* The format of a log or manifest (db/log_writer.cc, db/log_reader.cc):   *)
(* records are cut into fragments that do not cross the end of a block.    *)
(* LevelDB has records that are appended whole or not at all, and behind a *)
(* failed append are read or lost once and for all; this module says why.  *)
(*                                                                         *)
(* A payload is the sequence of <<record, position>>.  A byte of a file is *)
(* a zero or names the fragment it belongs to and its place there, so that *)
(* a checksum is right exactly if the bytes of one fragment stand together.*)
(***************************************************************************)
EXTENDS Integers, Sequences, SequencesExt, FiniteSets

CONSTANTS
    BlockSize,       \* kBlockSize
    HeaderSize,      \* kHeaderSize
    RecordLengths,   \* bound: the lengths of records
    MaxRecords       \* bound: the number of records in a log

ASSUME SizesAssumption ==
    /\ HeaderSize \in Nat \ {0} /\ BlockSize \in Nat /\ HeaderSize < BlockSize
    /\ RecordLengths \subseteq Nat \ {0} /\ MaxRecords \in Nat

Zero == [type |-> "zero", data |-> <<>>, at |-> 0]
AtMost(a, b) == IF a < b THEN a ELSE b

-----------------------------------------------------------------------------
(* Writer *)

Payload(r, length) == [i \in 1 .. length |-> <<r, i>>]

\* What Append makes of a fragment, header and payload.
Fragment(type, data) ==
    [i \in 1 .. HeaderSize + Len(data) |-> [type |-> type, data |-> data, at |-> i]]

NewWriter == [file |-> <<>>, offset |-> 0, ends |-> <<>>]

\* MUTANT: a new block is begun without filling up the last one.
Trailer_None(leftover) == <<>>

Trailer(leftover) == [i \in 1 .. leftover |-> Zero]

FragmentType(begin, end) ==
    CASE begin /\ end -> "full" [] begin /\ ~end -> "first"
      [] ~begin /\ end -> "last" [] ~begin /\ ~end -> "middle"

\* The file takes room more bytes, then one call fails.  The offset moves on
\* whether or not the fragment has been written.
RECURSIVE Emit(_, _, _, _)
Emit(w, data, begin, room) ==
    LET leftover == BlockSize - w.offset
        newBlock == leftover < HeaderSize
        start == IF newBlock THEN 0 ELSE w.offset
        n == AtMost(Len(data), BlockSize - start - HeaderSize)
        bytes == (IF newBlock THEN Trailer(leftover) ELSE <<>>)
                 \o Fragment(FragmentType(begin, n = Len(data)), SubSeq(data, 1, n))
        taken == AtMost(room, Len(bytes))
        after == [w EXCEPT !.file = @ \o SubSeq(bytes, 1, taken),
                           !.offset = start + HeaderSize + n]
    IN  IF taken < Len(bytes) \/ n = Len(data) THEN after
        ELSE Emit(after, SubSeq(data, n + 1, Len(data)), FALSE, room - taken)

Add(w, data, room) ==
    LET after == Emit(w, data, TRUE, room)
    IN  [after EXCEPT !.ends = Append(@, Len(after.file))]

-----------------------------------------------------------------------------
(* Reader, from the beginning of the file and with checksums *)

Eof(end) == [type |-> "eof", data |-> <<>>, next |-> end]
BadRecord(end) == [type |-> "bad", data |-> <<>>, next |-> end]

\* MUTANT: the length is believed without a checksum.
Intact_NoChecksum(file, o, buffered) ==
    LET head == file[o + 1]
    IN  head.at = 1 /\ HeaderSize + Len(head.data) <= buffered

\* The fragment whose first byte is at o + 1, if all its bytes follow.
Intact(file, o, buffered) ==
    LET head == file[o + 1]
    IN  /\ head.at = 1
        /\ HeaderSize + Len(head.data) <= buffered
        /\ SubSeq(file, o + 1, o + HeaderSize + Len(head.data)) = Fragment(head.type, head.data)

\* A bad length or checksum, or the zeros of a preallocated file, drop what is
\* buffered, which is the rest of the block; at the end of the file a length
\* that is too long is that of a fragment cut short.
RECURSIVE ReadPhysicalRecord(_, _)
ReadPhysicalRecord(file, o) ==
    LET end == ((o \div BlockSize) + 1) * BlockSize
        eof == Len(file) < end
        buffered == AtMost(end, Len(file)) - o
    IN  IF buffered < HeaderSize
        THEN IF eof THEN Eof(end) ELSE ReadPhysicalRecord(file, end)
        ELSE IF ~Intact(file, o, buffered) THEN BadRecord(end)
        ELSE LET data == file[o + 1].data
             IN  [type |-> file[o + 1].type, data |-> data, next |-> o + HeaderSize + Len(data)]

\* The records read from offset o on; scratch is the beginning of a record, or
\* NoScratch outside of one.
NoScratch == << <<0, 0>> >>

RECURSIVE ReadRecords(_, _, _)
ReadRecords(file, o, scratch) ==
    LET p == ReadPhysicalRecord(file, o)
        begun == scratch # NoScratch
        \* what is begun and the record completed, if any
        s == CASE p.type = "first" -> p.data
               [] p.type = "middle" /\ begun -> scratch \o p.data
               [] OTHER -> NoScratch
        record == CASE p.type = "full" -> <<p.data>>
                    [] p.type = "last" /\ begun -> <<scratch \o p.data>>
                    [] OTHER -> <<>>
    IN  IF p.type = "eof" THEN <<>> ELSE record \o ReadRecords(file, p.next, s)

Read(file) == ReadRecords(file, 0, NoScratch)

-----------------------------------------------------------------------------
(* Logs of some records, and properties *)

\* Room for any record of this length: no fragment but the first is empty.
Enough(length) == (length + 2) * BlockSize

\* The writer after records of these lengths; the file fails in the f-th of them
\* (never if f = 0) once it has taken room bytes of it.
Written(lengths, f, room) ==
    LET add(w, i) == Add(w, Payload(i, lengths[i]), IF i = f THEN room ELSE Enough(lengths[i]))
    IN  FoldLeft(add, NewWriter, [i \in 1 .. Len(lengths) |-> i])

Payloads(lengths) == [i \in 1 .. Len(lengths) |-> Payload(i, lengths[i])]

\* What is read of the log of these records when it is cut behind the first s of
\* them, or anywhere later.
ReadAfterCuts(lengths, s) ==
    LET w == Written(lengths, 0, 0)
        least == IF s = 0 THEN 0 ELSE w.ends[s]
    IN  {Read(SubSeq(w.file, 1, cut)) : cut \in least .. Len(w.file)}

\* The records that may be in a log, by their lengths.
Logs == UNION {[1 .. n -> RecordLengths] : n \in 0 .. MaxRecords}

\* <<n, s>>: a log of n records, s of them synced, of which a cut leaves something
\* else than a beginning.
MisreadCuts ==
    LET beginnings(log, s) == {SubSeq(Payloads(log), 1, k) : k \in s .. Len(log)}
    IN  {<<Len(c[1]), c[2]>> : c \in
            {c \in Logs \X (0 .. MaxRecords) :
                c[2] <= Len(c[1]) /\ ReadAfterCuts(c[1], c[2]) # beginnings(c[1], c[2])}}

\* What is read of the log of these records after the append of the f-th failed,
\* is, for some choice of the records behind it, those before it and these.
ReadsWhole(lengths, f, room) ==
    \E kept \in SUBSET (f + 1 .. Len(lengths)) :
        Read(Written(lengths, f, room).file) =
            [i \in 1 .. f - 1 |-> Payload(i, lengths[i])]
            \o [i \in 1 .. Cardinality(kept) |->
                  LET r == CHOOSE r \in kept : Cardinality({k \in kept : k <= r}) = i
                  IN  Payload(r, lengths[r])]

\* Cut anywhere, as by a loss of power or before the next append, that log reads as
\* a beginning of what is read of it in the end.
ReadsOn(lengths, f, room) ==
    LET file == Written(lengths, f, room).file
        all == Read(file)
    IN  \A cut \in 0 .. Len(file) : IsPrefix(Read(SubSeq(file, 1, cut)), all)

\* The numbers of records of the logs that are read as something else after the
\* append of one of them has failed half-way.
MisreadFailures ==
    LET size(log, f) == LET ends == Written(log, 0, 0).ends
                        IN  ends[f] - (IF f = 1 THEN 0 ELSE ends[f - 1])
    IN  {Len(log) : log \in
            {log \in Logs : \E f \in DOMAIN log : \E room \in 0 .. size(log, f) - 1 :
                ~ReadsWhole(log, f, room) \/ ~ReadsOn(log, f, room)}}
=============================================================================
