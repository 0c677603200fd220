------------------------------- MODULE PipeLog -------------------------------
(***************************************************************************)
(* The pipe log: a directory of append-only segment files, of which the    *)
(* newest is the active, writable one.  The module gives the pipe log's    *)
(* state as a record and each of its operations as an operator from a      *)
(* state to the state after it, so that the engine can compose several     *)
(* calls in one of its own steps.                                          *)
(*                                                                         *)
(*   files           file_num -> [header, records], for the files          *)
(*                   first_file_num .. active_file_num                     *)
(*   synced_offset   the offset of the active file up to which its         *)
(*                   content (header included) has been fsynced            *)
(*                                                                         *)
(* A file is the flag "starts with FILE_MAGIC_HEADER and VERSION" and the  *)
(* sequence of framed records after it; the zero-filled pre-allocated tail *)
(* is the end of that sequence.                                            *)
(***************************************************************************)
EXTENDS LogBatch, FiniteSets

CONSTANTS
  TARGET_FILE_SIZE,   \* rotation threshold, in units
  BYTES_PER_SYNC      \* unsynced units from which an append fsyncs by itself

ASSUME /\ TARGET_FILE_SIZE \in Nat \ {0}
       /\ BYTES_PER_SYNC \in Nat \ {0}

FILE_HEADER_LEN == 1   \* FILE_MAGIC_HEADER and VERSION, as one unit

EmptyFile == [header |-> TRUE, records |-> <<>>]

FileNums(pl) == pl.first_file_num .. pl.active_file_num

\* Offset of the end of the first n records of a file.
EndOffset(file, n) ==
  (IF file.header THEN FILE_HEADER_LEN ELSE 0)
    + FoldLeft(LAMBDA acc, r : acc + RecordLen(r), 0, SubSeq(file.records, 1, n))

RecordOffset(file, k) == EndOffset(file, k - 1)

FileLen(file) == EndOffset(file, Len(file.records))

active_write_offset(pl) == FileLen(pl.files[pl.active_file_num])

\* open on an empty directory: file 1, holding the header only.
open ==
  [files |-> (1 :> EmptyFile), first_file_num |-> 1, active_file_num |-> 1,
   synced_offset |-> 0]

-----------------------------------------------------------------------------
(* append_log_batch *)

NeedsRotate(pl, items) ==
  active_write_offset(pl) + RecordLen(encode(items)) > TARGET_FILE_SIZE

\* Rotation: the active file is fsynced and closed, and its successor is
\* created with the header written but not yet synced.
Rotate(pl) ==
  [pl EXCEPT !.files = @ @@ (pl.active_file_num + 1 :> EmptyFile),
             !.active_file_num = @ + 1,
             !.synced_offset = 0]

SyncIfDue(pl, sync) ==
  IF sync \/ active_write_offset(pl) - pl.synced_offset >= BYTES_PER_SYNC
    THEN [pl EXCEPT !.synced_offset = active_write_offset(pl)]
    ELSE pl

\* The result of append_log_batch: the pipe log after it, and the place
\* the batch was given (file_num 0: the batch was empty, nothing written).
append_log_batch(pl, items, sync) ==
  IF items = <<>>
    THEN [pipe_log |-> pl, file_num |-> 0, base_offset |-> 0]
    ELSE LET at == IF NeedsRotate(pl, items) THEN Rotate(pl) ELSE pl
             written == [at EXCEPT !.files[at.active_file_num].records =
                                      Append(@, encode(items))]
         IN  [pipe_log    |-> SyncIfDue(written, sync),
              file_num    |-> at.active_file_num,
              base_offset |-> active_write_offset(at)]

sync(pl) == [pl EXCEPT !.synced_offset = active_write_offset(pl)]

-----------------------------------------------------------------------------
(* positional reads *)

\* fread fails with Corruption on a file that is not there (purged).
FreadFails(pl, file_num) == file_num \notin FileNums(pl)

RecordsAt(file, offset) ==
  {k \in DOMAIN file.records : RecordOffset(file, k) = offset}

\* The records of a file that hold position pos inside their stored body.
RecordsOver(file, pos) ==
  {k \in DOMAIN file.records :
     /\ RecordOffset(file, k) + HEADER_LEN <= pos
     /\ pos < RecordOffset(file, k + 1) - CHECKSUM_LEN}

-----------------------------------------------------------------------------
(* truncate_active_log, purge_to, files_before *)

\* The logical length of the active file becomes offset: the records that
\* end after it are gone, and so is the header when offset is 0.
truncate_active_log(pl, offset) ==
  LET file == pl.files[pl.active_file_num]
      keep == Cardinality({n \in DOMAIN file.records : EndOffset(file, n) <= offset})
  IN  [pl EXCEPT !.files[pl.active_file_num] =
                     [header  |-> file.header /\ offset >= FILE_HEADER_LEN,
                      records |-> SubSeq(file.records, 1, keep)],
                 !.synced_offset = IF @ < offset THEN @ ELSE offset]

PurgeFails(pl, min_file_num) == min_file_num > pl.active_file_num

purge_to(pl, min_file_num) ==
  IF min_file_num <= pl.first_file_num
    THEN pl
    ELSE [pl EXCEPT !.files = [f \in min_file_num .. pl.active_file_num |-> @[f]],
                    !.first_file_num = min_file_num]

\* Every file but the active one counts for its pre-allocated size.
total_size(pl) ==
  (pl.active_file_num - pl.first_file_num) * TARGET_FILE_SIZE
    + active_write_offset(pl)

\* The first file of the newest byte_budget units of the log: the files
\* before it are the inactive prefix.  0 when the log is within the budget.
files_before(pl, byte_budget) ==
  IF total_size(pl) > byte_budget
    THEN pl.first_file_num + (total_size(pl) - byte_budget) \div TARGET_FILE_SIZE
    ELSE 0

-----------------------------------------------------------------------------
(* what the disk holds after a crash, and a close *)

Torn(record) == [record EXCEPT !.ok = FALSE]

\* The files closed by a rotation were fsynced.  Of the active file the
\* synced prefix is there, and any number of the whole records after it;
\* the record after those may be there in part.  The header of a file that
\* was never synced is lost when header_tear allows it.  What is on the
\* disk when the process starts again is all durable.
CrashImages(pl, header_tear) ==
  LET file   == pl.files[pl.active_file_num]
      synced == Cardinality({n \in DOMAIN file.records :
                               EndOffset(file, n) <= pl.synced_offset})
      cuts   == {SubSeq(file.records, 1, n) : n \in synced .. Len(file.records)}
                  \cup {Append(SubSeq(file.records, 1, n - 1), Torn(file.records[n])) :
                          n \in (synced + 1) .. Len(file.records)}
      lost   == IF header_tear /\ pl.synced_offset = 0
                  THEN {[header |-> FALSE, records |-> <<>>]} ELSE {}
      images == {[header |-> file.header, records |-> r] : r \in cuts} \cup lost
  IN  {[pl EXCEPT !.files[pl.active_file_num] = image,
                  !.synced_offset = FileLen(image)] : image \in images}

\* drop of the pipe log: the active file is fsynced and closed.
close(pl) == sync(pl)

=============================================================================
