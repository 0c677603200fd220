------------------------------ MODULE LogBatch ------------------------------
(***************************************************************************)
(* The record framing layer: a log batch is an ordered list of items       *)
(* (entry groups, key/value puts and deletes, the Clean command) that the  *)
(* pipe log writes as one framed record.                                   *)
(*                                                                         *)
(* Lengths are counted in abstract units, not bytes: every entry, every    *)
(* key/value item and every command occupies one unit of the batch body.   *)
(* What is kept of the wire format is what the engine's read path depends  *)
(* on: the per-entry offset inside the uncompressed body, the stored       *)
(* length of the record (which differs from the body length when the       *)
(* batch is compressed), and the checksum verdict.                         *)
(***************************************************************************)
EXTENDS Integers, Sequences, SequencesExt

CONSTANTS COMPRESSION_THRESHOLD   \* body length from which a batch is LZ4-compressed

ASSUME COMPRESSION_THRESHOLD \in Nat \ {0}

HEADER_LEN   == 1   \* the 8-byte record header, as one unit
CHECKSUM_LEN == 1   \* the 4-byte CRC32 trailer, as one unit

-----------------------------------------------------------------------------
(* The builder methods.  entries_index is empty until the pipe log places  *)
(* the batch (or until the batch is decoded from a file).                  *)

add_entries(region_id, entries) ==
  [item_type |-> "Entries", region_id |-> region_id,
   entries |-> entries, entries_index |-> <<>>]

put(region_id, key, value) ==
  [item_type |-> "KV", region_id |-> region_id, op_type |-> "Put",
   key |-> key, value |-> value]

delete(region_id, key) ==
  [item_type |-> "KV", region_id |-> region_id, op_type |-> "Del",
   key |-> key, value |-> 0]

clean_region(region_id) ==
  [item_type |-> "CMD", region_id |-> region_id]

-----------------------------------------------------------------------------
(* encode *)

ItemLen(item) ==
  IF item.item_type = "Entries" THEN Len(item.entries) ELSE 1

BodyLen(items) == FoldLeft(LAMBDA acc, item : acc + ItemLen(item), 0, items)

CompressionTypeOf(items) ==
  IF BodyLen(items) >= COMPRESSION_THRESHOLD THEN "Lz4" ELSE "None"

\* The batch_len of the header: the stored body, which LZ4 halves, and the
\* checksum.
BatchLen(items) ==
  (IF CompressionTypeOf(items) = "Lz4"
     THEN (BodyLen(items) + 1) \div 2
     ELSE BodyLen(items)) + CHECKSUM_LEN

\* A record as it sits in a file.  ok is the verdict of the checksum and
\* length checks: FALSE for a record torn by a crash.
encode(items) ==
  [items |-> items, batch_len |-> BatchLen(items),
   compression_type |-> CompressionTypeOf(items), ok |-> TRUE]

RecordLen(record) == HEADER_LEN + record.batch_len

-----------------------------------------------------------------------------
(* decode, and the binding of entry locators to a place in a file *)

\* Offset of the j-th entry of the k-th item inside the uncompressed body,
\* counted from the start of the record (hence the HEADER_LEN).
EntryOffset(items, k, j) ==
  HEADER_LEN + BodyLen(SubSeq(items, 1, k - 1)) + (j - 1)

EntryIndexOf(items, k, j, file_num, base_offset) ==
  [index            |-> items[k].entries[j].index,
   file_num         |-> file_num,
   base_offset      |-> base_offset,
   batch_len        |-> BatchLen(items),
   offset           |-> EntryOffset(items, k, j),
   len              |-> 1,
   compression_type |-> CompressionTypeOf(items)]

\* The batch with every Entries item's entries_index filled in for the
\* record at (file_num, base_offset).
BindEntriesIndex(items, file_num, base_offset) ==
  [k \in DOMAIN items |->
     IF items[k].item_type = "Entries"
       THEN [items[k] EXCEPT !.entries_index =
               [j \in DOMAIN items[k].entries |->
                  EntryIndexOf(items, k, j, file_num, base_offset)]]
       ELSE items[k]]

\* Decoding fails with Corruption on a record whose checksum or length is
\* wrong; a record that decodes yields the batch bound to its place.
DecodeFails(record) == ~record.ok

from_bytes(record, file_num, base_offset) ==
  BindEntriesIndex(record.items, file_num, base_offset)

\* The places of the body an entry starts at, and the entry found there.
EntryPlaces(items) ==
  {<<k, j>> \in (DOMAIN items) \X (1 .. BodyLen(items)) :
     items[k].item_type = "Entries" /\ j \in DOMAIN items[k].entries}

HasEntryAt(items, offset) ==
  \E p \in EntryPlaces(items) : EntryOffset(items, p[1], p[2]) = offset

EntryAt(items, offset) ==
  LET p == CHOOSE q \in EntryPlaces(items) :
             EntryOffset(items, q[1], q[2]) = offset
  IN  items[p[1]].entries[p[2]]

=============================================================================
