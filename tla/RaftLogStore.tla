---------------------------- MODULE RaftLogStore ----------------------------
(***************************************************************************)
(* What the engine promises to Raft, with no files, cache or locators:     *)
(* for every group a log, the entries of a gap-free window of indexes, and *)
(* a map of keys to values.  A group is there from the first item written  *)
(* for it until it is cleaned.                                             *)
(*                                                                         *)
(*   store[r].entries   the set of <<index, payload>> of the group's log   *)
(*   store[r].kvs       the set of <<key, value>> of the group             *)
(***************************************************************************)
EXTENDS Integers, FiniteSets

CONSTANTS
  Regions,    \* the groups
  Keys,       \* the keys of their key/value pairs
  Indexes,    \* the entry indexes
  Payloads    \* what an entry or a pair may carry

VARIABLE store

Absent == [present |-> FALSE, entries |-> {}, kvs |-> {}]

Group(entries, kvs) == [present |-> TRUE, entries |-> entries, kvs |-> kvs]

IndexesOf(entries) == {e[1] : e \in entries}

\* A log has one payload for every index of an interval.
IsLog(entries) ==
  /\ \A e, f \in entries : e[1] = f[1] => e = f
  /\ \A i, j \in IndexesOf(entries) : \A k \in i .. j : k \in IndexesOf(entries)

StoreOK ==
  \A r \in Regions :
    /\ store[r].entries \subseteq Indexes \X Payloads
    /\ store[r].kvs \subseteq Keys \X Payloads
    /\ IsLog(store[r].entries)
    /\ ~store[r].present => store[r] = Absent

Init == store = [r \in Regions |-> Absent]

\* Entries are appended after the log, or replace its suffix from their
\* first index on; the log stays gap-free.
Append(r, first, payload) ==
  \E last \in Indexes :
    LET kept == {e \in store[r].entries : e[1] < first}
    IN  /\ first <= last
        /\ kept # {} => first - 1 \in IndexesOf(kept)
        /\ store' = [store EXCEPT ![r] =
              Group(kept \cup {<<i, payload>> : i \in first .. last}, @.kvs)]

Put(r, key, value) ==
  store' = [store EXCEPT ![r] =
    Group(@.entries, {kv \in @.kvs : kv[1] # key} \cup {<<key, value>>})]

Delete(r, key) ==
  store' = [store EXCEPT ![r] =
    Group(@.entries, {kv \in @.kvs : kv[1] # key})]

Clean(r) == store' = [store EXCEPT ![r] = Absent]

\* Compaction drops the entries below an index; a group that is not there
\* stays so.
Compact(r, index) ==
  /\ store[r].present
  /\ store' = [store EXCEPT ![r].entries = {e \in @ : e[1] >= index}]

Next ==
  \E r \in Regions :
    \/ \E first \in Indexes, payload \in Payloads : Append(r, first, payload)
    \/ \E key \in Keys, value \in Payloads : Put(r, key, value)
    \/ \E key \in Keys : Delete(r, key)
    \/ Clean(r)
    \/ \E index \in Indexes \cup {i + 1 : i \in Indexes} : Compact(r, index)

Spec == Init /\ [][Next]_store

=============================================================================
