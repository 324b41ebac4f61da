----------------------------- MODULE MemoryStore -----------------------------
(*****************************************************************************)
(* ResponseStore of internal/store/store.go: the in-memory store.  Each      *)
(* operation runs under the mutex from start to end and is one step; the     *)
(* cleanup goroutine interleaves with them.  Close only stops that goroutine *)
(* and main calls it as the process ends, so it is no step of its own.       *)
(*                                                                           *)
(* Conversations instantiates the operations and runs them with its users.   *)
(*****************************************************************************)
EXTENDS StoreEntries

VARIABLE entries

TypeOK ==
  /\ clock \in 0 .. MaxClock
  /\ IsEntryMap(entries)
  /\ Cardinality(DOMAIN entries) <= MaxEntries
  /\ \A i \in DOMAIN entries : entries[i].at <= clock

Init ==
  /\ clock = 0
  /\ entries = NoEntries

Store(id, v) ==
  /\ FreshTick(entries)
  /\ entries' = Inserted(entries, id, v, clock)
  /\ UNCHANGED clock

Cleanup ==
  /\ entries' = Unexpired(clock, entries)
  /\ UNCHANGED clock

Tick ==
  /\ clock < MaxClock
  /\ clock' = clock + 1
  /\ UNCHANGED entries

===============================================================================
