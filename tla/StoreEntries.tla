----------------------------- MODULE StoreEntries -----------------------------
(*****************************************************************************)
(* The entry map both stores of internal/store keep, and its operations.     *)
(*                                                                           *)
(* Time: `clock` is the wall clock in ticks, bounded by MaxClock.  Stores    *)
(* wait for a tick no entry has taken, so no two entries carry the same      *)
(* time, as time.Now at nanosecond resolution gives them under the mutex.    *)
(*****************************************************************************)
EXTENDS Naturals, FiniteSets

CONSTANTS
  IDs,         \* response ids
  Responses,   \* stored payloads
  MaxEntries,  \* store_max_entries
  TTL,         \* store_ttl, in ticks
  MaxClock     \* bound of the model: no action happens after this tick

ASSUME StoreAssumption ==
  /\ MaxEntries \in Nat \ {0}
  /\ TTL \in Nat \ {0}
  /\ MaxClock \in Nat

VARIABLE clock

Entry == [value : Responses, at : 0 .. MaxClock]
IsEntryMap(es) == DOMAIN es \subseteq IDs /\ \A i \in DOMAIN es : es[i] \in Entry
NoEntries == [i \in {} |-> {}]

Expired(now, at) == now - at > TTL

FreshTick(es) == \A i \in DOMAIN es : es[i].at < clock

Without(es, gone) == [i \in DOMAIN es \ gone |-> es[i]]

\* Seeded fault: the newest entry goes instead.
Newest(es) == {i \in DOMAIN es : \A j \in DOMAIN es : es[i].at >= es[j].at}

\* evictOldest: the entry with the earliest time.
Oldest(es) == {i \in DOMAIN es : \A j \in DOMAIN es : es[i].at <= es[j].at}

\* Seeded fault: off by one.
OverCapacity(es) == Cardinality(DOMAIN es) > MaxEntries

AtCapacity(es) == Cardinality(DOMAIN es) >= MaxEntries

\* A full map loses its oldest entry before it takes the new one, also when
\* the new one only replaces an entry the map already holds.
MakeRoom(es) == IF AtCapacity(es) THEN Without(es, Oldest(es)) ELSE es

Inserted(es, id, v, at) ==
  LET room == MakeRoom(es)
  IN [i \in DOMAIN room \cup {id} |->
        IF i = id THEN [value |-> v, at |-> at] ELSE room[i]]

\* What the background cleanup keeps.
Unexpired(now, es) == Without(es, {i \in DOMAIN es : Expired(now, es[i].at)})

\* What Get finds: Get checks the age itself, so an entry the cleanup has not
\* reached yet is invisible too.
Visible(es) == Unexpired(clock, es)

===============================================================================
