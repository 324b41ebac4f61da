----------------------------- MODULE BoundedStore -----------------------------
(*****************************************************************************)
(* What a response store promises its users (the Store interface of          *)
(* internal/store/store.go, read through Get): `view` maps each id that Get  *)
(* finds to the response it returns and the time it was stored.  A stored    *)
(* response is found until its time to live is over or it is the oldest one  *)
(* of a full store that takes another; it never changes, and what is gone    *)
(* comes back only by being stored again.                                    *)
(*****************************************************************************)
EXTENDS Naturals, FiniteSets

CONSTANTS IDs, Responses, MaxEntries, TTL, MaxClock

VARIABLES clock, view

Init ==
  /\ clock = 0
  /\ view = [i \in {} |-> {}]

Oldest == {i \in DOMAIN view : \A j \in DOMAIN view : view[i].at <= view[j].at}

\* Only a full store drops a response, and only its oldest.
MayDrop == {{}} \cup (IF Cardinality(DOMAIN view) = MaxEntries THEN {Oldest} ELSE {})

\* v is found under id from now on; it was stored at a time newer than all
\* others, and not necessarily this very tick.
Put(id, v) ==
  \E dropped \in MayDrop, at \in 0 .. clock :
    /\ \A i \in DOMAIN view : view[i].at < at
    /\ view' = [i \in (DOMAIN view \ dropped) \cup {id} |->
                  IF i = id THEN [value |-> v, at |-> at] ELSE view[i]]
    /\ Cardinality(DOMAIN view') <= MaxEntries
    /\ UNCHANGED clock

\* Time takes away what has outlived TTL, and nothing else.
Tick ==
  /\ clock < MaxClock
  /\ clock' = clock + 1
  /\ view' = [i \in {j \in DOMAIN view : clock' - view[j].at <= TTL} |-> view[i]]

Next ==
  \/ \E id \in IDs, v \in Responses : Put(id, v)
  \/ Tick

Spec == Init /\ [][Next]_<<clock, view>>

===============================================================================
