---------------------------- MODULE Conversations ----------------------------
(*****************************************************************************)
(* Responses API turns of ResponsesHandler (internal/handler/handler.go):    *)
(* each request is a goroutine that looks up previous_response_id, takes a   *)
(* response id from the process-wide counter, calls the backend, and stores  *)
(* the translated response for the next turn.                                *)
(*                                                                           *)
(* The store is the entry map of MemoryStore.  FileStore keeps the same map  *)
(* and, as its DurableView shows, load gives it back: a restart empties the  *)
(* one and keeps the other.  The backend call, which BackendCalls models, is *)
(* here an answer or a failure.  A client may continue any turn whose        *)
(* completed response it has received.                                       *)
(*****************************************************************************)
EXTENDS Naturals, FiniteSets

CONSTANTS
  NumTurns,     \* bound of the model on requests, which run concurrently
  MaxInFlight,  \* bound of the model on requests under way at a time
  MaxEntries,   \* store_max_entries
  TTL,          \* store_ttl, in ticks
  MaxClock,     \* bound of the model on time
  MaxRestarts,  \* bound of the model on restarts of the process
  Backends,     \* the values of store_backend: "memory", "file"
  Streaming     \* the values of `stream` that requests carry

ASSUME ConversationsAssumption ==
  /\ NumTurns \in Nat
  /\ MaxInFlight \in Nat
  /\ MaxEntries \in Nat \ {0}
  /\ TTL \in Nat \ {0}
  /\ MaxClock \in Nat
  /\ MaxRestarts \in Nat
  /\ Backends \subseteq {"memory", "file"}
  /\ Streaming \subseteq BOOLEAN

VARIABLES
  clock, entries,  \* the store
  backend,         \* store_backend
  idSeq,           \* idSeq of responses.go
  restarts,
  phase,           \* where a turn is in its handler
  prev,            \* the turn whose id it passes as previous_response_id
  stream,
  rid,             \* its response id; 0 before it has one
  context,         \* the turn whose stored output its backend request carries
  told,            \* turns whose completed response the client has received
  life,            \* history: the process a turn ran in
  storedAt         \* history: when the stored turns were stored

storeVars == <<clock, entries, backend>>
turnVars  == <<phase, prev, stream, rid, context, life>>
vars == <<storeVars, idSeq, restarts, turnVars, told, storedAt>>

\* Turns are numbered in the order they arrive in.
Turns == 1 .. NumTurns
NoTurn == 0
Ids == 1 .. NumTurns

\* The translated response of a turn is known by the turn.
Memory == INSTANCE MemoryStore WITH IDs <- Ids, Responses <- Turns

Phases == {"new", "waiting", "stored", "announced", "done", "refused", "failed", "lost"}

TypeOK ==
  /\ Memory!TypeOK
  /\ backend \in Backends
  /\ idSeq \in 0 .. NumTurns
  /\ restarts \in 0 .. MaxRestarts
  /\ phase \in [Turns -> Phases]
  /\ prev \in [Turns -> Turns \cup {NoTurn}]
  /\ stream \in [Turns -> BOOLEAN]
  /\ rid \in [Turns -> Ids \cup {0}]
  /\ \A t \in Turns : phase[t] \in {"waiting", "stored", "announced", "done"} => rid[t] # 0
  /\ context \in [Turns -> Turns \cup {NoTurn}]
  /\ told \subseteq Turns
  /\ life \in [Turns -> 0 .. MaxRestarts]
  /\ DOMAIN storedAt \subseteq Turns
  /\ \A t \in DOMAIN storedAt : storedAt[t] \in 0 .. clock

Init ==
  /\ Memory!Init
  /\ backend \in Backends
  /\ idSeq = 0
  /\ restarts = 0
  /\ phase = [t \in Turns |-> "new"]
  /\ prev = [t \in Turns |-> NoTurn]
  /\ stream = [t \in Turns |-> FALSE]
  /\ rid = [t \in Turns |-> 0]
  /\ context = [t \in Turns |-> NoTurn]
  /\ told = {}
  /\ life = [t \in Turns |-> 0]
  /\ storedAt = [t \in {} |-> 0]

\* Seeded fault: two goroutines that increment at once get the same id.
RacyId == IF \E t \in Turns : phase[t] = "waiting" THEN idSeq ELSE idSeq + 1

\* idCounter: atomic.AddInt64 returns the incremented value.
NextId == idSeq + 1

InFlight == {t \in Turns : phase[t] \in {"waiting", "stored", "announced"}}

Found(p) == rid[p] \in DOMAIN Memory!Visible(entries)

(*****************************************************************************)
(* The handler up to the backend call: an unknown previous_response_id is    *)
(* refused with 404; otherwise the stored messages go before the input.      *)
(*****************************************************************************)
Begin(t) ==
  \E p \in {NoTurn} \cup told, s \in Streaming :
    /\ phase[t] = "new" /\ \A u \in 1 .. t - 1 : phase[u] # "new"
    /\ Cardinality(InFlight) < MaxInFlight
    /\ prev' = [prev EXCEPT ![t] = p]
    /\ stream' = [stream EXCEPT ![t] = s]
    /\ life' = [life EXCEPT ![t] = restarts]
    /\ IF p # NoTurn /\ ~Found(p)
       THEN /\ phase' = [phase EXCEPT ![t] = "refused"]
            /\ UNCHANGED <<idSeq, rid, context>>
       ELSE /\ phase' = [phase EXCEPT ![t] = "waiting"]
            /\ idSeq' = NextId
            /\ rid' = [rid EXCEPT ![t] = NextId]
            /\ context' = [context EXCEPT ![t] =
                             IF p = NoTurn THEN NoTurn ELSE entries[rid[p]].value]
    /\ UNCHANGED <<storeVars, restarts, told, storedAt>>

Moves(t, ph) ==
  /\ phase' = [phase EXCEPT ![t] = ph]
  /\ UNCHANGED <<idSeq, restarts, prev, stream, rid, context, life>>

\* Seeded fault: stored under the latest id instead of the turn's own.
StoreUnderLatest(t) ==
  /\ Memory!Store(idSeq, t)
  /\ storedAt' = [u \in DOMAIN storedAt \cup {t} |-> IF u = t THEN clock ELSE storedAt[u]]
  /\ UNCHANGED backend

Store(t) ==
  /\ Memory!Store(rid[t], t)
  /\ storedAt' = [u \in DOMAIN storedAt \cup {t} |-> IF u = t THEN clock ELSE storedAt[u]]
  /\ UNCHANGED backend

\* Seeded fault: the error reply is stored like an answer.
FailStored(t) ==
  /\ phase[t] = "waiting"
  /\ Store(t)
  /\ Moves(t, "failed")
  /\ UNCHANGED told

\* The backend call fails, answers with a status other than 200, or a
\* non-streaming body cannot be read or parsed: nothing is stored.
Fail(t) ==
  /\ phase[t] = "waiting"
  /\ Moves(t, "failed")
  /\ UNCHANGED <<storeVars, told, storedAt>>

\* Seeded fault: the reply goes out before the response is stored.
ReplyThenStore(t) ==
  /\ phase[t] = "waiting" /\ ~stream[t]
  /\ Moves(t, "announced")
  /\ told' = told \cup {t}
  /\ UNCHANGED <<storeVars, storedAt>>

\* responsesNonStreamResponse: store, then encode the reply.
StoreReply(t) ==
  /\ phase[t] = "waiting" /\ ~stream[t]
  /\ Store(t)
  /\ Moves(t, "stored")
  /\ UNCHANGED told

SendReply(t) ==
  /\ phase[t] = "stored"
  /\ Moves(t, "done")
  /\ told' = told \cup {t}
  /\ UNCHANGED <<storeVars, storedAt>>

\* responsesStreamResponse: response.completed is emitted by the translator,
\* at the latest by Flush when the stream is over, however it ended ...
Announce(t) ==
  /\ phase[t] = "waiting" /\ stream[t]
  /\ Moves(t, "announced")
  /\ told' = told \cup {t}
  /\ UNCHANGED <<storeVars, storedAt>>

\* ... and the response is stored after that.
StoreStreamed(t) ==
  /\ phase[t] = "announced"
  /\ Store(t)
  /\ Moves(t, "done")
  /\ UNCHANGED told

\* The process dies and starts again: the counter restarts, the memory store
\* is empty, the file store is not, and the turns under way are lost.
Restart ==
  /\ restarts < MaxRestarts
  /\ restarts' = restarts + 1
  /\ idSeq' = 0
  /\ entries' = IF backend = "file" THEN Memory!Unexpired(clock, entries) ELSE Memory!NoEntries
  /\ phase' = [t \in Turns |->
                 IF t \in InFlight THEN "lost" ELSE phase[t]]
  /\ UNCHANGED <<clock, backend, prev, stream, rid, context, told, life, storedAt>>

Cleanup ==
  /\ Memory!Cleanup
  /\ UNCHANGED <<backend, idSeq, restarts, turnVars, told, storedAt>>

Tick ==
  /\ Memory!Tick
  /\ UNCHANGED <<backend, idSeq, restarts, turnVars, told, storedAt>>

Next ==
  \/ \E t \in Turns :
       \/ Begin(t) \/ Fail(t)
       \/ StoreReply(t) \/ SendReply(t)
       \/ Announce(t) \/ StoreStreamed(t)
  \/ Restart
  \/ Cleanup
  \/ Tick

Spec == Init /\ [][Next]_vars

-------------------------------------------------------------------------------
\* A turn's request carries the output of the turn the client continued, and
\* of no other one, whatever concurrent turns store, overwrite or evict -
\* when both ran in one process and, on the file store, the earlier one had
\* been stored before it was announced (handler.go:402-431, 482-488).
OwnContext ==
  \A t \in Turns :
    /\ context[t] # NoTurn
    /\ life[prev[t]] = life[t]
    /\ backend = "file" => ~stream[prev[t]]
    => context[t] = prev[t]

\* The same without the conditions, across restarts: what
\* docs/archives/PERSISTENCE_RELIABILITY_PHASE4_PLAN.md:26 promises, "Persist
\* Responses API previous_response_id data across process restarts when file
\* store is enabled."
OwnContextAlways == \A t \in Turns : context[t] \in {NoTurn, prev[t]}

\* What Get finds under an id, also after a restart, is the output of a turn
\* that was answered under that id: a failed or refused turn never leaves a
\* response behind, and none lands under an id of another turn.
StoredAnswers ==
  \A i \in DOMAIN entries :
    LET t == entries[i].value
    IN rid[t] = i /\ phase[t] \in {"stored", "done", "lost"}

\* Why these hold.  The counter is behind the turns that have not begun, which
\* have neither an id nor a context yet.
CounterBehind ==
  \A t \in Turns : phase[t] = "new" => idSeq < t /\ rid[t] = 0 /\ context[t] = NoTurn

\* The ids of this process are the counter's values, each of one turn.
OwnIds ==
  \A t \in Turns :
    rid[t] # 0 /\ life[t] = restarts =>
      /\ rid[t] <= idSeq
      /\ \A u \in Turns : life[u] = restarts /\ rid[u] = rid[t] => u = t

\* Only turns of this process are under way.
OwnProcess == \A t \in Turns : life[t] <= restarts /\ (t \in InFlight => life[t] = restarts)

\* A client knows only ids of turns that were stored, or that are streamed.
ToldTurns ==
  \A t \in told : /\ phase[t] \in {"announced", "done", "lost"}
                  /\ ~stream[t] => phase[t] = "done"

ContinuesTold == \A t \in Turns : context[t] # NoTurn => prev[t] \in told

\* What a turn of this process stored stays under its id until it goes.
OwnEntry ==
  \A t \in Turns :
    life[t] = restarts /\ phase[t] \in {"stored", "done"} /\ rid[t] \in DOMAIN entries
      => entries[rid[t]].value = t

MemoryOfProcess ==
  backend = "memory" => \A i \in DOMAIN entries : life[entries[i].value] = restarts

\* The inductive invariant: a follow-up reads the store by the id alone, so
\* what it finds is its predecessor's only while ids, processes and entries
\* hang together like this (handler.go:402-431, responses.go:89-95).
TurnsInv ==
  /\ TypeOK
  /\ OwnContext
  /\ StoredAnswers
  /\ CounterBehind
  /\ OwnIds
  /\ OwnProcess
  /\ ToldTurns
  /\ ContinuesTold
  /\ OwnEntry
  /\ MemoryOfProcess

Newer(p) == {q \in DOMAIN storedAt : storedAt[q] > storedAt[p]}

\* A follow-up is refused only for a reason docs/TROUBLESHOOTING.md:36 gives -
\* its predecessor is older than store_ttl, or store_max_entries newer ones
\* have been stored, or a restart emptied the memory store - or because the
\* predecessor's stream has been announced and is not stored yet.
RefusedWithReason ==
  [][\A t \in Turns :
       phase[t] = "new" /\ phase'[t] = "refused" =>
         LET p == prev'[t]
         IN IF p \notin DOMAIN storedAt THEN stream[p]
            ELSE \/ clock - storedAt[p] > TTL
                 \/ Cardinality(Newer(p)) >= MaxEntries
                 \/ backend = "memory" /\ life[p] # restarts]_vars

\* Between restarts, what Get returns obeys the abstract store, although
\* cleanup, capacity and age each remove entries on their own schedule
\* (store.go:62-131).
Abstract == INSTANCE BoundedStore
              WITH view <- Memory!Visible(entries), IDs <- Ids, Responses <- Turns
ServesStore ==
  [][restarts' = restarts /\ <<clock, entries>>' # <<clock, entries>> =>
       Abstract!Next \/ UNCHANGED <<clock, Memory!Visible(entries)>>]_storeVars

===============================================================================
