-------------------------- MODULE ConversationsProofs --------------------------
(*****************************************************************************)
(* For any number of turns, any capacity and time to live of the store: the  *)
(* store serves what BoundedStore promises; TurnsInv is inductive, from      *)
(* which it follows that a turn gets its own predecessor's output; and       *)
(* DatesInv adds when each output was stored, from which it follows that a   *)
(* follow-up is refused only for an output that has expired, was evicted,    *)
(* went with a restart or is not stored yet.                                 *)
(*****************************************************************************)
EXTENDS Conversations, SetInduction

\* The instance counts as everybody does.
LEMMA SameCardinality == \A S : Memory!Cardinality(S) = Cardinality(S)
  BY DEF Cardinality, Memory!Cardinality

\* So does the instance of the abstract store.
LEMMA AbstractCardinality == \A S : Abstract!Cardinality(S) = Cardinality(S)
  BY DEF Cardinality, Abstract!Cardinality

\* A map that is not empty has an oldest entry.
LEMMA OldestExists ==
  ASSUME Memory!TypeOK, DOMAIN entries # {}
  PROVE  Memory!Oldest(entries) # {}
<1> DEFINE times == {entries[i].at : i \in DOMAIN entries}
<1>1. times \in SUBSET Nat /\ times # {}
  BY DEF Memory!TypeOK, Memory!IsEntryMap, Memory!Entry
<1>2. PICK x \in times : \A y \in times : x <= y
  <2> HIDE DEF times
  <2>1. QED
    BY <1>1, Least
<1>3. QED
  BY <1>2 DEF Memory!Oldest

\* evictOldest leaves room, an insertion fills it: a well-typed map stays one.
LEMMA InsertedType ==
  ASSUME Memory!TypeOK, NEW id \in Ids, NEW v \in Turns, Memory!Store(id, v)
  PROVE  Memory!TypeOK'
<1> DEFINE room == Memory!MakeRoom(entries)
<1>1. IsFiniteSet(DOMAIN entries) /\ Cardinality(DOMAIN entries) \in Nat
  <2>1. IsFiniteSet(Ids)
    BY ConversationsAssumption, FS_Interval DEF Ids
  <2>2. QED
    BY <2>1, FS_Subset, FS_CardinalityType DEF Memory!TypeOK, Memory!IsEntryMap
<1>2. /\ DOMAIN room \subseteq DOMAIN entries
      /\ \A i \in DOMAIN room : room[i] = entries[i]
  BY DEF Memory!MakeRoom, Memory!Without
<1>3. Cardinality(DOMAIN room) < MaxEntries
  <2>1. CASE Memory!AtCapacity(entries)
    <3>1. DOMAIN entries # {}
      BY <2>1, FS_EmptySet, SameCardinality, ConversationsAssumption DEF Memory!AtCapacity
    <3>2. PICK o : o \in Memory!Oldest(entries)
      BY <3>1, OldestExists
    <3>3. DOMAIN room \subseteq DOMAIN entries \ {o} /\ o \in DOMAIN entries
      BY <2>1, <3>2 DEF Memory!MakeRoom, Memory!Without, Memory!Oldest
    <3>4. Cardinality(DOMAIN entries \ {o}) = Cardinality(DOMAIN entries) - 1
          /\ IsFiniteSet(DOMAIN entries \ {o})
      BY <1>1, <3>3, FS_RemoveElement
    <3>5. Cardinality(DOMAIN room) <= Cardinality(DOMAIN entries \ {o})
          /\ Cardinality(DOMAIN room) \in Nat
      BY <3>3, <3>4, FS_Subset, FS_CardinalityType
    <3>6. QED
      BY <1>1, <3>4, <3>5, SameCardinality, ConversationsAssumption DEF Memory!TypeOK
  <2>2. CASE ~Memory!AtCapacity(entries)
    BY <1>1, <2>2, SameCardinality, ConversationsAssumption DEF Memory!AtCapacity, Memory!MakeRoom
  <2>3. QED
    BY <2>1, <2>2
<1>4. /\ DOMAIN entries' = DOMAIN room \cup {id}
      /\ \A i \in DOMAIN entries' :
           entries'[i] = IF i = id THEN [value |-> v, at |-> clock] ELSE entries[i]
      /\ clock' = clock
  BY <1>2 DEF Memory!Store, Memory!Inserted
<1>5. Cardinality(DOMAIN entries') <= MaxEntries
  <2>1. IsFiniteSet(DOMAIN room) /\ Cardinality(DOMAIN room) \in Nat
    BY <1>1, <1>2, FS_Subset, FS_CardinalityType
  <2>2. Cardinality(DOMAIN room \cup {id}) <= Cardinality(DOMAIN room) + 1
    <3> DEFINE S == DOMAIN room
    <3> HIDE DEF S, room
    <3>1. IsFiniteSet(S) /\ Cardinality(S) \in Nat
      BY <2>1 DEF S
    <3>2. CASE id \in S
      <4>1. S \cup {id} = S
        BY <3>2
      <4>2. QED
        BY <3>1, <4>1 DEF S
    <3>3. CASE id \notin S
      <4>1. Cardinality(S \cup {id}) = Cardinality(S) + 1
        BY <3>1, <3>3, FS_AddElement
      <4>2. QED
        BY <3>1, <4>1 DEF S
    <3>4. QED
      BY <3>2, <3>3
  <2>3. DOMAIN entries' = DOMAIN room \cup {id}
    BY <1>4
  <2>4. Cardinality(DOMAIN entries') <= Cardinality(DOMAIN room) + 1
    BY <2>2, <2>3
  <2>5. IsFiniteSet(DOMAIN entries') /\ Cardinality(DOMAIN entries') \in Nat
    <3> HIDE DEF room
    <3>1. QED
      BY <2>1, <2>3, FS_AddElement, FS_CardinalityType
  <2>6. QED
    BY <1>3, <2>1, <2>4, <2>5, ConversationsAssumption
<1>6. QED
  <2> HIDE DEF room
  <2>1. QED
    BY <1>2, <1>4, <1>5, SameCardinality DEF Memory!TypeOK, Memory!IsEntryMap, Memory!Entry

\* The numbers that Visible keeps: those of entries that are not too old.
LEMMA VisibleEntries ==
  ASSUME NEW es
  PROVE  /\ DOMAIN Memory!Visible(es) =
               {i \in DOMAIN es : ~(clock - es[i].at > TTL)}
         /\ \A i \in DOMAIN Memory!Visible(es) : Memory!Visible(es)[i] = es[i]
  BY DEF Memory!Visible, Memory!Unexpired, Memory!Without, Memory!Expired

\* Seen through Get, a Store is the Put of the abstract store: what it evicts
\* to make room is either expired already or the oldest response of a full
\* store.
LEMMA StoreIsPut ==
  ASSUME Memory!TypeOK, NEW id \in Ids, NEW v \in Turns, Memory!Store(id, v)
  PROVE  Abstract!Put(id, v)
<1> DEFINE view == Memory!Visible(entries)
           room == Memory!MakeRoom(entries)
           old  == Memory!Oldest(entries)
<1>1. /\ DOMAIN view = {i \in DOMAIN entries : ~(clock - entries[i].at > TTL)}
      /\ \A i \in DOMAIN view : view[i] = entries[i]
  BY VisibleEntries
<1>2. /\ clock \in Nat /\ clock' = clock
      /\ \A i \in DOMAIN entries : entries[i].at \in Nat /\ entries[i].at < clock
  BY DEF Memory!Store, Memory!FreshTick, Memory!TypeOK, Memory!IsEntryMap,
     Memory!Entry
<1>3. entries' = [i \in DOMAIN room \cup {id} |->
                    IF i = id THEN [value |-> v, at |-> clock] ELSE room[i]]
  BY DEF Memory!Store, Memory!Inserted
<1>4. Memory!TypeOK'
  BY InsertedType
<1>5. PICK dropped \in Abstract!MayDrop :
        DOMAIN view \ dropped = DOMAIN view \cap DOMAIN room
  <2>1. CASE ~Memory!AtCapacity(entries)
    <3>1. room = entries
      BY <2>1 DEF Memory!MakeRoom
    <3>2. {} \in Abstract!MayDrop /\ DOMAIN view \ {} = DOMAIN view \cap DOMAIN room
      BY <1>1, <3>1 DEF Abstract!MayDrop
    <3>3. QED
      BY <3>2
  <2>2. CASE Memory!AtCapacity(entries) /\ DOMAIN view = DOMAIN entries
    <3>1. DOMAIN room = DOMAIN entries \ old
      BY <2>2 DEF Memory!MakeRoom, Memory!Without
    <3>2. Abstract!Oldest = old
      BY <1>1, <2>2 DEF Abstract!Oldest, Memory!Oldest
    <3>3. Cardinality(DOMAIN view) = MaxEntries
      <4>1. IsFiniteSet(DOMAIN entries)
        <5>1. IsFiniteSet(Ids)
          BY ConversationsAssumption, FS_Interval DEF Ids
        <5>2. QED
          BY <5>1, FS_Subset DEF Memory!TypeOK, Memory!IsEntryMap
      <4>2. Cardinality(DOMAIN entries) \in Nat
        BY <4>1, FS_CardinalityType
      <4>3. QED
        BY <2>2, <4>2, SameCardinality, ConversationsAssumption
           DEF Memory!AtCapacity, Memory!TypeOK
    <3>4. old \in Abstract!MayDrop
      BY <3>2, <3>3, AbstractCardinality DEF Abstract!MayDrop
    <3>5. DOMAIN view \ old = DOMAIN view \cap DOMAIN room
      BY <2>2, <3>1
    <3>6. QED
      BY <3>4, <3>5
  <2>3. CASE Memory!AtCapacity(entries) /\ DOMAIN view # DOMAIN entries
    <3>1. PICK e \in DOMAIN entries : clock - entries[e].at > TTL
      BY <1>1, <2>3
    <3>2. \A o \in old : o \in DOMAIN entries /\ clock - entries[o].at > TTL
      BY <1>2, <3>1, ConversationsAssumption DEF Memory!Oldest
    <3>3. DOMAIN room = DOMAIN entries \ old
      BY <2>3 DEF Memory!MakeRoom, Memory!Without
    <3>4. {} \in Abstract!MayDrop /\ DOMAIN view \ {} = DOMAIN view \cap DOMAIN room
      BY <1>1, <3>2, <3>3 DEF Abstract!MayDrop
    <3>5. QED
      BY <3>4
  <2>4. QED
    BY <2>1, <2>2, <2>3
<1>6. \A i \in DOMAIN room : i \in DOMAIN entries /\ room[i] = entries[i]
  BY DEF Memory!MakeRoom, Memory!Without
<1>7. view' = [i \in (DOMAIN view \ dropped) \cup {id} |->
                 IF i = id THEN [value |-> v, at |-> clock] ELSE view[i]]
  <2>1. view' = [i \in {j \in DOMAIN entries' : ~(clock - entries'[j].at > TTL)}
                   |-> entries'[i]]
    BY <1>2 DEF Memory!Visible, Memory!Unexpired, Memory!Without, Memory!Expired
  <2>2. ~(clock - clock > TTL)
    BY <1>2, ConversationsAssumption
  <2>3. DOMAIN view' = (DOMAIN view \ dropped) \cup {id}
    <3> HIDE DEF room, view
    <3>1. QED
      BY <1>1, <1>3, <1>5, <1>6, <2>1, <2>2
  <2>4. \A i \in DOMAIN view' :
          view'[i] = IF i = id THEN [value |-> v, at |-> clock] ELSE view[i]
    <3> HIDE DEF room, view
    <3>1. QED
      BY <1>1, <1>3, <1>5, <1>6, <2>1, <2>3
  <2>5. QED
    <3> HIDE DEF room, view
    <3>1. QED
      BY <2>1, <2>3, <2>4
<1>8. Cardinality(DOMAIN view') <= MaxEntries
  <2>1. DOMAIN view' \subseteq DOMAIN entries'
    BY DEF Memory!Visible, Memory!Unexpired, Memory!Without
  <2>2. IsFiniteSet(Ids)
    BY ConversationsAssumption, FS_Interval DEF Ids
  <2>3. DOMAIN entries' \subseteq Ids /\ Cardinality(DOMAIN entries') <= MaxEntries
    BY <1>4, SameCardinality DEF Memory!TypeOK, Memory!IsEntryMap
  <2>4. IsFiniteSet(DOMAIN entries')
    BY <2>2, <2>3, FS_Subset
  <2>5. Cardinality(DOMAIN view') <= Cardinality(DOMAIN entries')
    <3> HIDE DEF view
    <3>1. QED
      BY <2>1, <2>4, FS_Subset
  <2>6. Cardinality(DOMAIN view') \in Nat /\ Cardinality(DOMAIN entries') \in Nat
    <3> HIDE DEF view
    <3>1. QED
      BY <2>1, <2>4, FS_Subset, FS_CardinalityType
  <2>7. QED
    BY <2>3, <2>5, <2>6, ConversationsAssumption
<1>9. \A i \in DOMAIN view : view[i].at < clock
  BY <1>1, <1>2
<1>10. clock \in 0 .. clock
  BY <1>2
<1>11. QED
  <2> HIDE DEF view, room
  <2>1. QED
    BY <1>2, <1>5, <1>7, <1>8, <1>9, <1>10, AbstractCardinality DEF Abstract!Put, view

\* A tick shows what the abstract store's tick shows, and a cleanup nothing.
LEMMA TickIsTick ==
  ASSUME Memory!TypeOK, Memory!Tick PROVE Abstract!Tick
<1>1. \A i \in DOMAIN entries : entries[i].at \in Nat
  BY DEF Memory!TypeOK, Memory!IsEntryMap, Memory!Entry
<1>2. clock \in Nat
  BY DEF Memory!TypeOK
<1>3. QED
  BY <1>1, <1>2, ConversationsAssumption
     DEF Memory!Tick, Abstract!Tick, Memory!Visible, Memory!Unexpired,
         Memory!Without, Memory!Expired

\* A cleanup removes only what Get does not find any more.
LEMMA CleanupShowsNothing ==
  ASSUME Memory!Cleanup
  PROVE  Memory!Visible(entries)' = Memory!Visible(entries)
  BY DEF Memory!Cleanup, Memory!Visible, Memory!Unexpired, Memory!Without,
     Memory!Expired

-------------------------------------------------------------------------------
\* The initial state is one of TurnsInv.
LEMMA InitInv == Init => TurnsInv
<1> SUFFICES ASSUME Init PROVE TurnsInv
  OBVIOUS
<1> USE ConversationsAssumption DEF Init, Memory!Init, Memory!NoEntries
<1>1. Memory!TypeOK
  <2>1. Cardinality(DOMAIN entries) = 0
    BY FS_EmptySet
  <2>2. QED
    BY <2>1, SameCardinality DEF Memory!TypeOK, Memory!IsEntryMap
<1>2. TypeOK
  BY <1>1 DEF TypeOK, Phases, Ids, Turns, NoTurn
<1>3. OwnContext /\ StoredAnswers /\ CounterBehind /\ OwnIds
  BY DEF OwnContext, StoredAnswers, CounterBehind, OwnIds, Turns, NoTurn
<1>4. OwnProcess /\ ToldTurns /\ ContinuesTold /\ OwnEntry /\ MemoryOfProcess
  BY DEF OwnProcess, ToldTurns, ContinuesTold, OwnEntry, MemoryOfProcess, InFlight, NoTurn
<1>5. QED
  BY <1>2, <1>3, <1>4 DEF TurnsInv

\* A request that begins gets an id nobody else of its process has, and what it
\* finds under the id of its predecessor is its predecessor's.
LEMMA BeginKeepsInv ==
  ASSUME TurnsInv, NEW t \in Turns, Begin(t)
  PROVE  TurnsInv'
<1> USE DEF TurnsInv
<1>1. PICK p \in {NoTurn} \cup told, s \in Streaming :
        /\ phase[t] = "new"
        /\ prev' = [prev EXCEPT ![t] = p]
        /\ stream' = [stream EXCEPT ![t] = s]
        /\ life' = [life EXCEPT ![t] = restarts]
        /\ IF p # NoTurn /\ ~Found(p)
           THEN /\ phase' = [phase EXCEPT ![t] = "refused"]
                /\ UNCHANGED <<idSeq, rid, context>>
           ELSE /\ phase' = [phase EXCEPT ![t] = "waiting"]
                /\ idSeq' = NextId
                /\ rid' = [rid EXCEPT ![t] = NextId]
                /\ context' = [context EXCEPT ![t] =
                                 IF p = NoTurn THEN NoTurn ELSE entries[rid[p]].value]
        /\ UNCHANGED <<clock, entries, backend, restarts, told, storedAt>>
  BY DEF Begin, storeVars
<1>2. /\ t \notin told
      /\ idSeq < t /\ rid[t] = 0 /\ context[t] = NoTurn
      /\ \A i \in DOMAIN entries : entries[i].value \in Turns /\ entries[i].value # t
  <2>1. \A i \in DOMAIN entries : entries[i].value \in Turns
    BY DEF TypeOK, Memory!TypeOK, Memory!IsEntryMap, Memory!Entry
  <2>2. \A q \in told : phase[q] # "new"
    <3>1. \A q \in told : phase[q] \in {"announced", "done", "lost"}
      BY Zenon DEF ToldTurns
    <3>2. QED
      BY <3>1
  <2>3. \A i \in DOMAIN entries : phase[entries[i].value] # "new"
    BY DEF StoredAnswers
  <2>4. QED
    BY <1>1, <2>1, <2>2, <2>3 DEF CounterBehind
<1>3. NextId \in Ids /\ NextId = idSeq + 1 /\ NextId # 0 /\ NextId <= t
  BY <1>2, ConversationsAssumption DEF TypeOK, Turns, Ids, NextId
<1>4. p # NoTurn /\ Found(p) => rid[p] \in DOMAIN entries /\ entries[rid[p]].value \in Turns
  BY <1>2, VisibleEntries DEF Found
<1>5. TypeOK'
  <2>1. Memory!TypeOK'
    BY <1>1 DEF TypeOK, Memory!TypeOK, Memory!IsEntryMap, Memory!Entry
  <2>2. /\ p \in Turns \cup {NoTurn} /\ s \in BOOLEAN
        /\ restarts \in 0 .. MaxRestarts
    BY <1>1, ConversationsAssumption DEF TypeOK
  <2>3. phase' \in [Turns -> Phases] /\ prev' \in [Turns -> Turns \cup {NoTurn}]
        /\ stream' \in [Turns -> BOOLEAN] /\ life' \in [Turns -> 0 .. MaxRestarts]
    BY <1>1, <2>2 DEF TypeOK, Phases
  <2>4. CASE p # NoTurn /\ ~Found(p)
    BY <1>1, <2>1, <2>3, <2>4 DEF TypeOK
  <2>5. CASE ~(p # NoTurn /\ ~Found(p))
    <3>1. idSeq' \in 0 .. NumTurns
      BY <1>1, <1>3, <2>5 DEF Ids
    <3>2. rid' \in [Turns -> Ids \cup {0}]
      BY <1>1, <1>3, <2>5 DEF TypeOK
    <3>3. context' \in [Turns -> Turns \cup {NoTurn}]
      BY <1>1, <1>4, <2>5 DEF TypeOK
    <3>4. \A u \in Turns : phase'[u] \in {"waiting", "stored", "announced", "done"} => rid'[u] # 0
      BY <1>1, <1>3, <2>5 DEF TypeOK
    <3>5. QED
      BY <1>1, <2>1, <2>3, <3>1, <3>2, <3>3, <3>4 DEF TypeOK
  <2>6. QED
    BY <2>4, <2>5
<1>6. \A u \in Turns \ {t} :
        /\ phase'[u] = phase[u] /\ prev'[u] = prev[u] /\ stream'[u] = stream[u]
        /\ rid'[u] = rid[u] /\ context'[u] = context[u] /\ life'[u] = life[u]
  BY <1>1 DEF TypeOK
<1>7. /\ prev'[t] = p /\ life'[t] = restarts /\ phase'[t] \in {"refused", "waiting"}
      /\ restarts' = restarts /\ told' = told /\ backend' = backend /\ entries' = entries
  BY <1>1 DEF TypeOK
<1>8. CASE p # NoTurn /\ ~Found(p)
  <2>1. phase'[t] = "refused" /\ idSeq' = idSeq /\ rid' = rid /\ context' = context
    BY <1>1, <1>8 DEF TypeOK
  <2>2. OwnContext'
    <3> SUFFICES ASSUME NEW u \in Turns, context'[u] # NoTurn, life'[prev'[u]] = life'[u],
                        backend' = "file" => ~stream'[prev'[u]]
                 PROVE  context'[u] = prev'[u]
      BY DEF OwnContext
    <3>1. u # t /\ prev[u] \in told /\ prev[u] # t
      BY <1>2, <2>1 DEF ContinuesTold
    <3>2. prev[u] \in Turns \ {t} /\ u \in Turns \ {t}
      BY <3>1 DEF TypeOK
    <3>3. QED
      BY <1>6, <1>7, <2>1, <3>1, <3>2 DEF OwnContext
  <2>3. OwnIds'
    BY <1>2, <1>6, <1>7, <2>1 DEF OwnIds
  <2>4. CounterBehind'
    BY <1>6, <1>7, <2>1 DEF CounterBehind
  <2>5. ContinuesTold'
    BY <1>2, <1>6, <1>7, <2>1 DEF ContinuesTold
  <2>6. OwnProcess'
    <3>1. t \notin InFlight'
      BY <2>1 DEF InFlight
    <3>2. restarts <= restarts
      BY DEF TypeOK
    <3>3. QED
      BY <1>6, <1>7, <3>1, <3>2 DEF OwnProcess, InFlight
  <2>7. StoredAnswers'
    BY <1>2, <1>6, <1>7 DEF StoredAnswers
  <2>8. ToldTurns'
    BY <1>2, <1>6, <1>7 DEF ToldTurns, TypeOK
  <2>9. OwnEntry'
    BY <1>6, <1>7, <2>1 DEF OwnEntry
  <2>10. MemoryOfProcess'
    BY <1>2, <1>6, <1>7 DEF MemoryOfProcess
  <2>11. QED
    BY <1>5, <2>2, <2>3, <2>4, <2>5, <2>6, <2>7, <2>8, <2>9, <2>10
<1>9. CASE ~(p # NoTurn /\ ~Found(p))
  <2>1. /\ phase'[t] = "waiting" /\ idSeq' = NextId /\ rid'[t] = NextId
        /\ context'[t] = IF p = NoTurn THEN NoTurn ELSE entries[rid[p]].value
    BY <1>1, <1>9 DEF TypeOK
  <2>2. OwnContext'
    <3> SUFFICES ASSUME NEW u \in Turns, context'[u] # NoTurn, life'[prev'[u]] = life'[u],
                        backend' = "file" => ~stream'[prev'[u]]
                 PROVE  context'[u] = prev'[u]
      BY DEF OwnContext
    <3>1. CASE u # t
      <4>1. prev[u] \in told /\ prev[u] # t
        BY <1>2, <1>6, <3>1 DEF ContinuesTold
      <4>2. prev[u] \in Turns \ {t} /\ u \in Turns \ {t}
        BY <3>1, <4>1 DEF TypeOK
      <4>3. QED
        BY <1>6, <1>7, <4>2 DEF OwnContext
    <3>2. CASE u = t
      <4> DEFINE v == entries[rid[p]].value
      <4>1. /\ p # NoTurn /\ p \in told /\ p \in Turns \ {t}
            /\ rid[p] \in DOMAIN entries /\ v \in Turns \ {t} /\ context'[t] = v
        BY <1>2, <1>4, <1>9, <2>1, <3>2 DEF TypeOK
      <4>2. life[p] = restarts /\ (backend = "file" => ~stream[p])
        BY <1>6, <1>7, <3>2, <4>1
      <4>3. rid[v] = rid[p]
        BY <4>1 DEF StoredAnswers
      <4>4. CASE backend = "memory"
        <5>1. life[v] = restarts
          BY <4>1, <4>4 DEF MemoryOfProcess
        <5>2. rid[p] # 0
          BY <4>1 DEF TypeOK, Memory!TypeOK, Memory!IsEntryMap, Ids
        <5>3. v = p
          BY <4>1, <4>2, <4>3, <5>1, <5>2 DEF OwnIds
        <5>4. QED
          BY <1>7, <3>2, <4>1, <5>3
      <4>5. CASE backend = "file"
        <5>1. phase[p] = "done"
          <6>1. ~stream[p] => phase[p] = "done"
            BY <4>1, Zenon DEF ToldTurns
          <6>2. QED
            BY <4>2, <4>5, <6>1
        <5>2. v = p
          BY <4>1, <4>2, <5>1 DEF OwnEntry
        <5>3. QED
          BY <1>7, <3>2, <4>1, <5>2
      <4>6. QED
        BY <4>4, <4>5, ConversationsAssumption DEF TypeOK
    <3>3. QED
      BY <3>1, <3>2
  <2>3. OwnIds'
    <3>1. \A u \in Turns \ {t} : rid[u] # 0 /\ life[u] = restarts => rid[u] <= idSeq
      BY DEF OwnIds
    <3>2. \A u \in Turns \ {t} : rid[u] # 0 /\ life[u] = restarts
             => rid[u] # NextId /\ rid[u] <= NextId
      BY <1>3, <3>1 DEF TypeOK, Ids
    <3>3. \A u \in Turns : rid'[u] # 0 /\ life'[u] = restarts => rid'[u] <= NextId
      BY <1>3, <1>6, <2>1, <3>2 DEF TypeOK, Ids
    <3>4. \A u, w \in Turns : rid'[u] # 0 /\ life'[u] = restarts /\ life'[w] = restarts
             /\ rid'[w] = rid'[u] => w = u
      BY <1>3, <1>6, <2>1, <3>2 DEF OwnIds
    <3>5. QED
      BY <1>7, <2>1, <3>3, <3>4 DEF OwnIds
  <2>4. CounterBehind'
    <3> SUFFICES ASSUME NEW u \in Turns, phase'[u] = "new"
                 PROVE  idSeq' < u /\ rid'[u] = 0 /\ context'[u] = NoTurn
      BY DEF CounterBehind
    <3>1. u # t /\ phase[u] = "new"
      BY <1>6, <2>1
    <3>2. u > t
      <4>1. \A w \in 1 .. t - 1 : phase[w] # "new"
        BY DEF Begin
      <4>2. QED
        BY <3>1, <4>1, ConversationsAssumption DEF Turns
    <3>3. rid'[u] = 0 /\ context'[u] = NoTurn
      BY <1>6, <3>1 DEF CounterBehind
    <3>4. QED
      BY <1>3, <2>1, <3>2, <3>3, ConversationsAssumption DEF Turns, Ids
  <2>5. ContinuesTold'
    BY <1>6, <1>7, <2>1 DEF ContinuesTold
  <2>6. OwnProcess'
    <3>1. restarts <= restarts
      BY DEF TypeOK
    <3>2. QED
      BY <1>6, <1>7, <3>1 DEF OwnProcess, InFlight
  <2>7. StoredAnswers'
    BY <1>2, <1>6, <1>7 DEF StoredAnswers
  <2>8. ToldTurns'
    BY <1>2, <1>6, <1>7 DEF ToldTurns, TypeOK
  <2>9. OwnEntry'
    BY <1>6, <1>7, <2>1 DEF OwnEntry
  <2>10. MemoryOfProcess'
    BY <1>2, <1>6, <1>7 DEF MemoryOfProcess
  <2>11. QED
    BY <1>5, <2>2, <2>3, <2>4, <2>5, <2>6, <2>7, <2>8, <2>9, <2>10
<1>10. QED
  BY <1>8, <1>9

\* What every step that begins no turn leaves alone: the ids, the processes and
\* the predecessors of the turns; none becomes new, and none comes under way.
SameTurns ==
  /\ UNCHANGED <<idSeq, restarts, backend, prev, stream, rid, context, life>>
  /\ told \subseteq told'
  /\ InFlight' \subseteq InFlight
  /\ \A t \in Turns : phase'[t] = "new" => phase[t] = "new"

\* Such a step keeps what TurnsInv says about the turns themselves.
LEMMA SameTurnsKeep ==
  ASSUME TurnsInv, SameTurns
  PROVE  OwnContext' /\ CounterBehind' /\ OwnIds' /\ OwnProcess' /\ ContinuesTold'
<1> USE DEF TurnsInv, SameTurns
<1>1. OwnContext'
  BY DEF OwnContext
<1>2. CounterBehind'
  BY DEF CounterBehind
<1>3. OwnIds'
  BY DEF OwnIds
<1>4. OwnProcess'
  BY DEF OwnProcess
<1>5. ContinuesTold'
  BY DEF ContinuesTold
<1>6. QED
  BY <1>1, <1>2, <1>3, <1>4, <1>5

\* Storing a turn's response under its id, as StoreReply and StoreStreamed do.
LEMMA StoreKeepsInv ==
  ASSUME TurnsInv, NEW t \in Turns, t \in InFlight, Store(t),
         NEW ph \in {"stored", "done"}, Moves(t, ph), told' = told,
         t \in told => ph = "done"
  PROVE  TurnsInv'
<1> USE DEF TurnsInv
<1>1. /\ Memory!Store(rid[t], t) /\ backend' = backend
      /\ storedAt' = [u \in DOMAIN storedAt \cup {t} |-> IF u = t THEN clock ELSE storedAt[u]]
      /\ phase' = [phase EXCEPT ![t] = ph]
      /\ UNCHANGED <<idSeq, restarts, prev, stream, rid, context, life>>
  BY DEF Store, Moves
<1>2. rid[t] \in Ids /\ rid[t] # 0 /\ life[t] = restarts
  BY DEF TypeOK, OwnProcess, InFlight
<1>3. Memory!TypeOK'
  BY <1>1, <1>2, InsertedType DEF TypeOK
<1>4. /\ phase'[t] = ph
      /\ \A u \in Turns \ {t} : phase'[u] = phase[u]
  BY <1>1 DEF TypeOK
<1>5. /\ clock' = clock
      /\ rid[t] \in DOMAIN entries' /\ entries'[rid[t]].value = t
      /\ \A i \in DOMAIN entries' : i # rid[t] =>
            i \in DOMAIN entries /\ entries'[i] = entries[i]
  BY <1>1 DEF Memory!Store, Memory!Inserted, Memory!MakeRoom, Memory!Without
<1>6. TypeOK'
  <2>1. clock \in Nat
    BY DEF TypeOK, Memory!TypeOK
  <2>2. /\ DOMAIN storedAt' \subseteq Turns
        /\ \A u \in DOMAIN storedAt' : storedAt'[u] \in 0 .. clock'
    BY <1>1, <1>5, <2>1 DEF TypeOK
  <2>3. phase' \in [Turns -> Phases]
    BY <1>1 DEF TypeOK, Phases
  <2>4. \A u \in Turns : phase'[u] \in {"waiting", "stored", "announced", "done"} => rid'[u] # 0
    BY <1>1, <1>2, <1>4 DEF TypeOK
  <2>5. QED
    BY <1>1, <1>3, <2>2, <2>3, <2>4 DEF TypeOK
<1>7. SameTurns
  BY <1>1, <1>4 DEF SameTurns, InFlight
<1>8. StoredAnswers'
  BY <1>1, <1>4, <1>5 DEF StoredAnswers, TypeOK, Memory!TypeOK, Memory!IsEntryMap, Memory!Entry
<1>9. ToldTurns'
  <2>1. \A q \in told : phase[q] \in {"announced", "done", "lost"}
                        /\ (~stream[q] => phase[q] = "done")
    BY Zenon DEF ToldTurns
  <2>2. \A q \in told : phase'[q] \in {"announced", "done", "lost"}
                        /\ (~stream[q] => phase'[q] = "done")
    BY <1>4, <2>1 DEF TypeOK
  <2>3. QED
    BY <1>1, <2>2, Zenon DEF ToldTurns
<1>10. OwnEntry'
  <2> SUFFICES ASSUME NEW u \in Turns, life[u] = restarts, phase'[u] \in {"stored", "done"},
                      rid[u] \in DOMAIN entries'
               PROVE  entries'[rid[u]].value = u
    BY <1>1 DEF OwnEntry
  <2>1. CASE rid[u] = rid[t]
    BY <1>2, <1>5, <2>1 DEF OwnIds
  <2>2. CASE rid[u] # rid[t]
    BY <1>4, <1>5, <2>2 DEF OwnEntry
  <2>3. QED
    BY <2>1, <2>2
<1>11. MemoryOfProcess'
  BY <1>1, <1>2, <1>5 DEF MemoryOfProcess
<1>12. QED
  BY <1>6, <1>7, <1>8, <1>9, <1>10, <1>11, SameTurnsKeep

\* A turn that only moves on: it fails, its reply goes out, or its stream is
\* announced.
LEMMA MoveKeepsInv ==
  ASSUME TurnsInv, NEW t \in Turns, UNCHANGED <<storeVars, storedAt>>,
         Fail(t) \/ SendReply(t) \/ Announce(t)
  PROVE  TurnsInv'
<1> USE DEF TurnsInv
<1>1. PICK ph \in {"failed", "done", "announced"} :
        /\ phase' = [phase EXCEPT ![t] = ph]
        /\ phase[t] \in {"waiting", "stored"}
        /\ ph = "done" <=> phase[t] = "stored"
        /\ told' = told \/ (told' = told \cup {t} /\ ph \in {"done", "announced"})
        /\ ph = "announced" => stream[t]
  BY DEF Fail, SendReply, Announce, Moves
<1>2. /\ UNCHANGED <<idSeq, restarts, prev, stream, rid, context, life>>
      /\ UNCHANGED <<clock, entries, backend, storedAt>>
  BY DEF Fail, SendReply, Announce, Moves, storeVars
<1>3. /\ phase'[t] = ph
      /\ \A u \in Turns \ {t} : phase'[u] = phase[u]
  BY <1>1 DEF TypeOK
<1>4. TypeOK'
  <2>1. Memory!TypeOK'
    BY <1>2 DEF TypeOK, Memory!TypeOK, Memory!IsEntryMap, Memory!Entry
  <2>2. phase' \in [Turns -> Phases] /\ told' \subseteq Turns
    BY <1>1 DEF TypeOK, Phases
  <2>3. \A u \in Turns : phase'[u] \in {"waiting", "stored", "announced", "done"} => rid'[u] # 0
    BY <1>1, <1>2, <1>3 DEF TypeOK
  <2>4. QED
    BY <1>2, <2>1, <2>2, <2>3 DEF TypeOK
<1>5. SameTurns
  BY <1>1, <1>2, <1>3 DEF SameTurns, InFlight
<1>6. StoredAnswers'
  BY <1>1, <1>2, <1>3 DEF StoredAnswers, TypeOK, Memory!TypeOK, Memory!IsEntryMap, Memory!Entry
<1>7. ToldTurns'
  <2>1. \A q \in told : phase[q] \in {"announced", "done", "lost"}
                        /\ (~stream[q] => phase[q] = "done")
    BY Zenon DEF ToldTurns
  <2>2. t \notin told
    BY <1>1, <2>1
  <2>3. \A q \in told' : phase'[q] \in {"announced", "done", "lost"}
                         /\ (~stream[q] => phase'[q] = "done")
    BY <1>1, <1>3, <2>1, <2>2 DEF TypeOK
  <2>4. QED
    BY <1>2, <2>3, Zenon DEF ToldTurns
<1>8. OwnEntry'
  BY <1>1, <1>2, <1>3 DEF OwnEntry
<1>9. MemoryOfProcess'
  BY <1>2 DEF MemoryOfProcess
<1>10. QED
  BY <1>4, <1>5, <1>6, <1>7, <1>8, <1>9, SameTurnsKeep

\* A cleanup only takes entries away, and time passes for all.
LEMMA CleanupTickKeepInv ==
  ASSUME TurnsInv, Cleanup \/ Tick
  PROVE  TurnsInv'
<1> USE DEF TurnsInv
<1>1. /\ UNCHANGED <<backend, idSeq, restarts, phase, prev, stream, rid, context, life,
                     told, storedAt>>
      /\ DOMAIN entries' \subseteq DOMAIN entries
      /\ \A i \in DOMAIN entries' : entries'[i] = entries[i]
      /\ clock' \in 0 .. MaxClock /\ clock' >= clock
  BY ConversationsAssumption
     DEF Cleanup, Tick, Memory!Cleanup, Memory!Tick, Memory!Unexpired, Memory!Without, turnVars,
         TypeOK, Memory!TypeOK
<1>2. Memory!TypeOK'
  <2>1. IsFiniteSet(DOMAIN entries)
    <3>1. IsFiniteSet(Ids)
      BY ConversationsAssumption, FS_Interval DEF Ids
    <3>2. QED
      BY <3>1, FS_Subset DEF TypeOK, Memory!TypeOK, Memory!IsEntryMap
  <2>2. /\ Cardinality(DOMAIN entries') <= Cardinality(DOMAIN entries)
        /\ Cardinality(DOMAIN entries') \in Nat /\ Cardinality(DOMAIN entries) \in Nat
    BY <1>1, <2>1, FS_Subset, FS_CardinalityType
  <2>3. Cardinality(DOMAIN entries') <= MaxEntries
    BY <2>2, SameCardinality, ConversationsAssumption DEF TypeOK, Memory!TypeOK
  <2>4. clock \in Nat
    BY DEF TypeOK, Memory!TypeOK
  <2>5. QED
    BY <1>1, <2>3, <2>4, SameCardinality
       DEF TypeOK, Memory!TypeOK, Memory!IsEntryMap, Memory!Entry
<1>3. TypeOK'
  <2>1. \A u \in DOMAIN storedAt' : storedAt'[u] \in 0 .. clock'
    BY <1>1 DEF TypeOK, Memory!TypeOK
  <2>2. QED
    BY <1>1, <1>2, <2>1 DEF TypeOK
<1>4. SameTurns
  BY <1>1 DEF SameTurns, InFlight
<1>5. StoredAnswers' /\ OwnEntry' /\ MemoryOfProcess'
  BY <1>1 DEF StoredAnswers, OwnEntry, MemoryOfProcess
<1>6. ToldTurns'
  BY <1>1 DEF ToldTurns
<1>7. QED
  BY <1>3, <1>4, <1>5, <1>6, SameTurnsKeep

\* A restart: no turn is of the new process, and the memory store is empty.
LEMMA RestartKeepsInv ==
  ASSUME TurnsInv, Restart
  PROVE  TurnsInv'
<1> USE DEF TurnsInv
<1>1. /\ UNCHANGED <<clock, backend, prev, stream, rid, context, told, life, storedAt>>
      /\ restarts' = restarts + 1 /\ restarts < MaxRestarts /\ idSeq' = 0
      /\ phase' = [t \in Turns |-> IF t \in InFlight THEN "lost" ELSE phase[t]]
      /\ DOMAIN entries' \subseteq DOMAIN entries
      /\ \A i \in DOMAIN entries' : entries'[i] = entries[i]
      /\ backend = "memory" => DOMAIN entries' = {}
  BY DEF Restart, Memory!Unexpired, Memory!Without, Memory!NoEntries
<1>2. Memory!TypeOK'
  <2>1. IsFiniteSet(DOMAIN entries)
    <3>1. IsFiniteSet(Ids)
      BY ConversationsAssumption, FS_Interval DEF Ids
    <3>2. QED
      BY <3>1, FS_Subset DEF TypeOK, Memory!TypeOK, Memory!IsEntryMap
  <2>2. /\ Cardinality(DOMAIN entries') <= Cardinality(DOMAIN entries)
        /\ Cardinality(DOMAIN entries') \in Nat /\ Cardinality(DOMAIN entries) \in Nat
    BY <1>1, <2>1, FS_Subset, FS_CardinalityType
  <2>3. Cardinality(DOMAIN entries') <= MaxEntries
    BY <2>2, SameCardinality, ConversationsAssumption DEF TypeOK, Memory!TypeOK
  <2>4. QED
    BY <1>1, <2>3, SameCardinality
       DEF TypeOK, Memory!TypeOK, Memory!IsEntryMap, Memory!Entry
<1>3. restarts' \in 0 .. MaxRestarts /\ \A t \in Turns : life[t] < restarts' /\ life[t] <= restarts'
  BY <1>1, ConversationsAssumption DEF TypeOK, OwnProcess
<1>4. TypeOK'
  <2>1. phase' \in [Turns -> Phases]
    BY <1>1 DEF TypeOK, Phases
  <2>2. \A u \in Turns : phase'[u] \in {"waiting", "stored", "announced", "done"} => rid'[u] # 0
    BY <1>1 DEF TypeOK
  <2>3. 0 \in 0 .. NumTurns
    BY ConversationsAssumption
  <2>4. QED
    BY <1>1, <1>2, <1>3, <2>1, <2>2, <2>3 DEF TypeOK
<1>5. OwnContext' /\ ContinuesTold'
  BY <1>1 DEF OwnContext, ContinuesTold
<1>6. CounterBehind'
  BY <1>1, ConversationsAssumption DEF CounterBehind, Turns
<1>7. OwnIds' /\ OwnEntry'
  BY <1>1, <1>3 DEF OwnIds, OwnEntry, TypeOK
<1>8. OwnProcess'
  BY <1>1, <1>3 DEF OwnProcess, InFlight
<1>9. ToldTurns'
  <2>1. \A q \in told : phase[q] \in {"announced", "done", "lost"}
                        /\ (~stream[q] => phase[q] = "done")
    BY Zenon DEF ToldTurns
  <2>2. \A q \in told : phase'[q] \in {"announced", "done", "lost"}
                        /\ (~stream[q] => phase'[q] = "done")
    BY <1>1, <2>1 DEF TypeOK, InFlight
  <2>3. QED
    BY <1>1, <2>2, Zenon DEF ToldTurns
<1>10. StoredAnswers'
  <2>1. \A i \in DOMAIN entries : entries[i].value \in Turns
    BY DEF TypeOK, Memory!TypeOK, Memory!IsEntryMap, Memory!Entry
  <2>2. QED
    BY <1>1, <2>1 DEF StoredAnswers, InFlight
<1>11. MemoryOfProcess'
  BY <1>1 DEF MemoryOfProcess
<1>12. QED
  BY <1>4, <1>5, <1>6, <1>7, <1>8, <1>9, <1>10, <1>11

-------------------------------------------------------------------------------
\* TurnsInv holds in every state: ids are unique within a process, and what a
\* turn stored stays under its id (handler.go:402-431, responses.go:719-728).
THEOREM TurnsHangTogether == Spec => []TurnsInv
<1>1. Init => TurnsInv
  BY InitInv
<1>2. TurnsInv /\ [Next]_vars => TurnsInv'
  <2> SUFFICES ASSUME TurnsInv, [Next]_vars PROVE TurnsInv'
    OBVIOUS
  <2>1. ASSUME NEW t \in Turns, Begin(t) PROVE TurnsInv'
    BY <2>1, BeginKeepsInv
  <2>2. ASSUME NEW t \in Turns, Fail(t) \/ SendReply(t) \/ Announce(t) PROVE TurnsInv'
    <3>1. UNCHANGED <<storeVars, storedAt>>
      BY <2>2 DEF Fail, SendReply, Announce
    <3>2. QED
      BY <2>2, <3>1, MoveKeepsInv
  <2>3. ASSUME NEW t \in Turns, StoreReply(t) PROVE TurnsInv'
    <3>1. t \in InFlight /\ t \notin told
      <4>1. phase[t] = "waiting"
        BY <2>3 DEF StoreReply
      <4>2. QED
        BY <4>1 DEF TurnsInv, ToldTurns, InFlight
    <3>2. QED
      BY <2>3, <3>1, StoreKeepsInv DEF StoreReply
  <2>4. ASSUME NEW t \in Turns, StoreStreamed(t) PROVE TurnsInv'
    <3>1. t \in InFlight
      BY <2>4 DEF StoreStreamed, InFlight
    <3>2. QED
      BY <2>4, <3>1, StoreKeepsInv DEF StoreStreamed
  <2>5. ASSUME Restart PROVE TurnsInv'
    BY <2>5, RestartKeepsInv
  <2>6. ASSUME Cleanup \/ Tick PROVE TurnsInv'
    BY <2>6, CleanupTickKeepInv
  <2>7. CASE UNCHANGED vars
    BY <2>7
       DEF vars, storeVars, turnVars, TurnsInv, TypeOK, Memory!TypeOK, Memory!IsEntryMap,
           Memory!Entry, OwnContext, StoredAnswers, CounterBehind, OwnIds, OwnProcess,
           InFlight, ToldTurns, ContinuesTold, OwnEntry, MemoryOfProcess
  <2>8. QED
    BY <2>1, <2>2, <2>3, <2>4, <2>5, <2>6, <2>7 DEF Next
<1>3. QED
  BY <1>1, <1>2, PTL DEF Spec

\* A follow-up carries its own predecessor's output, whatever concurrent turns
\* store, overwrite or evict (handler.go:402-431, 482-488).
THEOREM ContextIsOwn == Spec => []OwnContext
<1>1. TurnsInv => OwnContext
  BY DEF TurnsInv
<1>2. QED
  BY <1>1, TurnsHangTogether, PTL

\* What is stored under an id answers a turn of that id (handler.go:433-488).
THEOREM OnlyAnswersStored == Spec => []StoredAnswers
<1>1. TurnsInv => StoredAnswers
  BY DEF TurnsInv
<1>2. QED
  BY <1>1, TurnsHangTogether, PTL

\* Between restarts every step of the turns, the cleanup and the clock is, seen
\* through Get, a step of the abstract store or none (store.go:60-131).
THEOREM StoreServes == Spec => ServesStore
<1> DEFINE Served == restarts' = restarts /\ <<clock, entries>>' # <<clock, entries>> =>
                       Abstract!Next \/ UNCHANGED <<clock, Memory!Visible(entries)>>
<1>1. TurnsInv /\ [Next]_vars => [Served]_storeVars
  <2> SUFFICES ASSUME TurnsInv, [Next]_vars, restarts' = restarts,
                      <<clock, entries>>' # <<clock, entries>>
               PROVE  Abstract!Next \/ UNCHANGED <<clock, Memory!Visible(entries)>>
    OBVIOUS
  <2>1. ASSUME NEW t \in Turns, StoreReply(t) \/ StoreStreamed(t)
        PROVE  Abstract!Next
    <3>1. rid[t] \in Ids
      BY <2>1 DEF StoreReply, StoreStreamed, TurnsInv, TypeOK
    <3>2. Memory!Store(rid[t], t) /\ Memory!TypeOK
      BY <2>1 DEF StoreReply, StoreStreamed, Store, TurnsInv, TypeOK
    <3>3. Abstract!Put(rid[t], t)
      BY <3>1, <3>2, StoreIsPut
    <3>4. QED
      BY <3>1, <3>3 DEF Abstract!Next
  <2>2. ASSUME NEW t \in Turns, Begin(t) \/ Fail(t) \/ SendReply(t) \/ Announce(t)
        PROVE  FALSE
    BY <2>2 DEF Begin, Fail, SendReply, Announce, storeVars
  <2>3. ASSUME Restart PROVE FALSE
    BY <2>3 DEF Restart, TurnsInv, TypeOK
  <2>4. ASSUME Cleanup PROVE UNCHANGED <<clock, Memory!Visible(entries)>>
    <3>1. Memory!Cleanup /\ clock' = clock
      BY <2>4 DEF Cleanup, Memory!Cleanup
    <3>2. QED
      BY <3>1, CleanupShowsNothing
  <2>5. ASSUME Tick PROVE Abstract!Next
    <3>1. Memory!Tick /\ Memory!TypeOK
      BY <2>5 DEF Tick, TurnsInv, TypeOK
    <3>2. QED
      BY <3>1, TickIsTick DEF Abstract!Next
  <2>6. CASE UNCHANGED vars
    BY <2>6 DEF vars, storeVars
  <2>7. QED
    BY <2>1, <2>2, <2>3, <2>4, <2>5, <2>6 DEF Next
<1>2. QED
  BY <1>1, TurnsHangTogether, PTL DEF Spec, ServesStore

-------------------------------------------------------------------------------
(* Why a follow-up is refused.  What is stored stays found until there is a  *)
(* reason for it to go, and the reasons stay.                                *)

\* A turn is stored once.
StoredOnce ==
  \A t \in Turns :
    /\ phase[t] \in {"stored", "done"} => t \in DOMAIN storedAt
    /\ t \in DOMAIN storedAt => phase[t] \in {"stored", "done", "lost"}

\* An entry was stored when its turn was, and no other one then.
EntriesDated ==
  \A i \in DOMAIN entries :
    /\ entries[i].value \in DOMAIN storedAt
    /\ storedAt[entries[i].value] = entries[i].at
    /\ \A j \in DOMAIN entries : entries[j].at = entries[i].at => i = j

\* The reasons for which a stored turn is not found.
Gone(p) ==
  \/ clock - storedAt[p] > TTL
  \/ Cardinality(Newer(p)) >= MaxEntries
  \/ backend = "memory" /\ life[p] # restarts

\* After a restart the id may hold a newer turn's entry: it goes no sooner.
FoundOrGone ==
  \A p \in DOMAIN storedAt :
    \/ rid[p] \in DOMAIN entries /\ storedAt[p] <= entries[rid[p]].at
    \/ Gone(p)

DatesInv == StoredOnce /\ EntriesDated /\ FoundOrGone

\* The newer turns are finitely many.
LEMMA NewerFinite ==
  ASSUME TurnsInv, NEW p
  PROVE  IsFiniteSet(Newer(p)) /\ Cardinality(Newer(p)) \in Nat
<1>1. IsFiniteSet(Turns) /\ Newer(p) \in SUBSET Turns
  BY ConversationsAssumption, FS_Interval DEF Turns, Newer, TurnsInv, TypeOK
<1>2. QED
  BY <1>1, FS_Subset, FS_CardinalityType

\* The times of a typed state are numbers.
LEMMA DatedTimes ==
  ASSUME TurnsInv
  PROVE  /\ clock \in Nat
         /\ \A i \in DOMAIN entries : entries[i].at \in Nat /\ entries[i].at <= clock
         /\ \A p \in DOMAIN storedAt : p \in Turns /\ storedAt[p] \in Nat /\ storedAt[p] <= clock
         /\ DOMAIN storedAt \in SUBSET Turns
  BY DEF TurnsInv, TypeOK, Memory!TypeOK, Memory!IsEntryMap, Memory!Entry

\* Storing a turn takes an entry away only if as many newer ones are stored as
\* the map can hold.
LEMMA StoreKeepsDates ==
  ASSUME TurnsInv, TurnsInv', DatesInv, NEW t \in Turns, phase[t] \in {"waiting", "announced"},
         Store(t), NEW ph \in {"stored", "done"}, Moves(t, ph)
  PROVE  DatesInv'
<1>1. /\ Memory!Store(rid[t], t) /\ backend' = backend /\ clock' = clock
      /\ storedAt' = [u \in DOMAIN storedAt \cup {t} |-> IF u = t THEN clock ELSE storedAt[u]]
      /\ phase' = [phase EXCEPT ![t] = ph]
      /\ UNCHANGED <<restarts, rid, life>>
      /\ \A i \in DOMAIN entries : entries[i].at < clock
  BY DEF Store, Moves, Memory!Store, Memory!FreshTick
<1>2. /\ rid[t] \in DOMAIN entries' /\ entries'[rid[t]] = [value |-> t, at |-> clock]
      /\ \A i \in DOMAIN entries' : i # rid[t] => i \in DOMAIN entries /\ entries'[i] = entries[i]
      /\ \A i \in DOMAIN entries : i \notin DOMAIN entries' =>
           Memory!AtCapacity(entries) /\ i \in Memory!Oldest(entries) /\ i # rid[t]
  BY <1>1 DEF Memory!Store, Memory!Inserted, Memory!MakeRoom, Memory!Without
<1>3. t \notin DOMAIN storedAt
  BY DEF DatesInv, StoredOnce
<1>4. /\ clock \in Nat
      /\ \A i \in DOMAIN entries : entries[i].at \in Nat
      /\ \A p \in DOMAIN storedAt : p \in Turns /\ storedAt[p] \in Nat /\ storedAt[p] <= clock
  BY DatedTimes
<1>5. /\ t \in DOMAIN storedAt' /\ storedAt'[t] = clock
      /\ DOMAIN storedAt' = DOMAIN storedAt \cup {t}
      /\ \A p \in DOMAIN storedAt : storedAt'[p] = storedAt[p] /\ p # t
  BY <1>1, <1>3
<1>6. StoredOnce'
  BY <1>1, <1>5 DEF DatesInv, StoredOnce, TurnsInv, TypeOK
<1>7. \A i \in DOMAIN entries : entries[i].value \in DOMAIN storedAt
                                /\ storedAt[entries[i].value] = entries[i].at
                                /\ rid[entries[i].value] = i
  BY DEF DatesInv, EntriesDated, TurnsInv, StoredAnswers
<1>8. EntriesDated'
  <2>1. ASSUME NEW i \in DOMAIN entries'
        PROVE  /\ entries'[i].value \in DOMAIN storedAt'
               /\ storedAt'[entries'[i].value] = entries'[i].at
    BY <1>2, <1>5, <1>7
  <2>2. ASSUME NEW i \in DOMAIN entries', NEW j \in DOMAIN entries', entries'[j].at = entries'[i].at
        PROVE  i = j
    <3>1. CASE i # rid[t] /\ j # rid[t]
      BY <1>2, <2>2, <3>1 DEF DatesInv, EntriesDated
    <3>2. \A k \in DOMAIN entries' : k # rid[t] => entries'[k].at < clock /\ entries'[k].at \in Nat
      BY <1>1, <1>2, <1>4
    <3>3. entries'[rid[t]].at = clock
      BY <1>2
    <3>4. QED
      BY <1>4, <2>2, <3>1, <3>2, <3>3
  <2>3. QED
    BY <2>1, <2>2 DEF EntriesDated
<1>9. FoundOrGone'
  <2> SUFFICES ASSUME NEW p \in DOMAIN storedAt'
               PROVE  \/ rid'[p] \in DOMAIN entries' /\ storedAt'[p] <= entries'[rid'[p]].at
                      \/ Gone(p)'
    BY DEF FoundOrGone
  <2>1. CASE p = t
    BY <1>1, <1>2, <1>4, <1>5, <2>1
  <2>2. CASE p # t
    <3>1. /\ p \in DOMAIN storedAt /\ storedAt'[p] = storedAt[p] /\ storedAt[p] \in Nat
      BY <1>4, <1>5, <2>2
    <3>2. Newer(p) \subseteq Newer(p)'
      BY <1>5, <3>1 DEF Newer
    <3>3. IsFiniteSet(Newer(p)') /\ Cardinality(Newer(p)') \in Nat
      <4>1. IsFiniteSet(Turns) /\ Newer(p)' \in SUBSET Turns
        BY ConversationsAssumption, FS_Interval DEF Turns, Newer, TurnsInv, TypeOK
      <4>2. QED
        BY <4>1, FS_Subset, FS_CardinalityType
    <3>4. CASE Gone(p)
      <4>1. Cardinality(Newer(p)) <= Cardinality(Newer(p)') /\ Cardinality(Newer(p)) \in Nat
        BY <3>2, <3>3, FS_Subset, FS_CardinalityType
      <4>2. Cardinality(Newer(p)) >= MaxEntries => Cardinality(Newer(p)') >= MaxEntries
        BY <3>3, <4>1, ConversationsAssumption
      <4>3. QED
        BY <1>1, <3>1, <3>4, <4>2 DEF Gone
    <3>5. CASE rid[p] \in DOMAIN entries' /\ rid[p] \in DOMAIN entries
               /\ storedAt[p] <= entries[rid[p]].at
      BY <1>1, <1>2, <1>4, <3>1, <3>5
    <3>6. CASE rid[p] \notin DOMAIN entries' /\ rid[p] \in DOMAIN entries
               /\ storedAt[p] <= entries[rid[p]].at
      <4> DEFINE o == rid[p]
                 S == DOMAIN entries \ {o}
                 R == Newer(p)' \ {t}
                 f == [j \in S |-> entries[j].value]
      <4>1. IsFiniteSet(DOMAIN entries) /\ Cardinality(DOMAIN entries) \in Nat
            /\ Cardinality(DOMAIN entries) >= MaxEntries
        <5>1. IsFiniteSet(Ids) /\ DOMAIN entries \in SUBSET Ids
          BY ConversationsAssumption, FS_Interval
             DEF Ids, TurnsInv, TypeOK, Memory!TypeOK, Memory!IsEntryMap
        <5>2. QED
          BY <1>2, <3>6, <5>1, FS_Subset, FS_CardinalityType, SameCardinality
             DEF Memory!AtCapacity
      <4>2. IsFiniteSet(S) /\ Cardinality(S) = Cardinality(DOMAIN entries) - 1
        BY <3>6, <4>1, FS_RemoveElement
      <4>3. ASSUME NEW j \in S PROVE f[j] \in R
        <5>1. entries[o].at < entries[j].at
          BY <1>2, <1>4, <3>6 DEF Memory!Oldest, DatesInv, EntriesDated
        <5>2. storedAt[f[j]] > storedAt[p] /\ f[j] \in DOMAIN storedAt
          BY <1>4, <1>7, <3>1, <3>6, <5>1
        <5>3. QED
          BY <1>5, <3>1, <5>2 DEF Newer
      <4>4. f \in Injection(S, R)
        <5>1. f \in [S -> R]
          BY <4>3
        <5>2. \A j, k \in S : f[j] = f[k] => j = k
          BY <1>7
        <5>3. QED
          BY <5>1, <5>2 DEF Injection, IsInjective
      <4>5. t \in Newer(p)'
        <5>1. storedAt[p] < clock
          BY <1>1, <1>4, <3>1, <3>6
        <5>2. QED
          BY <1>4, <1>5, <3>1, <5>1 DEF Newer
      <4>6. IsFiniteSet(R) /\ Cardinality(R) = Cardinality(Newer(p)') - 1
        BY <3>3, <4>5, FS_RemoveElement
      <4> HIDE DEF S, R, f
      <4>7. Cardinality(S) <= Cardinality(R)
        BY <4>4, <4>6, FS_Injection
      <4>8. Cardinality(Newer(p)') >= MaxEntries
        BY <3>3, <4>1, <4>2, <4>6, <4>7, ConversationsAssumption
      <4>9. QED
        BY <4>8 DEF Gone
    <3>7. QED
      BY <1>1, <3>1, <3>4, <3>5, <3>6 DEF DatesInv, FoundOrGone
  <2>3. QED
    BY <2>1, <2>2
<1>10. QED
  BY <1>6, <1>8, <1>9 DEF DatesInv

\* Dropping expired entries, as the cleanup and a restart on the file store do,
\* and letting time pass.
LEMMA AgingKeepsDates ==
  ASSUME TurnsInv, DatesInv, clock' \in Nat, clock <= clock',
         entries' \in {entries, Memory!Unexpired(clock, entries)},
         UNCHANGED <<storedAt, backend, rid, life>>,
         backend = "memory" => restarts' = restarts,
         \A t \in Turns : \/ phase'[t] = phase[t]
                          \/ phase[t] \in {"stored", "waiting", "announced"} /\ phase'[t] = "lost"
  PROVE  DatesInv'
<1>1. /\ \A i \in DOMAIN entries' : i \in DOMAIN entries /\ entries'[i] = entries[i]
      /\ \A i \in DOMAIN entries : i \notin DOMAIN entries' => clock - entries[i].at > TTL
  BY DEF Memory!Unexpired, Memory!Without, Memory!Expired
<1>2. /\ clock \in Nat
      /\ \A i \in DOMAIN entries : entries[i].at \in Nat
      /\ \A p \in DOMAIN storedAt : p \in Turns /\ storedAt[p] \in Nat /\ storedAt[p] <= clock
  BY DatedTimes
<1>3. StoredOnce'
  <2>1. \A t \in Turns : phase[t] \in {"waiting", "announced"} => t \notin DOMAIN storedAt
    BY DEF DatesInv, StoredOnce
  <2>2. QED
    BY <2>1 DEF DatesInv, StoredOnce
<1>4. EntriesDated'
  BY <1>1 DEF DatesInv, EntriesDated
<1>5. FoundOrGone'
  <2> SUFFICES ASSUME NEW p \in DOMAIN storedAt
               PROVE  \/ rid[p] \in DOMAIN entries' /\ storedAt[p] <= entries'[rid[p]].at
                      \/ Gone(p)'
    BY DEF FoundOrGone
  <2>1. Newer(p)' = Newer(p)
    BY DEF Newer
  <2>2. CASE Gone(p)
    BY <1>2, <2>1, <2>2, ConversationsAssumption DEF Gone
  <2>3. CASE rid[p] \in DOMAIN entries /\ storedAt[p] <= entries[rid[p]].at
    <3>1. CASE rid[p] \in DOMAIN entries'
      BY <1>1, <2>3, <3>1
    <3>2. CASE rid[p] \notin DOMAIN entries'
      <4>1. clock - entries[rid[p]].at > TTL
        BY <1>1, <2>3, <3>2
      <4>2. clock' - storedAt[p] > TTL
        BY <1>2, <2>3, <4>1, ConversationsAssumption
      <4>3. QED
        BY <4>2 DEF Gone
    <3>3. QED
      BY <3>1, <3>2
  <2>4. QED
    BY <2>2, <2>3 DEF DatesInv, FoundOrGone
<1>6. QED
  BY <1>3, <1>4, <1>5 DEF DatesInv

LEMMA DatesStep ==
  ASSUME TurnsInv, TurnsInv', DatesInv, [Next]_vars
  PROVE  DatesInv'
<1>1. ASSUME NEW t \in Turns, Begin(t) PROVE DatesInv'
  <2>1. /\ UNCHANGED <<clock, entries, backend, restarts, storedAt>>
        /\ phase[t] = "new"
        /\ \A u \in Turns \ {t} : phase'[u] = phase[u] /\ rid'[u] = rid[u] /\ life'[u] = life[u]
        /\ phase'[t] \in {"refused", "waiting"}
    BY <1>1 DEF Begin, storeVars, TurnsInv, TypeOK
  <2>2. t \notin DOMAIN storedAt /\ DOMAIN storedAt \in SUBSET Turns
    BY <2>1, DatedTimes DEF DatesInv, StoredOnce
  <2>3. StoredOnce' /\ EntriesDated'
    BY <2>1, <2>2 DEF DatesInv, StoredOnce, EntriesDated
  <2>4. FoundOrGone'
    <3>1. \A p \in DOMAIN storedAt : Newer(p)' = Newer(p)
      BY <2>1 DEF Newer
    <3>2. \A p \in DOMAIN storedAt : p \in Turns \ {t}
      BY <2>2
    <3>3. QED
      BY <2>1, <3>1, <3>2 DEF DatesInv, FoundOrGone, Gone
  <2>5. QED
    BY <2>3, <2>4 DEF DatesInv
<1>2. ASSUME NEW t \in Turns, Fail(t) \/ SendReply(t) \/ Announce(t) PROVE DatesInv'
  <2>1. /\ UNCHANGED <<clock, entries, backend, restarts, storedAt, rid, life>>
        /\ \/ phase[t] = "waiting" /\ phase'[t] \in {"failed", "announced"}
           \/ phase[t] = "stored" /\ phase'[t] = "done"
        /\ \A u \in Turns \ {t} : phase'[u] = phase[u]
    BY <1>2 DEF Fail, SendReply, Announce, Moves, storeVars, TurnsInv, TypeOK
  <2>2. StoredOnce' /\ EntriesDated'
    BY <2>1 DEF DatesInv, StoredOnce, EntriesDated
  <2>3. FoundOrGone'
    BY <2>1 DEF DatesInv, FoundOrGone, Gone, Newer
  <2>4. QED
    BY <2>2, <2>3 DEF DatesInv
<1>3. ASSUME NEW t \in Turns, StoreReply(t) \/ StoreStreamed(t) PROVE DatesInv'
  BY <1>3, StoreKeepsDates DEF StoreReply, StoreStreamed
<1>4. CASE Restart /\ backend = "memory"
  <2>1. /\ DOMAIN entries' = {} /\ restarts' = restarts + 1
        /\ UNCHANGED <<clock, backend, rid, life, storedAt>>
    BY <1>4 DEF Restart, Memory!NoEntries
  <2>2. \A t \in Turns : \/ phase'[t] = phase[t]
                         \/ phase[t] \in {"stored", "waiting", "announced"} /\ phase'[t] = "lost"
    BY <1>4 DEF Restart, InFlight
  <2>3. StoredOnce'
    <3>1. \A t \in Turns : phase[t] \in {"waiting", "announced"} => t \notin DOMAIN storedAt
      BY DEF DatesInv, StoredOnce
    <3>2. QED
      BY <2>1, <2>2, <3>1 DEF DatesInv, StoredOnce
  <2>4. \A p \in DOMAIN storedAt : life[p] # restarts'
    BY <2>1, DatedTimes DEF TurnsInv, TypeOK, OwnProcess
  <2>5. EntriesDated' /\ FoundOrGone'
    BY <1>4, <2>1, <2>4 DEF EntriesDated, FoundOrGone, Gone
  <2>6. QED
    BY <2>3, <2>5 DEF DatesInv
<1>5. CASE Restart /\ backend # "memory"
  <2>1. /\ entries' = Memory!Unexpired(clock, entries)
        /\ UNCHANGED <<clock, backend, rid, life, storedAt>>
    BY <1>5, ConversationsAssumption DEF Restart, TurnsInv, TypeOK
  <2>2. \A t \in Turns : \/ phase'[t] = phase[t]
                         \/ phase[t] \in {"stored", "waiting", "announced"} /\ phase'[t] = "lost"
    BY <1>5 DEF Restart, InFlight
  <2>3. clock' \in Nat /\ clock <= clock'
    BY <2>1, DatedTimes
  <2>4. QED
    BY <1>5, <2>1, <2>2, <2>3, AgingKeepsDates
<1>6. CASE Cleanup
  <2>1. /\ entries' = Memory!Unexpired(clock, entries)
        /\ UNCHANGED <<clock, backend, rid, life, storedAt, restarts, phase>>
    BY <1>6 DEF Cleanup, Memory!Cleanup, turnVars
  <2>2. clock' \in Nat /\ clock <= clock'
    BY <2>1, DatedTimes
  <2>3. QED
    BY <2>1, <2>2, AgingKeepsDates
<1>7. CASE Tick
  <2>1. /\ entries' = entries /\ clock' = clock + 1
        /\ UNCHANGED <<backend, rid, life, storedAt, restarts, phase>>
    BY <1>7 DEF Tick, Memory!Tick, turnVars
  <2>2. clock' \in Nat /\ clock <= clock'
    BY <2>1, DatedTimes
  <2>3. QED
    BY <2>1, <2>2, AgingKeepsDates
<1>8. CASE UNCHANGED vars
  <2>1. UNCHANGED <<clock, entries, backend, restarts, storedAt, rid, life, phase>>
    BY <1>8 DEF vars, storeVars, turnVars
  <2>2. QED
    BY <2>1 DEF DatesInv, StoredOnce, EntriesDated, FoundOrGone, Gone, Newer
<1>9. QED
  BY <1>1, <1>2, <1>3, <1>4, <1>5, <1>6, <1>7, <1>8 DEF Next

\* DatesInv holds in every state: what was stored is found, or has expired, or
\* has made room for as many newer ones as the store holds, or a restart has
\* emptied the memory store (store.go:62-131).
THEOREM StoredUntilGone == Spec => []DatesInv
<1>1. Init => DatesInv
  BY DEF Init, Memory!Init, Memory!NoEntries, DatesInv, StoredOnce, EntriesDated, FoundOrGone
<1>2. TurnsInv /\ TurnsInv' /\ DatesInv /\ [Next]_vars => DatesInv'
  BY DatesStep
<1>3. QED
  BY <1>1, <1>2, TurnsHangTogether, PTL DEF Spec

\* So a follow-up is refused only if its predecessor is gone for one of these
\* reasons, or is streamed and not stored yet (handler.go:402-431).
THEOREM RefusalHasReason == Spec => RefusedWithReason
<1> DEFINE Reasoned ==
             \A t \in Turns :
               phase[t] = "new" /\ phase'[t] = "refused" =>
                 LET p == prev'[t]
                 IN IF p \notin DOMAIN storedAt THEN stream[p]
                    ELSE \/ clock - storedAt[p] > TTL
                         \/ Cardinality(Newer(p)) >= MaxEntries
                         \/ backend = "memory" /\ life[p] # restarts
<1>1. TurnsInv /\ DatesInv /\ [Next]_vars => [Reasoned]_vars
  <2> SUFFICES ASSUME TurnsInv, DatesInv, Next,
                      NEW t \in Turns, phase[t] = "new", phase'[t] = "refused"
               PROVE  IF prev'[t] \notin DOMAIN storedAt THEN stream[prev'[t]]
                      ELSE Gone(prev'[t])
    BY DEF Gone
  <2>1. Begin(t)
    <3>1. ASSUME NEW u \in Turns, Begin(u) PROVE u = t
      BY <3>1 DEF Begin, TurnsInv, TypeOK
    <3>2. ASSUME NEW u \in Turns, Fail(u) \/ StoreReply(u) \/ SendReply(u)
                                  \/ Announce(u) \/ StoreStreamed(u)
          PROVE  FALSE
      <4>1. PICK ph \in {"failed", "stored", "done", "announced"} :
              phase' = [phase EXCEPT ![u] = ph]
        BY <3>2 DEF Fail, StoreReply, SendReply, Announce, StoreStreamed, Moves
      <4>2. QED
        BY <4>1 DEF TurnsInv, TypeOK
    <3>3. ASSUME Restart \/ Cleanup \/ Tick PROVE FALSE
      BY <3>3 DEF Restart, Cleanup, Tick, turnVars, InFlight
    <3>4. QED
      BY <3>1, <3>2, <3>3 DEF Next
  <2>2. PICK p \in {NoTurn} \cup told : prev'[t] = p /\ p # NoTurn /\ ~Found(p)
    BY <2>1 DEF Begin, TurnsInv, TypeOK
  <2>3. p \in told /\ (~stream[p] => phase[p] = "done")
    BY <2>2 DEF TurnsInv, ToldTurns
  <2>4. CASE p \notin DOMAIN storedAt
    <3>1. p \in Turns /\ stream[p] \in BOOLEAN
      BY <2>3 DEF TurnsInv, TypeOK
    <3>2. phase[p] # "done"
      BY <2>4, <3>1 DEF DatesInv, StoredOnce
    <3>3. QED
      BY <2>2, <2>3, <2>4, <3>1, <3>2
  <2>5. CASE p \in DOMAIN storedAt
    <3>1. ASSUME rid[p] \in DOMAIN entries, storedAt[p] <= entries[rid[p]].at
          PROVE  clock - storedAt[p] > TTL
      <4>1. clock - entries[rid[p]].at > TTL
        BY <2>2, <3>1, VisibleEntries DEF Found
      <4>2. QED
        BY <2>5, <3>1, <4>1, DatedTimes, ConversationsAssumption
    <3>2. QED
      BY <2>2, <2>5, <3>1 DEF DatesInv, FoundOrGone, Gone
  <2>6. QED
    BY <2>4, <2>5
<1>2. QED
  BY <1>1, TurnsHangTogether, StoredUntilGone, PTL DEF Spec, RefusedWithReason

===============================================================================
