--------------------------- MODULE FileStoreProofs ---------------------------
(*****************************************************************************)
(* The file store keeps what it has acknowledged: proofs for every number of *)
(* entries, time to live, set of faults and length of the file.              *)
(*                                                                           *)
(* The argument has four parts.  Lemmas about the entry map: an insertion    *)
(* and its eviction commute with dropping what has expired.  Lemmas about    *)
(* load, by induction over the lines: a file whose records are in the order  *)
(* they were stored is read back to a map that is not behind it (Replayed),  *)
(* reading it later gives what waiting leaves (LoadedLater), and what        *)
(* compaction writes gives the map it was made of (LoadedCompacted).         *)
(* StructInv, the inductive invariant that holds whatever fails.  And on top *)
(* of it DurableInv, as long as nothing has failed, and SurviveInv, as long  *)
(* as no failure has reached the lines already written.                      *)
(*****************************************************************************)
EXTENDS FileStore, SetInduction

-------------------------------------------------------------------------------
(* The entry map. *)

\* What every map of the store is: a function on finitely many ids, within
\* store_max_entries.
StoreMap(es) ==
  /\ es = [i \in DOMAIN es |-> es[i]]
  /\ IsEntryMap(es)
  /\ IsFiniteSet(DOMAIN es)
  /\ Cardinality(DOMAIN es) <= MaxEntries

\* No two entries of the map were stored at the same time.
Distinct(es) == \A i, j \in DOMAIN es : es[i].at = es[j].at => i = j

\* Maps with the same entries are the same map.
LEMMA SameMap ==
  ASSUME NEW es, NEW fs, es = [i \in DOMAIN es |-> es[i]],
         fs = [i \in DOMAIN fs |-> fs[i]],
         DOMAIN es = DOMAIN fs, \A i \in DOMAIN es : es[i] = fs[i]
  PROVE  es = fs
<1>1. es = [i \in DOMAIN es |-> fs[i]]
  BY Zenon
<1>2. QED
  BY <1>1, Zenon

LEMMA NoEntriesMap == StoreMap(NoEntries) /\ DOMAIN NoEntries = {}
  BY FS_EmptySet, StoreAssumption DEF StoreMap, NoEntries, IsEntryMap

\* The times of a map are numbers.
LEMMA EntryTimes ==
  ASSUME NEW es, StoreMap(es)
  PROVE  \A i \in DOMAIN es : es[i].at \in Nat /\ es[i].at <= MaxClock
  BY StoreAssumption DEF StoreMap, IsEntryMap, Entry

\* A map that is not empty has an oldest entry.
LEMMA OldestExists ==
  ASSUME NEW es, StoreMap(es), DOMAIN es # {}
  PROVE  Oldest(es) # {}
<1> DEFINE times == {es[i].at : i \in DOMAIN es}
<1>1. times \in SUBSET Nat /\ times # {}
  BY EntryTimes
<1>2. PICK t \in times : \A u \in times : t <= u
  <2> HIDE DEF times
  <2>1. QED
    BY <1>1, Least
<1>3. QED
  BY <1>2 DEF Oldest

\* Dropping entries leaves a map.
LEMMA WithoutMap ==
  ASSUME NEW es, StoreMap(es), NEW gone
  PROVE  /\ StoreMap(Without(es, gone))
         /\ DOMAIN Without(es, gone) = DOMAIN es \ gone
         /\ \A i \in DOMAIN Without(es, gone) : Without(es, gone)[i] = es[i]
<1>1. /\ DOMAIN Without(es, gone) = DOMAIN es \ gone
      /\ \A i \in DOMAIN Without(es, gone) : Without(es, gone)[i] = es[i]
      /\ Without(es, gone) = [i \in DOMAIN Without(es, gone) |-> Without(es, gone)[i]]
  BY DEF Without
<1>2. /\ IsFiniteSet(DOMAIN es \ gone)
      /\ Cardinality(DOMAIN es \ gone) <= Cardinality(DOMAIN es)
      /\ Cardinality(DOMAIN es \ gone) \in Nat /\ Cardinality(DOMAIN es) \in Nat
  BY FS_Subset, FS_CardinalityType DEF StoreMap
<1>3. IsEntryMap(Without(es, gone))
  BY <1>1 DEF StoreMap, IsEntryMap
<1>4. QED
  BY <1>1, <1>2, <1>3, StoreAssumption DEF StoreMap

\* evictOldest leaves room for one more.
LEMMA RoomMade ==
  ASSUME NEW es, StoreMap(es)
  PROVE  /\ StoreMap(MakeRoom(es))
         /\ DOMAIN MakeRoom(es) \subseteq DOMAIN es
         /\ \A i \in DOMAIN MakeRoom(es) : MakeRoom(es)[i] = es[i]
         /\ Cardinality(DOMAIN MakeRoom(es)) < MaxEntries
<1>1. Cardinality(DOMAIN es) \in Nat
  BY FS_CardinalityType DEF StoreMap
<1>2. CASE AtCapacity(es)
  <2>1. MakeRoom(es) = Without(es, Oldest(es))
    BY <1>2 DEF MakeRoom
  <2>2. DOMAIN es # {}
    BY <1>2, FS_EmptySet, StoreAssumption DEF AtCapacity
  <2>3. PICK o \in DOMAIN es : o \in Oldest(es)
    BY <2>2, OldestExists DEF Oldest
  <2>4. /\ IsFiniteSet(DOMAIN es \ {o})
        /\ Cardinality(DOMAIN es \ {o}) = Cardinality(DOMAIN es) - 1
    BY FS_RemoveElement DEF StoreMap
  <2>5. DOMAIN es \ Oldest(es) \in SUBSET (DOMAIN es \ {o})
    BY <2>3
  <2>6. /\ Cardinality(DOMAIN es \ Oldest(es)) <= Cardinality(DOMAIN es \ {o})
        /\ Cardinality(DOMAIN es \ Oldest(es)) \in Nat
    BY <2>4, <2>5, FS_Subset, FS_CardinalityType
  <2>7. /\ StoreMap(MakeRoom(es))
        /\ DOMAIN MakeRoom(es) = DOMAIN es \ Oldest(es)
        /\ \A i \in DOMAIN MakeRoom(es) : MakeRoom(es)[i] = es[i]
    <3> DEFINE left == Without(es, Oldest(es))
    <3>1. /\ StoreMap(left) /\ DOMAIN left = DOMAIN es \ Oldest(es)
          /\ \A i \in DOMAIN left : left[i] = es[i]
      BY WithoutMap, Zenon
    <3>2. QED
      BY <2>1, <3>1
  <2>8. Cardinality(DOMAIN MakeRoom(es)) < MaxEntries
    BY <1>1, <2>4, <2>6, <2>7, StoreAssumption DEF StoreMap
  <2>9. QED
    BY <2>7, <2>8
<1>3. CASE ~AtCapacity(es)
  BY <1>1, <1>3, StoreAssumption DEF AtCapacity, MakeRoom
<1>4. QED
  BY <1>2, <1>3

\* The map into is es with one entry more and, if es was full, its oldest less.
TookIn(into, es, id, v, at) ==
  /\ StoreMap(into)
  /\ DOMAIN into = DOMAIN MakeRoom(es) \cup {id}
  /\ into[id] = [value |-> v, at |-> at]
  /\ \A i \in DOMAIN into \ {id} : i \in DOMAIN es /\ into[i] = es[i]

\* An insertion fills the room: what it leaves is a map again.
LEMMA InsertedMap ==
  ASSUME NEW es, StoreMap(es),
         NEW id \in IDs, NEW v \in Responses, NEW at \in 0 .. MaxClock
  PROVE  TookIn(Inserted(es, id, v, at), es, id, v, at)
<1> DEFINE room == MakeRoom(es)
           into == Inserted(es, id, v, at)
<1>1. /\ StoreMap(room) /\ DOMAIN room \subseteq DOMAIN es
      /\ \A i \in DOMAIN room : room[i] = es[i]
      /\ Cardinality(DOMAIN room) < MaxEntries
  BY RoomMade
<1>2. /\ DOMAIN into = DOMAIN room \cup {id}
      /\ into = [i \in DOMAIN into |-> into[i]]
      /\ into[id] = [value |-> v, at |-> at]
      /\ \A i \in DOMAIN into \ {id} : i \in DOMAIN room /\ into[i] = room[i]
  BY DEF Inserted
<1>3. [value |-> v, at |-> at] \in Entry
  BY DEF Entry
<1>4. IsEntryMap(into)
  <2> HIDE DEF into, room
  <2>1. QED
    BY <1>1, <1>2, <1>3 DEF StoreMap, IsEntryMap
<1>5. /\ IsFiniteSet(DOMAIN into)
      /\ Cardinality(DOMAIN into) <= MaxEntries
  <2> HIDE DEF into, room
  <2>1. IsFiniteSet(DOMAIN room) /\ Cardinality(DOMAIN room) \in Nat
    BY <1>1, FS_CardinalityType DEF StoreMap
  <2>2. /\ IsFiniteSet(DOMAIN room \cup {id})
        /\ \/ Cardinality(DOMAIN room \cup {id}) = Cardinality(DOMAIN room)
           \/ Cardinality(DOMAIN room \cup {id}) = Cardinality(DOMAIN room) + 1
    BY <2>1, FS_AddElement
  <2>3. QED
    BY <1>1, <1>2, <2>1, <2>2, StoreAssumption
<1>6. QED
  <2> HIDE DEF into, room
  <2>1. StoreMap(into)
    BY <1>2, <1>4, <1>5 DEF StoreMap
  <2>2. TookIn(into, es, id, v, at)
    BY <1>1, <1>2, <2>1 DEF TookIn, room
  <2>3. QED
    BY <2>2 DEF into

\* Of a map the cleanup keeps the entries that have not expired.
LEMMA UnexpiredMap ==
  ASSUME NEW es, StoreMap(es), NEW now
  PROVE  /\ StoreMap(Unexpired(now, es))
         /\ DOMAIN Unexpired(now, es) = {i \in DOMAIN es : ~Expired(now, es[i].at)}
         /\ \A i \in DOMAIN Unexpired(now, es) : Unexpired(now, es)[i] = es[i]
<1> DEFINE gone == {i \in DOMAIN es : Expired(now, es[i].at)}
<1>1. Unexpired(now, es) = Without(es, gone)
  BY DEF Unexpired
<1>2. /\ StoreMap(Without(es, gone))
      /\ DOMAIN Without(es, gone) = DOMAIN es \ gone
      /\ \A i \in DOMAIN Without(es, gone) : Without(es, gone)[i] = es[i]
  BY WithoutMap, Zenon
<1>3. QED
  BY <1>1, <1>2

\* Making room in a map and dropping what has expired commute: a full map with
\* an expired entry loses an expired one, and one without loses the same.
LEMMA RoomUnexpired ==
  ASSUME NEW es, StoreMap(es), NEW now \in Nat
  PROVE  /\ DOMAIN MakeRoom(Unexpired(now, es)) =
              {i \in DOMAIN MakeRoom(es) : ~Expired(now, es[i].at)}
<1> DEFINE left == Unexpired(now, es)
<1>1. /\ StoreMap(left)
      /\ DOMAIN left = {i \in DOMAIN es : ~Expired(now, es[i].at)}
      /\ \A i \in DOMAIN left : left[i] = es[i]
  BY UnexpiredMap
<1> HIDE DEF left
<1>2. /\ Cardinality(DOMAIN es) \in Nat /\ Cardinality(DOMAIN left) \in Nat
      /\ Cardinality(DOMAIN left) <= Cardinality(DOMAIN es)
      /\ Cardinality(DOMAIN left) = Cardinality(DOMAIN es) => DOMAIN left = DOMAIN es
  BY <1>1, FS_Subset, FS_CardinalityType DEF StoreMap
<1>3. CASE ~AtCapacity(es)
  <2>1. ~AtCapacity(left)
    BY <1>2, <1>3, StoreAssumption DEF AtCapacity
  <2>2. QED
    BY <1>1, <1>3, <2>1 DEF MakeRoom, left
<1>4. CASE AtCapacity(es) /\ DOMAIN left = DOMAIN es
  <2>1. left = es
    BY <1>1, <1>4, SameMap DEF StoreMap
  <2>2. \A i \in DOMAIN MakeRoom(es) : ~Expired(now, es[i].at)
    BY <1>1, <1>4, RoomMade
  <2>3. QED
    BY <2>1, <2>2 DEF left
<1>5. CASE AtCapacity(es) /\ DOMAIN left # DOMAIN es
  <2>1. ~AtCapacity(left)
    BY <1>2, <1>5, StoreAssumption DEF AtCapacity, StoreMap
  <2>2. PICK e \in DOMAIN es : Expired(now, es[e].at)
    BY <1>1, <1>5
  <2>3. \A o \in Oldest(es) : o \in DOMAIN es /\ Expired(now, es[o].at)
    <3>1. \A o \in Oldest(es) : o \in DOMAIN es /\ es[o].at <= es[e].at
      BY DEF Oldest
    <3>2. QED
      BY <2>2, <3>1, EntryTimes, StoreAssumption DEF Expired
  <2>4. DOMAIN MakeRoom(es) = DOMAIN es \ Oldest(es)
    BY <1>5 DEF MakeRoom, Without
  <2>5. MakeRoom(left) = left
    BY <2>1 DEF MakeRoom
  <2>6. QED
    BY <1>1, <2>3, <2>4, <2>5 DEF left
<1>6. QED
  BY <1>3, <1>4, <1>5

\* So an insertion does not care whether the map was cleaned up before.
LEMMA InsertedUnexpired ==
  ASSUME NEW es, StoreMap(es), NEW now \in Nat,
         NEW id \in IDs, NEW v \in Responses, NEW at \in 0 .. MaxClock, ~Expired(now, at)
  PROVE  Inserted(Unexpired(now, es), id, v, at) = Unexpired(now, Inserted(es, id, v, at))
<1> DEFINE left == Unexpired(now, es)
           into == Inserted(es, id, v, at)
           intoLeft == Inserted(left, id, v, at)
<1>1. /\ StoreMap(left)
      /\ DOMAIN left = {i \in DOMAIN es : ~Expired(now, es[i].at)}
      /\ \A i \in DOMAIN left : left[i] = es[i]
  BY UnexpiredMap
<1>2. TookIn(into, es, id, v, at)
  BY InsertedMap
<1>3. TookIn(intoLeft, left, id, v, at)
  BY <1>1, InsertedMap
<1>4. DOMAIN MakeRoom(left) = {i \in DOMAIN MakeRoom(es) : ~Expired(now, es[i].at)}
  BY RoomUnexpired
<1>5. /\ StoreMap(Unexpired(now, into))
      /\ DOMAIN Unexpired(now, into) = {i \in DOMAIN into : ~Expired(now, into[i].at)}
      /\ \A i \in DOMAIN Unexpired(now, into) : Unexpired(now, into)[i] = into[i]
  <2> HIDE DEF into
  <2>1. QED
    BY <1>2, UnexpiredMap DEF TookIn
<1>6. QED
  <2> HIDE DEF left, into, intoLeft
  <2> USE DEF TookIn
  <2>1. DOMAIN intoLeft = DOMAIN Unexpired(now, into)
    BY <1>2, <1>3, <1>4, <1>5
  <2>2. \A i \in DOMAIN intoLeft : intoLeft[i] = Unexpired(now, into)[i]
    BY <1>1, <1>2, <1>3, <1>5, <2>1
  <2>3. intoLeft = Unexpired(now, into)
    BY <1>3, <1>5, <2>1, <2>2, SameMap DEF StoreMap
  <2>4. QED
    BY <2>3 DEF left, into, intoLeft

-------------------------------------------------------------------------------
(* load: the recursive function it is, read line by line. *)

Line == Record \cup {Garbage}

\* g is what load has after each of the first n lines.
Reads(g, now, lines, n) ==
  g = [k \in 0 .. n |-> IF k = 0 THEN NoEntries ELSE LoadLine(now, g[k - 1], lines[k])]

LEMMA ReadsExist ==
  ASSUME NEW now, NEW lines, NEW n \in Nat
  PROVE  \E g : Reads(g, now, lines, n)
<1> DEFINE T == {k \in Nat : \E g : Reads(g, now, lines, k)}
<1>1. 0 \in T
  <2>1. Reads([k \in 0 .. 0 |-> NoEntries], now, lines, 0)
    BY DEF Reads
  <2>2. QED
    BY <2>1
<1>2. ASSUME NEW k \in T PROVE k + 1 \in T
  <2>1. PICK g : Reads(g, now, lines, k)
    OBVIOUS
  <2> DEFINE last == LoadLine(now, g[k], lines[k + 1])
             h == [m \in 0 .. k + 1 |-> IF m = k + 1 THEN last ELSE g[m]]
  <2>2. \A m \in 0 .. k : g[m] = IF m = 0 THEN NoEntries ELSE LoadLine(now, g[m - 1], lines[m])
    BY <2>1, Zenon DEF Reads
  <2> HIDE DEF last
  <2>3. \A m \in 0 .. k + 1 :
          h[m] = IF m = 0 THEN NoEntries ELSE LoadLine(now, h[m - 1], lines[m])
    <3> SUFFICES ASSUME NEW m \in 0 .. k + 1
                 PROVE  h[m] = IF m = 0 THEN NoEntries ELSE LoadLine(now, h[m - 1], lines[m])
      OBVIOUS
    <3>1. CASE m = k + 1
      <4>1. h[m] = last /\ h[m - 1] = g[k] /\ m # 0
        BY <3>1
      <4>2. QED
        BY <3>1, <4>1 DEF last
    <3>2. CASE m # k + 1
      <4>1. h[m] = g[m] /\ m \in 0 .. k /\ (m # 0 => h[m - 1] = g[m - 1])
        BY <3>2
      <4>2. QED
        BY <2>2, <4>1
    <3>3. QED
      BY <3>1, <3>2
  <2>4. Reads(h, now, lines, k + 1)
    <3>1. h = [m \in 0 .. k + 1 |-> h[m]]
      OBVIOUS
    <3> HIDE DEF h
    <3>2. QED
      BY <2>3, <3>1, Zenon DEF Reads
  <2>5. QED
    BY <2>4
<1>3. T = Nat
  <2> HIDE DEF T
  <2>1. T \in SUBSET Nat
    BY DEF T
  <2>2. QED
    BY <1>1, <1>2, <2>1, NumbersByInduction
<1>4. QED
  BY <1>3

LEMMA ReadsAgree ==
  ASSUME NEW now, NEW lines, NEW n \in Nat, NEW g, Reads(g, now, lines, n),
         NEW more, NEW m \in Nat, NEW h, Reads(h, now, more, m),
         n <= m, \A k \in 1 .. n : lines[k] = more[k]
  PROVE  \A k \in 0 .. n : g[k] = h[k]
<1> DEFINE T == {k \in Nat : k <= n => g[k] = h[k]}
<1>1. \A k \in 0 .. n : g[k] = IF k = 0 THEN NoEntries ELSE LoadLine(now, g[k - 1], lines[k])
  BY Zenon DEF Reads
<1>2. \A k \in 0 .. m : h[k] = IF k = 0 THEN NoEntries ELSE LoadLine(now, h[k - 1], more[k])
  BY Zenon DEF Reads
<1>3. 0 \in T
  BY <1>1, <1>2
<1>4. ASSUME NEW k \in T PROVE k + 1 \in T
  <2>1. CASE k + 1 > n
    BY <2>1
  <2>2. CASE k + 1 <= n
    <3>1. g[k] = h[k] /\ lines[k + 1] = more[k + 1]
      BY <2>2
    <3>2. g[k + 1] = LoadLine(now, g[k], lines[k + 1])
      BY <1>1, <2>2
    <3>3. h[k + 1] = LoadLine(now, h[k], more[k + 1])
      BY <1>2, <2>2
    <3>4. QED
      BY <3>1, <3>2, <3>3
  <2>3. QED
    BY <2>1, <2>2
<1>5. T = Nat
  <2> HIDE DEF T
  <2>1. T \in SUBSET Nat
    BY DEF T
  <2>2. QED
    BY <1>3, <1>4, <2>1, NumbersByInduction
<1>6. QED
  BY <1>5

\* load returns what it has after the last line.
LEMMA LoadedIsRead ==
  ASSUME NEW now, NEW lines, Len(lines) \in Nat
  PROVE  \E g : Reads(g, now, lines, Len(lines)) /\ Loaded(now, lines) = g[Len(lines)]
<1> DEFINE read == CHOOSE g : Reads(g, now, lines, Len(lines))
<1>1. Reads(read, now, lines, Len(lines))
  BY ReadsExist, Zenon
<1>2. Loaded(now, lines) = read[Len(lines)]
  BY DEF Loaded, Reads
<1>3. QED
  BY <1>1, <1>2, Zenon

LEMMA LoadedEmpty ==
  ASSUME NEW now
  PROVE  Loaded(now, <<>>) = NoEntries
<1>1. PICK g : Reads(g, now, <<>>, 0) /\ Loaded(now, <<>>) = g[0]
  BY LoadedIsRead
<1>2. QED
  BY <1>1 DEF Reads

LEMMA LoadedAppend ==
  ASSUME NEW now, NEW lines \in Seq(Line), NEW line \in Line
  PROVE  Loaded(now, Append(lines, line)) = LoadLine(now, Loaded(now, lines), line)
<1> DEFINE more == Append(lines, line)
           n == Len(lines)
           m == Len(more)
<1>1. /\ n \in Nat /\ m \in Nat /\ m = n + 1 /\ more[m] = line
      /\ \A k \in 1 .. n : lines[k] = more[k]
  BY AppendProperties, LenProperties
<1> HIDE DEF more, n, m
<1>2. PICK g : Reads(g, now, lines, n) /\ Loaded(now, lines) = g[n]
  BY <1>1, LoadedIsRead DEF n
<1>3. PICK h : Reads(h, now, more, m) /\ Loaded(now, more) = h[m]
  BY <1>1, LoadedIsRead DEF m
<1>4. g[n] = h[n]
  <2>1. n <= m /\ n \in 0 .. n
    BY <1>1
  <2>2. \A k \in 0 .. n : g[k] = h[k]
    BY <1>1, <1>2, <1>3, <2>1, ReadsAgree
  <2>3. QED
    BY <2>1, <2>2
<1>5. \A k \in 0 .. m : h[k] = IF k = 0 THEN NoEntries ELSE LoadLine(now, h[k - 1], more[k])
  BY <1>3, Zenon DEF Reads
<1>6. h[m] = LoadLine(now, h[n], line)
  BY <1>1, <1>5
<1>7. QED
  BY <1>2, <1>3, <1>4, <1>6 DEF more

-------------------------------------------------------------------------------
(* What load makes of a file whose records were stored one after the other.  *)

EntryOf(rec) == [value |-> rec.value, at |-> rec.at]

\* The records among the lines of a file.
Records(lines) == {lines[n] : n \in DOMAIN lines} \ {Garbage}

\* No record of recs is newer than rec, or as old without being rec itself.
UpTo(recs, rec) == \A r \in recs : r.at < rec.at \/ r = rec

\* The file has its records in the order they were stored, a record possibly
\* repeated: compaction writes a record that Store then appends once more.
Ascending(lines) ==
  \A m, n \in DOMAIN lines :
    m < n /\ lines[m] # Garbage /\ lines[n] # Garbage
    => lines[m].at < lines[n].at \/ lines[m] = lines[n]

LEMMA RecordType ==
  ASSUME NEW rec \in Record
  PROVE  /\ rec.id \in IDs /\ rec.value \in Responses /\ rec.at \in 0 .. MaxClock
         /\ rec.at \in Nat /\ rec # Garbage
         /\ rec = [id |-> rec.id, value |-> rec.value, at |-> rec.at]
<1>1. rec \in [id : IDs, value : Responses, at : Nat]
  BY StoreAssumption DEF Record
<1>2. QED
  BY <1>1, FileAssumption, StoreAssumption DEF Record

LEMMA RecordsOfLines ==
  ASSUME NEW lines \in Seq(Line)
  PROVE  Records(lines) \subseteq Record
<1>1. \A n \in DOMAIN lines : lines[n] \in Line
  BY ElementOfSeq, LenProperties
<1>2. QED
  BY <1>1 DEF Records, Line

LEMMA RecordsAppend ==
  ASSUME NEW lines \in Seq(Line), NEW line \in Line
  PROVE  Records(Append(lines, line)) =
           IF line = Garbage THEN Records(lines) ELSE Records(lines) \cup {line}
<1> DEFINE more == Append(lines, line)
           n == Len(lines)
<1>1. /\ n \in Nat /\ DOMAIN lines = 1 .. n /\ DOMAIN more = 1 .. n + 1
      /\ more[n + 1] = line /\ \A k \in 1 .. n : more[k] = lines[k]
  BY AppendProperties, LenProperties
<1> HIDE DEF more, n
<1>2. {more[k] : k \in DOMAIN more} = {lines[k] : k \in DOMAIN lines} \cup {line}
  <2>1. \A k \in 1 .. n + 1 : k \in 1 .. n \/ k = n + 1
    BY <1>1
  <2>2. \A k \in 1 .. n : k \in 1 .. n + 1
    BY <1>1
  <2>3. n + 1 \in 1 .. n + 1
    BY <1>1
  <2>4. QED
    BY <1>1, <2>1, <2>2, <2>3
<1>3. QED
  BY <1>2 DEF Records, more

LEMMA AscendingAppend ==
  ASSUME NEW lines \in Seq(Line), NEW line \in Line
  PROVE  Ascending(Append(lines, line)) <=>
           Ascending(lines) /\ (line # Garbage => UpTo(Records(lines), line))
<1> DEFINE more == Append(lines, line)
           n == Len(lines)
<1>1. /\ n \in Nat /\ DOMAIN lines = 1 .. n /\ DOMAIN more = 1 .. n + 1
      /\ more[n + 1] = line /\ \A k \in 1 .. n : more[k] = lines[k]
  BY AppendProperties, LenProperties
<1> HIDE DEF more, n
<1>2. ASSUME Ascending(more) PROVE Ascending(lines)
  BY <1>1, <1>2 DEF Ascending
<1>3. ASSUME Ascending(more), line # Garbage PROVE UpTo(Records(lines), line)
  <2>1. ASSUME NEW k \in 1 .. n, lines[k] # Garbage
        PROVE  lines[k].at < line.at \/ lines[k] = line
    <3>1. k \in DOMAIN more /\ n + 1 \in DOMAIN more /\ k < n + 1 /\ more[k] = lines[k]
      BY <1>1
    <3>2. QED
      BY <1>1, <1>3, <2>1, <3>1 DEF Ascending
  <2>2. QED
    BY <1>1, <2>1 DEF UpTo, Records
<1>4. ASSUME Ascending(lines), line # Garbage => UpTo(Records(lines), line)
      PROVE  Ascending(more)
  <2>1. SUFFICES ASSUME NEW k \in 1 .. n + 1, NEW m \in 1 .. n + 1, k < m,
                        more[k] # Garbage, more[m] # Garbage
                 PROVE  more[k].at < more[m].at \/ more[k] = more[m]
    BY <1>1 DEF Ascending
  <2>2. k \in 1 .. n /\ more[k] = lines[k]
    BY <1>1, <2>1
  <2>3. CASE m = n + 1
    <3>1. lines[k] \in Records(lines) /\ more[m] = line /\ line # Garbage
      BY <1>1, <2>1, <2>2, <2>3 DEF Records
    <3>2. QED
      BY <1>4, <2>2, <3>1 DEF UpTo
  <2>4. CASE m # n + 1
    <3>1. m \in 1 .. n /\ more[m] = lines[m]
      BY <1>1, <2>4
    <3>2. QED
      BY <1>1, <1>4, <2>1, <2>2, <3>1 DEF Ascending
  <2>5. QED
    BY <2>3, <2>4
<1>5. QED
  BY <1>2, <1>3, <1>4 DEF more

\* No record of recs is newer than what the map has for its id.
NotBehind(es, recs) ==
  \A r \in recs : r.id \in DOMAIN es => r.at < es[r.id].at \/ es[r.id] = EntryOf(r)

\* What load, at the time now, makes of the records recs: every entry is one of
\* them and unexpired, the map is not behind them and has the newest, and if
\* they all fit in, it has them all.
Replayed(es, now, recs) ==
  /\ StoreMap(es) /\ IsFiniteSet(recs)
  /\ \A i \in DOMAIN es : ~Expired(now, es[i].at)
  /\ \A i \in DOMAIN es : \E r \in recs : r.id = i /\ es[i] = EntryOf(r)
  /\ NotBehind(es, recs)
  /\ \A r \in recs :
       ~Expired(now, r.at) /\ (\A q \in recs : q.at <= r.at)
       => r.id \in DOMAIN es /\ es[r.id] = EntryOf(r)
  /\ Cardinality(recs) <= MaxEntries
     => \A r \in recs : ~Expired(now, r.at) => r.id \in DOMAIN es

\* Expired things are older than unexpired ones.
LEMMA ExpiredIsOlder ==
  ASSUME NEW now \in Nat, NEW a \in Nat, NEW b \in Nat, Expired(now, a), ~Expired(now, b)
  PROVE  a < b
  BY StoreAssumption DEF Expired

\* A map made of records has at most as many entries as there are records.
LEMMA NoMoreThanRecords ==
  ASSUME NEW es, StoreMap(es), NEW recs, IsFiniteSet(recs),
         \A i \in DOMAIN es : \E r \in recs : r.id = i
  PROVE  Cardinality(DOMAIN es) <= Cardinality(recs)
<1> DEFINE f == [i \in DOMAIN es |-> CHOOSE r \in recs : r.id = i]
<1>1. \A i \in DOMAIN es : f[i] \in recs /\ f[i].id = i
  OBVIOUS
<1>2. f \in Injection(DOMAIN es, recs)
  <2> HIDE DEF f
  <2>1. f \in [DOMAIN es -> recs]
    BY <1>1 DEF f
  <2>2. QED
    BY <1>1, <2>1 DEF Injection, IsInjective
<1>3. QED
  <2> HIDE DEF f
  <2>1. QED
    BY <1>2, FS_Injection

\* A line that load skips is nothing new to the map.
LEMMA SkippedReplayed ==
  ASSUME NEW now \in Nat, NEW recs \in SUBSET Record, NEW es, Replayed(es, now, recs),
         NEW rec \in Record, UpTo(recs, rec), Skipped(now, es, rec)
  PROVE  Replayed(es, now, recs \cup {rec})
<1>1. /\ rec.at \in Nat /\ rec # Garbage /\ \A r \in recs : r.at \in Nat
      /\ \A i \in DOMAIN es : es[i].at \in Nat
  BY RecordType, EntryTimes DEF Replayed
<1>2. /\ rec.id \in DOMAIN es => rec.at < es[rec.id].at \/ es[rec.id] = EntryOf(rec)
      /\ ~Expired(now, rec.at) => rec.id \in DOMAIN es /\ es[rec.id] = EntryOf(rec)
  <2>1. CASE Expired(now, rec.at)
    <3>1. ASSUME rec.id \in DOMAIN es PROVE rec.at < es[rec.id].at
      BY <1>1, <2>1, <3>1, ExpiredIsOlder DEF Replayed
    <3>2. QED
      BY <2>1, <3>1
  <2>2. CASE rec.id \in DOMAIN es /\ rec.at <= es[rec.id].at
    <3>1. PICK r \in recs : r.id = rec.id /\ es[rec.id] = EntryOf(r)
      BY <2>2 DEF Replayed
    <3>2. r.at = es[rec.id].at
      BY <3>1 DEF EntryOf
    <3>3. r = rec
      BY <1>1, <2>2, <3>2 DEF UpTo
    <3>4. QED
      BY <2>2, <3>1, <3>3
  <2>3. QED
    BY <1>1, <2>1, <2>2 DEF Skipped
<1>3. NotBehind(es, recs \cup {rec})
  BY <1>2 DEF Replayed, NotBehind
<1>4. IsFiniteSet(recs \cup {rec}) /\ Cardinality(recs) <= Cardinality(recs \cup {rec})
      /\ Cardinality(recs) \in Nat /\ Cardinality(recs \cup {rec}) \in Nat
  BY FS_AddElement, FS_CardinalityType DEF Replayed
<1>5. ASSUME Cardinality(recs \cup {rec}) <= MaxEntries
      PROVE  \A r \in recs \cup {rec} : ~Expired(now, r.at) => r.id \in DOMAIN es
  <2>1. Cardinality(recs) <= MaxEntries
    BY <1>4, <1>5, StoreAssumption
  <2>2. QED
    BY <1>2, <2>1 DEF Replayed
<1>6. ASSUME NEW r \in recs \cup {rec}, ~Expired(now, r.at),
             \A q \in recs \cup {rec} : q.at <= r.at
      PROVE  r.id \in DOMAIN es /\ es[r.id] = EntryOf(r)
  BY <1>2, <1>6 DEF Replayed
<1>7. /\ StoreMap(es)
      /\ \A i \in DOMAIN es : ~Expired(now, es[i].at)
      /\ \A i \in DOMAIN es : \E r \in recs \cup {rec} : r.id = i /\ es[i] = EntryOf(r)
  BY DEF Replayed
<1>8. QED
  BY <1>3, <1>4, <1>5, <1>6, <1>7 DEF Replayed

\* A line that load takes in makes room for itself.
LEMMA TakenReplayed ==
  ASSUME NEW now \in Nat, NEW recs \in SUBSET Record, NEW es, Replayed(es, now, recs),
         NEW rec \in Record, UpTo(recs, rec), ~Skipped(now, es, rec)
  PROVE  Replayed(Inserted(es, rec.id, rec.value, rec.at), now, recs \cup {rec})
<1> DEFINE into == Inserted(es, rec.id, rec.value, rec.at)
<1>1. /\ rec.id \in IDs /\ rec.value \in Responses /\ rec.at \in 0 .. MaxClock
      /\ rec.at \in Nat /\ \A r \in recs : r.at \in Nat
  BY RecordType
<1>2. TookIn(into, es, rec.id, rec.value, rec.at)
  BY <1>1, InsertedMap DEF Replayed
<1> HIDE DEF into
<1>3. into[rec.id] = EntryOf(rec) /\ rec.id \in DOMAIN into /\ ~Expired(now, rec.at)
  BY <1>2 DEF TookIn, EntryOf, Skipped
<1>4. \A i \in DOMAIN into : ~Expired(now, into[i].at)
  BY <1>2, <1>3 DEF TookIn, EntryOf, Replayed
<1>5. \A i \in DOMAIN into : \E r \in recs \cup {rec} : r.id = i /\ into[i] = EntryOf(r)
  BY <1>2, <1>3 DEF TookIn, Replayed
<1>6. NotBehind(into, recs \cup {rec})
  <2>1. ASSUME NEW r \in recs, r.id \in DOMAIN into
        PROVE  r.at < into[r.id].at \/ into[r.id] = EntryOf(r)
    <3>1. CASE r.id = rec.id
      BY <1>3, <3>1 DEF UpTo, EntryOf
    <3>2. CASE r.id # rec.id
      BY <1>2, <2>1, <3>2 DEF TookIn, Replayed, NotBehind
    <3>3. QED
      BY <3>1, <3>2
  <2>2. QED
    BY <1>3, <2>1 DEF NotBehind
<1>7. ASSUME NEW r \in recs \cup {rec}, \A q \in recs \cup {rec} : q.at <= r.at
      PROVE  r = rec
  BY <1>1, <1>7 DEF UpTo
<1>8. IsFiniteSet(recs \cup {rec})
  BY FS_AddElement DEF Replayed
<1>9. ASSUME Cardinality(recs \cup {rec}) <= MaxEntries
      PROVE  \A r \in recs \cup {rec} : ~Expired(now, r.at) => r.id \in DOMAIN into
  <2>1. /\ Cardinality(recs) \in Nat /\ Cardinality(recs \cup {rec}) \in Nat
        /\ Cardinality(recs \cup {rec}) =
             IF rec \in recs THEN Cardinality(recs) ELSE Cardinality(recs) + 1
    BY FS_AddElement, FS_CardinalityType DEF Replayed
  <2>2. Cardinality(recs) <= MaxEntries
    BY <1>9, <2>1, StoreAssumption
  <2>3. \A r \in recs : ~Expired(now, r.at) => r.id \in DOMAIN es
    BY <2>2 DEF Replayed
  <2>4. rec \notin recs
    <3>1. ASSUME rec \in recs PROVE FALSE
      <4>1. rec.id \in DOMAIN es /\ ~ (rec.at <= es[rec.id].at)
        BY <1>3, <2>3, <3>1 DEF Skipped
      <4>2. rec.at < es[rec.id].at \/ es[rec.id] = EntryOf(rec)
        BY <3>1, <4>1 DEF Replayed, NotBehind
      <4>3. es[rec.id].at \in Nat
        BY <4>1, EntryTimes DEF Replayed
      <4>4. QED
        BY <1>1, <4>1, <4>2, <4>3 DEF EntryOf
    <3>2. QED
      BY <3>1
  <2>5. Cardinality(DOMAIN es) <= Cardinality(recs) /\ Cardinality(DOMAIN es) \in Nat
    <3>1. /\ StoreMap(es) /\ IsFiniteSet(recs) /\ IsFiniteSet(DOMAIN es)
          /\ \A i \in DOMAIN es : \E r \in recs : r.id = i
      BY DEF Replayed, StoreMap
    <3>2. QED
      BY <3>1, NoMoreThanRecords, FS_CardinalityType
  <2>6. ~AtCapacity(es)
    BY <1>9, <2>1, <2>4, <2>5, StoreAssumption DEF AtCapacity
  <2>7. DOMAIN into = DOMAIN es \cup {rec.id}
    BY <1>2, <2>6 DEF TookIn, MakeRoom
  <2>8. QED
    BY <2>3, <2>7
<1>10. Replayed(into, now, recs \cup {rec})
  BY <1>2, <1>3, <1>4, <1>5, <1>6, <1>7, <1>8, <1>9 DEF Replayed, TookIn
<1>11. QED
  BY <1>10 DEF into

\* For a file in the order its records were stored, load keeps what it should.
LEMMA LoadedReplayed ==
  ASSUME NEW now \in Nat, NEW lines \in Seq(Line), Ascending(lines)
  PROVE  Replayed(Loaded(now, lines), now, Records(lines))
<1> DEFINE good == {s \in Seq(Line) : Ascending(s) => Replayed(Loaded(now, s), now, Records(s))}
<1>1. <<>> \in good
  <2>1. Records(<<>>) = {}
    BY DEF Records
  <2>2. Replayed(NoEntries, now, {})
    BY NoEntriesMap, FS_EmptySet DEF Replayed, NotBehind
  <2>3. QED
    BY <2>1, <2>2, LoadedEmpty, EmptySeq
<1>2. ASSUME NEW s \in good, NEW line \in Line PROVE Append(s, line) \in good
  <2> DEFINE more == Append(s, line)
             es == Loaded(now, s)
             recs == Records(s)
  <2>1. more \in Seq(Line)
    BY AppendProperties
  <2>2. SUFFICES ASSUME Ascending(more) PROVE Replayed(Loaded(now, more), now, Records(more))
    BY <2>1
  <2>3. Ascending(s) /\ (line # Garbage => UpTo(recs, line))
    BY <2>2, AscendingAppend
  <2>4. Replayed(es, now, recs) /\ recs \in SUBSET Record
    BY <2>3, RecordsOfLines
  <2>5. Loaded(now, more) = LoadLine(now, es, line)
    BY LoadedAppend
  <2>6. Records(more) = IF line = Garbage THEN recs ELSE recs \cup {line}
    BY RecordsAppend
  <2> HIDE DEF more, es, recs
  <2>7. CASE line = Garbage
    BY <2>4, <2>5, <2>6, <2>7 DEF LoadLine, Skipped
  <2>8. CASE line # Garbage
    <3>1. line \in Record /\ UpTo(recs, line) /\ Records(more) = recs \cup {line}
      BY <2>3, <2>6, <2>8 DEF Line
    <3>2. CASE Skipped(now, es, line)
      BY <2>4, <2>5, <3>1, <3>2, SkippedReplayed DEF LoadLine
    <3>3. CASE ~Skipped(now, es, line)
      <4>1. Loaded(now, more) = Inserted(es, line.id, line.value, line.at)
        BY <2>5, <3>3 DEF LoadLine
      <4>2. Replayed(Inserted(es, line.id, line.value, line.at), now, recs \cup {line})
        BY <2>4, <3>1, <3>3, TakenReplayed
      <4>3. QED
        BY <3>1, <4>1, <4>2
    <3>4. QED
      BY <3>2, <3>3
  <2>9. QED
    BY <2>7, <2>8
<1>3. good = Seq(Line)
  <2> HIDE DEF good
  <2>1. good \in SUBSET Seq(Line)
    BY DEF good
  <2>2. QED
    BY <1>1, <1>2, <2>1, SequencesByInduction
<1>4. QED
  BY <1>3

\* Dropping nothing leaves the same map, and dropping twice drops as much as
\* dropping the second time.
LEMMA NothingExpired ==
  ASSUME NEW now, NEW es, StoreMap(es), \A i \in DOMAIN es : ~Expired(now, es[i].at)
  PROVE  Unexpired(now, es) = es
<1> DEFINE left == Unexpired(now, es)
<1>1. /\ StoreMap(left)
      /\ DOMAIN left = {i \in DOMAIN es : ~Expired(now, es[i].at)}
      /\ \A i \in DOMAIN left : left[i] = es[i]
  BY UnexpiredMap
<1> HIDE DEF left
<1>2. DOMAIN left = DOMAIN es
  BY <1>1
<1>3. left = es
  BY <1>1, <1>2, SameMap DEF StoreMap
<1>4. QED
  BY <1>3 DEF left

LEMMA UnexpiredTwice ==
  ASSUME NEW now \in Nat, NEW later \in Nat, now <= later, NEW es, StoreMap(es)
  PROVE  Unexpired(later, Unexpired(now, es)) = Unexpired(later, es)
<1> DEFINE left == Unexpired(now, es)
           twice == Unexpired(later, left)
           once == Unexpired(later, es)
<1>1. /\ StoreMap(left)
      /\ DOMAIN left = {i \in DOMAIN es : ~Expired(now, es[i].at)}
      /\ \A i \in DOMAIN left : left[i] = es[i]
  BY UnexpiredMap
<1> HIDE DEF left
<1>2. /\ StoreMap(twice)
      /\ DOMAIN twice = {i \in DOMAIN left : ~Expired(later, left[i].at)}
      /\ \A i \in DOMAIN twice : twice[i] = left[i]
  BY <1>1, UnexpiredMap
<1>3. /\ StoreMap(once)
      /\ DOMAIN once = {i \in DOMAIN es : ~Expired(later, es[i].at)}
      /\ \A i \in DOMAIN once : once[i] = es[i]
  BY UnexpiredMap
<1> HIDE DEF twice, once
<1>4. \A i \in DOMAIN es : ~Expired(later, es[i].at) => ~Expired(now, es[i].at)
  BY EntryTimes, StoreAssumption DEF Expired
<1>5. DOMAIN twice = DOMAIN once /\ \A i \in DOMAIN twice : twice[i] = once[i]
  BY <1>1, <1>2, <1>3, <1>4
<1>6. twice = once
  BY <1>2, <1>3, <1>5, SameMap DEF StoreMap
<1>7. QED
  BY <1>6 DEF twice, once, left

\* Reading the file later finds what reading it now and waiting leaves.
LEMMA LoadedLater ==
  ASSUME NEW now \in Nat, NEW later \in Nat, now <= later,
         NEW lines \in Seq(Line), Ascending(lines)
  PROVE  Loaded(later, lines) = Unexpired(later, Loaded(now, lines))
<1> DEFINE good == {s \in Seq(Line) : Ascending(s) =>
                      Loaded(later, s) = Unexpired(later, Loaded(now, s))}
<1>1. <<>> \in good
  BY NoEntriesMap, NothingExpired, LoadedEmpty, EmptySeq
<1>2. ASSUME NEW s \in good, NEW line \in Line PROVE Append(s, line) \in good
  <2> DEFINE more == Append(s, line)
             es == Loaded(now, s)
             fs == Loaded(later, s)
             recs == Records(s)
  <2>1. more \in Seq(Line)
    BY AppendProperties
  <2>2. SUFFICES ASSUME Ascending(more)
                 PROVE  Loaded(later, more) = Unexpired(later, Loaded(now, more))
    BY <2>1
  <2>3. Ascending(s) /\ (line # Garbage => UpTo(recs, line))
    BY <2>2, AscendingAppend
  <2>4. Replayed(es, now, recs) /\ recs \in SUBSET Record
    BY <2>3, LoadedReplayed, RecordsOfLines
  <2>5. /\ Loaded(now, more) = LoadLine(now, es, line)
        /\ Loaded(later, more) = LoadLine(later, fs, line)
    BY LoadedAppend
  <2>6. fs = Unexpired(later, es)
    BY <2>3
  <2> HIDE DEF more, es, fs, recs
  <2>7. /\ StoreMap(es) /\ StoreMap(fs)
        /\ DOMAIN fs = {i \in DOMAIN es : ~Expired(later, es[i].at)}
        /\ \A i \in DOMAIN fs : fs[i] = es[i]
    <3> DEFINE left == Unexpired(later, es)
    <3>1. StoreMap(es)
      BY <2>4 DEF Replayed
    <3>2. /\ StoreMap(left)
          /\ DOMAIN left = {i \in DOMAIN es : ~Expired(later, es[i].at)}
          /\ \A i \in DOMAIN left : left[i] = es[i]
      BY <3>1, UnexpiredMap
    <3>3. fs = left
      BY <2>6
    <3>4. QED
      BY <3>1, <3>2, <3>3
  <2>8. SUFFICES LoadLine(later, fs, line) = Unexpired(later, LoadLine(now, es, line))
    BY <2>5
  <2>9. CASE line = Garbage
    BY <2>6, <2>9 DEF LoadLine, Skipped
  <2>10. CASE line # Garbage /\ Expired(later, line.at)
    <3>1. line \in Record /\ line.at \in Nat /\ UpTo(recs, line)
      BY <2>3, <2>10, RecordType DEF Line
    <3>2. LoadLine(later, fs, line) = fs
      BY <2>10 DEF LoadLine, Skipped
    <3>3. CASE Skipped(now, es, line)
      BY <2>6, <3>2, <3>3 DEF LoadLine
    <3>4. CASE ~Skipped(now, es, line)
      <4> DEFINE into == Inserted(es, line.id, line.value, line.at)
      <4>1. TookIn(into, es, line.id, line.value, line.at)
        BY <2>7, <3>1, RecordType, InsertedMap
      <4>2. LoadLine(now, es, line) = into
        BY <3>4 DEF LoadLine
      <4> HIDE DEF into
      <4>3. ASSUME NEW i \in DOMAIN es PROVE Expired(later, es[i].at)
        <5>1. PICK r \in recs : es[i] = EntryOf(r)
          BY <2>4 DEF Replayed
        <5>2. es[i].at \in Nat /\ es[i].at <= line.at
          BY <3>1, <2>7, <5>1, EntryTimes DEF UpTo, EntryOf
        <5>3. QED
          BY <2>10, <3>1, <5>2, StoreAssumption DEF Expired
      <4>4. \A i \in DOMAIN into : Expired(later, into[i].at)
        BY <2>10, <4>1, <4>3 DEF TookIn
      <4> DEFINE left == Unexpired(later, into)
      <4>5. /\ StoreMap(left)
            /\ DOMAIN left = {i \in DOMAIN into : ~Expired(later, into[i].at)}
        BY <4>1, UnexpiredMap DEF TookIn
      <4> HIDE DEF left
      <4>6. DOMAIN left = {} /\ DOMAIN fs = {}
        BY <2>7, <4>3, <4>4, <4>5
      <4>7. left = fs
        BY <2>7, <4>5, <4>6, SameMap DEF StoreMap
      <4>8. QED
        BY <3>2, <4>2, <4>7 DEF left
    <3>5. QED
      BY <3>3, <3>4
  <2>11. CASE line # Garbage /\ ~Expired(later, line.at)
    <3>1. line \in Record /\ line.at \in Nat
      BY <2>11, RecordType DEF Line
    <3>2. ~Expired(now, line.at)
      BY <2>11, <3>1, StoreAssumption DEF Expired
    <3>3. Skipped(now, es, line) <=> Skipped(later, fs, line)
      <4>1. ASSUME line.id \in DOMAIN es, line.at <= es[line.id].at
            PROVE  line.id \in DOMAIN fs
        <5>1. es[line.id].at \in Nat
          BY <2>7, <4>1, EntryTimes
        <5>2. ~Expired(later, es[line.id].at)
          BY <2>11, <3>1, <4>1, <5>1, StoreAssumption DEF Expired
        <5>3. QED
          BY <2>7, <4>1, <5>2
      <4>2. QED
        BY <2>7, <2>11, <3>2, <4>1 DEF Skipped
    <3>4. CASE Skipped(now, es, line)
      BY <2>6, <3>3, <3>4 DEF LoadLine
    <3>5. CASE ~Skipped(now, es, line)
      <4>1. Inserted(Unexpired(later, es), line.id, line.value, line.at)
              = Unexpired(later, Inserted(es, line.id, line.value, line.at))
        BY <2>7, <2>11, <3>1, RecordType, InsertedUnexpired
      <4>2. QED
        BY <2>6, <3>3, <3>5, <4>1 DEF LoadLine
    <3>6. QED
      BY <3>4, <3>5
  <2>12. QED
    BY <2>9, <2>10, <2>11
<1>3. good = Seq(Line)
  <2> HIDE DEF good
  <2>1. good \in SUBSET Seq(Line)
    BY DEF good
  <2>2. QED
    BY <1>1, <1>2, <2>1, SequencesByInduction
<1>4. QED
  BY <1>3

-------------------------------------------------------------------------------
(* The file that compaction writes. *)

\* A map that is not empty has a newest entry.
LEMMA NewestExists ==
  ASSUME NEW es, StoreMap(es), NEW S \in SUBSET (DOMAIN es), S # {}
  PROVE  \E i \in S : \A j \in S : es[j].at <= es[i].at
<1> DEFINE ages == {MaxClock - es[i].at : i \in S}
<1>1. ages \in SUBSET Nat /\ ages # {}
  BY EntryTimes, StoreAssumption
<1>2. PICK a \in ages : \A b \in ages : a <= b
  <2> HIDE DEF ages
  <2>1. QED
    BY <1>1, Least
<1>3. PICK i \in S : a = MaxClock - es[i].at
  BY <1>2
<1>4. ASSUME NEW j \in S PROVE es[j].at <= es[i].at
  <2>1. a <= MaxClock - es[j].at
    BY <1>2
  <2>2. QED
    BY <1>3, <2>1, EntryTimes, StoreAssumption
<1>5. QED
  BY <1>4

\* ids lists n entries of the map, the oldest first.
InOrder(ids, n, es) ==
  \A k, m \in 1 .. n : k < m => es[ids[k]].at < es[ids[m]].at

LEMMA OrderExists ==
  ASSUME NEW es, StoreMap(es), Distinct(es)
  PROVE  \A n \in Nat : \A S \in SUBSET (DOMAIN es) :
           Cardinality(S) = n => \E ids \in [1 .. n -> S] : InOrder(ids, n, es)
<1> DEFINE T == {n \in Nat : \A S \in SUBSET (DOMAIN es) :
                   Cardinality(S) = n => \E ids \in [1 .. n -> S] : InOrder(ids, n, es)}
<1>1. 0 \in T
  <2>1. ASSUME NEW S \in SUBSET (DOMAIN es)
        PROVE  \E ids \in [1 .. 0 -> S] : InOrder(ids, 0, es)
    <3>1. [k \in 1 .. 0 |-> {}] \in [1 .. 0 -> S]
      OBVIOUS
    <3>2. InOrder([k \in 1 .. 0 |-> {}], 0, es)
      BY DEF InOrder
    <3>3. QED
      BY <3>1, <3>2
  <2>2. QED
    BY <2>1
<1>2. ASSUME NEW n \in T PROVE n + 1 \in T
  <2>1. SUFFICES ASSUME NEW S \in SUBSET (DOMAIN es), Cardinality(S) = n + 1
                 PROVE  \E ids \in [1 .. n + 1 -> S] : InOrder(ids, n + 1, es)
    OBVIOUS
  <2>2. IsFiniteSet(S) /\ S # {}
    BY <2>1, FS_Subset, FS_EmptySet DEF StoreMap
  <2>3. PICK i \in S : \A j \in S : es[j].at <= es[i].at
    BY <2>2, NewestExists
  <2>4. Cardinality(S \ {i}) = n
    BY <2>1, <2>2, FS_RemoveElement
  <2>5. PICK ids \in [1 .. n -> S \ {i}] : InOrder(ids, n, es)
    BY <2>4
  <2> DEFINE more == [k \in 1 .. n + 1 |-> IF k = n + 1 THEN i ELSE ids[k]]
  <2>6. more \in [1 .. n + 1 -> S]
    BY <2>5
  <2>7. ASSUME NEW k \in 1 .. n + 1, NEW m \in 1 .. n + 1, k < m
        PROVE  es[more[k]].at < es[more[m]].at
    <3>1. k \in 1 .. n /\ more[k] = ids[k] /\ ids[k] \in S \ {i}
      BY <2>5, <2>7
    <3>2. CASE m = n + 1
      <4>1. es[ids[k]].at <= es[i].at /\ es[ids[k]].at # es[i].at
        BY <2>3, <3>1 DEF Distinct
      <4>2. es[ids[k]].at \in Nat /\ es[i].at \in Nat
        BY <3>1, EntryTimes
      <4>3. QED
        BY <3>1, <3>2, <4>1, <4>2
    <3>3. CASE m # n + 1
      <4>1. m \in 1 .. n /\ more[m] = ids[m]
        BY <3>3
      <4>2. QED
        BY <2>5, <2>7, <3>1, <4>1 DEF InOrder
    <3>4. QED
      BY <3>2, <3>3
  <2>8. InOrder(more, n + 1, es)
    <3> HIDE DEF more
    <3>1. QED
      BY <2>7 DEF InOrder
  <2>9. QED
    BY <2>6, <2>8
<1>3. T = Nat
  <2> HIDE DEF T
  <2>1. T \in SUBSET Nat
    BY DEF T
  <2>2. QED
    BY <1>1, <1>2, <2>1, NumbersByInduction
<1>4. QED
  BY <1>3

LEMMA ByAgeLists ==
  ASSUME NEW es, StoreMap(es), Distinct(es)
  PROVE  /\ Cardinality(DOMAIN es) \in Nat
         /\ ByAge(es) \in [1 .. Cardinality(DOMAIN es) -> DOMAIN es]
         /\ InOrder(ByAge(es), Cardinality(DOMAIN es), es)
         /\ \A i \in DOMAIN es : \E n \in 1 .. Cardinality(DOMAIN es) : ByAge(es)[n] = i
<1> DEFINE size == Cardinality(DOMAIN es)
           ids == ByAge(es)
<1>1. size \in Nat /\ IsFiniteSet(DOMAIN es)
  BY FS_CardinalityType DEF StoreMap
<1>2. \E order \in [1 .. size -> DOMAIN es] : InOrder(order, size, es)
  BY <1>1, OrderExists
<1>3. \E order \in [1 .. size -> DOMAIN es] :
        \A m, n \in DOMAIN order : m < n => es[order[m]].at < es[order[n]].at
  BY <1>2 DEF InOrder
<1>4. /\ ids \in [1 .. size -> DOMAIN es]
      /\ \A m, n \in DOMAIN ids : m < n => es[ids[m]].at < es[ids[n]].at
  BY <1>3, Zenon DEF ByAge
<1> HIDE DEF ids, size
<1>5. InOrder(ids, size, es)
  BY <1>4 DEF InOrder
<1>6. ids \in Injection(1 .. size, DOMAIN es)
  <2>1. ASSUME NEW m \in 1 .. size, NEW n \in 1 .. size, ids[m] = ids[n] PROVE m = n
    <3>1. ids[m] \in DOMAIN es /\ es[ids[m]].at \in Nat
      BY <1>4, EntryTimes
    <3>2. ~ (m < n) /\ ~ (n < m)
      BY <1>5, <2>1, <3>1 DEF InOrder
    <3>3. QED
      BY <1>1, <3>2
  <2>2. QED
    BY <1>4, <2>1 DEF Injection, IsInjective
<1>7. ids \in Surjection(1 .. size, DOMAIN es)
  <2>1. IsFiniteSet(1 .. size) /\ Cardinality(1 .. size) = size
    BY <1>1, FS_Interval
  <2>2. QED
    BY <1>1, <1>6, <2>1, FS_Injection DEF size
<1>8. \A i \in DOMAIN es : \E n \in 1 .. size : ids[n] = i
  BY <1>7 DEF Surjection
<1>9. QED
  BY <1>1, <1>4, <1>5, <1>8 DEF ids, size

RecordOf(es, i) == [id |-> i, value |-> es[i].value, at |-> es[i].at]

\* Compaction writes each entry once, in the order they were stored.
LEMMA CompactedLines ==
  ASSUME NEW es, StoreMap(es), Distinct(es)
  PROVE  /\ Compacted(es) \in Seq(Record)
         /\ Ascending(Compacted(es))
         /\ Records(Compacted(es)) = {RecordOf(es, i) : i \in DOMAIN es}
<1> DEFINE size == Cardinality(DOMAIN es)
           ids == ByAge(es)
           lines == Compacted(es)
<1>1. /\ size \in Nat /\ ids \in [1 .. size -> DOMAIN es]
      /\ InOrder(ids, size, es)
      /\ \A i \in DOMAIN es : \E n \in 1 .. size : ids[n] = i
  BY ByAgeLists
<1>2. lines = [n \in 1 .. size |-> RecordOf(es, ids[n])]
  BY <1>1 DEF Compacted, RecordOf
<1> HIDE DEF size, ids, lines
<1>3. \A i \in DOMAIN es : RecordOf(es, i) \in Record
  BY DEF StoreMap, IsEntryMap, Entry, Record, RecordOf
<1>4. lines \in Seq(Record)
  BY <1>1, <1>2, <1>3, IsASeq
<1>5. Ascending(lines)
  BY <1>1, <1>2 DEF Ascending, InOrder, RecordOf
<1>6. \A i \in DOMAIN es : RecordOf(es, i) # Garbage
  BY <1>3, RecordType
<1>7. Records(lines) = {RecordOf(es, i) : i \in DOMAIN es}
  BY <1>1, <1>2, <1>6 DEF Records
<1>8. QED
  BY <1>4, <1>5, <1>7 DEF lines

\* Every line of a compacted file is a line.
LEMMA RecordsAreLines == Seq(Record) \subseteq Seq(Line)
  BY SeqMonotonic DEF Line

\* Read back, it gives the unexpired entries: they all fit in.
LEMMA LoadedCompacted ==
  ASSUME NEW es, StoreMap(es), Distinct(es), NEW now \in Nat
  PROVE  Loaded(now, Compacted(es)) = Unexpired(now, es)
<1> DEFINE recs == {RecordOf(es, i) : i \in DOMAIN es}
           got == Loaded(now, Compacted(es))
           left == Unexpired(now, es)
<1>1. Replayed(got, now, recs)
  BY CompactedLines, LoadedReplayed, RecordsAreLines
<1>2. Cardinality(recs) <= MaxEntries
  <2> DEFINE f == [i \in DOMAIN es |-> RecordOf(es, i)]
  <2>1. f \in Surjection(DOMAIN es, recs)
    BY DEF Surjection
  <2>2. IsFiniteSet(DOMAIN es) /\ IsFiniteSet(recs)
    BY <1>1 DEF StoreMap, Replayed
  <2> HIDE DEF f, recs
  <2>3. Cardinality(recs) <= Cardinality(DOMAIN es)
    BY <2>1, <2>2, FS_Surjection
  <2>4. Cardinality(recs) \in Nat /\ Cardinality(DOMAIN es) \in Nat
    BY <2>2, FS_CardinalityType
  <2>5. QED
    BY <2>3, <2>4, StoreAssumption DEF StoreMap
<1>3. /\ StoreMap(left)
      /\ DOMAIN left = {i \in DOMAIN es : ~Expired(now, es[i].at)}
      /\ \A i \in DOMAIN left : left[i] = es[i]
  BY UnexpiredMap
<1> HIDE DEF got, left
<1>4. \A i \in DOMAIN es : RecordOf(es, i).id = i /\ EntryOf(RecordOf(es, i)) = es[i]
                           /\ RecordOf(es, i).at = es[i].at
  BY DEF RecordOf, EntryOf, StoreMap, IsEntryMap, Entry
<1>5. \A i \in DOMAIN got : i \in DOMAIN es /\ got[i] = es[i] /\ ~Expired(now, got[i].at)
  BY <1>1, <1>4 DEF Replayed
<1>6. \A i \in DOMAIN left : i \in DOMAIN got
  BY <1>1, <1>2, <1>3, <1>4 DEF Replayed
<1>7. DOMAIN got = DOMAIN left /\ \A i \in DOMAIN got : got[i] = left[i]
  BY <1>3, <1>5, <1>6
<1>8. got = left
  BY <1>1, <1>3, <1>7, SameMap DEF StoreMap, Replayed
<1>9. QED
  BY <1>8 DEF got, left

-------------------------------------------------------------------------------
(* The structure of the store: what the memory, the file and the operation   *)
(* under way have to do with each other, whatever has failed.                *)

MapInv == StoreMap(entries) /\ Distinct(entries)

FileInv == Ascending(file) /\ NotBehind(entries, Records(file))

\* Nothing is newer than the clock, and what the file has of this very tick is
\* known to the map: the next record will be newer than all of them.
TimeInv ==
  /\ \A i \in DOMAIN entries : entries[i].at <= clock
  /\ \A r \in Records(file) : r.at <= clock
  /\ up => \A r \in Records(file) : r.at = clock => \E i \in DOMAIN entries : entries[i].at = clock

\* A Store is under way.
Storing ==
  \/ phase \in {"append", "sync"}
  \/ phase \in {"writeTmp", "rename", "copy"} /\ after = "append"

PhaseInv ==
  /\ phase # "idle" => up
  /\ pending # <<>> <=> Storing
  /\ phase \in {"rename", "copy"} => tmp = Compacted(entries)
  /\ phase = "copy" => "rename" \in faulted
  /\ torn => "torn" \in faulted

\* The record being stored is the newest of the map, and the next of the file.
PendingInv ==
  pending # <<>> =>
    /\ pending[1].id \in DOMAIN entries
    /\ entries[pending[1].id] = EntryOf(pending[1])
    /\ \A i \in DOMAIN entries : entries[i].at <= pending[1].at
    /\ UpTo(Records(file), pending[1])
    /\ phase = "sync" => "torn" \in faulted \/ pending[1] \in Records(file)

StructInv == TypeOK /\ MapInv /\ FileInv /\ TimeInv /\ PhaseInv /\ PendingInv

LEMMA PendingRecord ==
  ASSUME TypeOK, pending # <<>>
  PROVE  pending[1] \in Record /\ pending = <<pending[1]>>
  BY DEF TypeOK

LEMMA FileLines ==
  ASSUME TypeOK
  PROVE  file \in Seq(Line) /\ Records(file) \in SUBSET Record /\ clock \in Nat
  BY RecordsOfLines, StoreAssumption DEF TypeOK, Line

LEMMA StructInit == Init => StructInv
<1> SUFFICES ASSUME Init PROVE StructInv
  OBVIOUS
<1>1. Records(<<>>) = {} /\ Ascending(<<>>)
  BY DEF Records, Ascending
<1>2. <<>> \in Seq(Record \cup {Garbage}) /\ <<>> \in Seq(Record)
  BY EmptySeq
<1>3. StoreMap(entries) /\ DOMAIN entries = {}
  BY NoEntriesMap DEF Init
<1>4. TypeOK
  <2>1. 0 \in 0 .. MaxClock /\ 0 \in 0 .. MaxEntries - 1
    BY StoreAssumption
  <2>2. IsEntryMap(entries)
    BY <1>3 DEF StoreMap
  <2>3. file \in Seq(Record \cup {Garbage}) /\ tmp \in Seq(Record)
    BY <1>2 DEF Init
  <2>4. pending \in {<<>>} \cup {<<rec>> : rec \in Record}
    BY DEF Init
  <2>5. QED
    BY <2>1, <2>2, <2>3, <2>4 DEF Init, TypeOK, Phases
<1>5. QED
  BY <1>1, <1>3, <1>4 DEF Init, StructInv, MapInv, FileInv, TimeInv, PhaseInv, PendingInv,
     Storing, Distinct, NotBehind

LEMMA BeginStoreStruct ==
  ASSUME StructInv, NEW id \in IDs, NEW v \in Responses, BeginStore(id, v)
  PROVE  StructInv'
<1> DEFINE rec == [id |-> id, value |-> v, at |-> clock]
<1>1. /\ up /\ phase = "idle" /\ FreshTick(entries) /\ pending = <<>>
      /\ entries' = Inserted(entries, id, v, clock)
      /\ pending' = <<rec>>
      /\ phase' \in {"writeTmp", "append"} /\ after' = "append"
      /\ UNCHANGED <<clock, up, file, torn, tmp, faulted>>
  BY DEF BeginStore, StructInv, PhaseInv, Storing, NoFault, diskVars
<1>2. clock \in 0 .. MaxClock /\ clock \in Nat /\ StoreMap(entries)
  BY FileLines DEF StructInv, TypeOK, MapInv
<1>3. TookIn(entries', entries, id, v, clock)
  <2>1. TookIn(Inserted(entries, id, v, clock), entries, id, v, clock)
    BY <1>2, InsertedMap
  <2>2. QED
    BY <1>1, <2>1
<1>4. rec \in Record /\ EntryOf(rec) = entries'[id] /\ rec.id = id /\ rec.at = clock
  BY <1>2, <1>3 DEF Record, EntryOf, TookIn
<1>5. \A i \in DOMAIN entries : entries[i].at < clock
  BY <1>1 DEF FreshTick
<1>6. \A r \in Records(file) : r.at < clock /\ r \in Record /\ r.at \in Nat
  BY <1>1, <1>2, <1>5, FileLines, RecordType DEF StructInv, TimeInv
<1>7. TypeOK'
  <2>1. compactN' \in 0 .. MaxEntries - 1
    BY StoreAssumption DEF BeginStore, CompactionDue, StructInv, TypeOK
  <2>2. synced' \subseteq IDs /\ pending' \in {<<>>} \cup {<<r>> : r \in Record}
    BY <1>4 DEF BeginStore, StructInv, TypeOK
  <2>3. IsEntryMap(entries)'
    BY <1>3 DEF TookIn, StoreMap
  <2>4. QED
    BY <1>1, <2>1, <2>2, <2>3 DEF StructInv, TypeOK, Phases
<1> HIDE DEF rec
<1>8. MapInv'
  BY <1>2, <1>3, <1>4, <1>5 DEF StructInv, MapInv, Distinct, TookIn, EntryOf
<1>9. FileInv'
  <2>1. ASSUME NEW r \in Records(file), r.id \in DOMAIN entries'
        PROVE  r.at < entries'[r.id].at \/ entries'[r.id] = EntryOf(r)
    <3>1. CASE r.id = id
      BY <1>3, <1>6, <3>1 DEF TookIn
    <3>2. CASE r.id # id
      BY <1>3, <2>1, <3>2 DEF StructInv, FileInv, NotBehind, TookIn
    <3>3. QED
      BY <3>1, <3>2
  <2>2. QED
    BY <1>1, <2>1 DEF StructInv, FileInv, NotBehind
<1>10. \A i \in DOMAIN entries' : entries'[i].at <= clock
  BY <1>2, <1>3, <1>5 DEF TookIn, StructInv, TimeInv
<1>11. TimeInv'
  BY <1>1, <1>3, <1>6, <1>10, <1>2 DEF TimeInv, TookIn
<1>12. PhaseInv'
  BY <1>1 DEF StructInv, PhaseInv, Storing
<1>13. PendingInv'
  BY <1>1, <1>3, <1>4, <1>6, <1>10 DEF PendingInv, UpTo, TookIn
<1>14. QED
  BY <1>7, <1>8, <1>9, <1>11, <1>12, <1>13 DEF StructInv

LEMMA AppendRecordStruct ==
  ASSUME StructInv, AppendRecord
  PROVE  StructInv'
<1> DEFINE rec == pending[1]
<1>1. /\ up /\ phase = "append" /\ pending # <<>>
      /\ \/ phase' = "sync" /\ pending' = pending
         \/ phase' = "idle" /\ pending' = <<>>
      /\ UNCHANGED <<clock, entries, compactN, up, after, tmp, synced>>
  <2>1. phase = "append" => pending # <<>>
    BY DEF StructInv, PhaseInv, Storing
  <2>2. QED
    BY <2>1 DEF AppendRecord
<1>2. /\ rec \in Record /\ rec \in Line /\ rec # Garbage
      /\ file \in Seq(Line) /\ Garbage \in Line
  BY <1>1, PendingRecord, FileLines, RecordType DEF StructInv, Line
<1>3. /\ UpTo(Records(file), rec) /\ rec.id \in DOMAIN entries
      /\ entries[rec.id] = EntryOf(rec)
      /\ \A i \in DOMAIN entries : entries[i].at <= rec.at
  BY <1>1 DEF StructInv, PendingInv
<1> HIDE DEF rec
<1>4. \/ file' = Append(file, rec)
      \/ file' = file
      \/ file' = Append(file, Garbage)
  BY DEF AppendRecord, WithRecord, rec
<1>5. /\ file' \in Seq(Line) /\ Ascending(file')
      /\ Records(file') \in {Records(file), Records(file) \cup {rec}}
  <2>1. CASE file' = Append(file, rec)
    BY <1>2, <1>3, <2>1, AppendProperties, RecordsAppend, AscendingAppend DEF StructInv, FileInv
  <2>2. CASE file' = Append(file, Garbage)
    BY <1>2, <2>2, AppendProperties, RecordsAppend, AscendingAppend DEF StructInv, FileInv
  <2>3. CASE file' = file
    BY <1>2, <2>3 DEF StructInv, FileInv
  <2>4. QED
    BY <1>4, <2>1, <2>2, <2>3
<1>6. torn' => "torn" \in faulted'
  BY DEF AppendRecord, Fault, NoFault, StructInv, PhaseInv
<1>7. faulted \subseteq faulted' /\ faulted' \subseteq Faults
  BY DEF AppendRecord, Fault, NoFault, StructInv, TypeOK
<1>8. phase' = "sync" => "torn" \in faulted \/ rec \in Records(file')
  <2>1. ASSUME phase' = "sync", ~torn PROVE rec \in Records(file')
    <3>1. file' = Append(file, rec)
      BY <2>1 DEF AppendRecord, WithRecord, rec
    <3>2. QED
      BY <1>2, <3>1, RecordsAppend
  <2>2. QED
    BY <2>1 DEF StructInv, PhaseInv
<1>9. TypeOK'
  <2>1. pending' \in {<<>>} \cup {<<r>> : r \in Record} /\ torn' \in BOOLEAN
    BY <1>1 DEF AppendRecord, StructInv, TypeOK
  <2>2. QED
    BY <1>1, <1>5, <1>7, <2>1 DEF StructInv, TypeOK, Line, Phases
<1>10. MapInv'
  BY <1>1 DEF StructInv, MapInv, Distinct, StoreMap, IsEntryMap
<1>11. FileInv'
  BY <1>1, <1>3, <1>5 DEF StructInv, FileInv, NotBehind, EntryOf
<1>12. TimeInv'
  <2>1. rec.at <= clock /\ entries[rec.id].at = rec.at
    BY <1>3 DEF StructInv, TimeInv, EntryOf
  <2>2. QED
    BY <1>1, <1>3, <1>5, <2>1 DEF StructInv, TimeInv
<1>13. PhaseInv'
  BY <1>1, <1>6, <1>7 DEF StructInv, PhaseInv, Storing
<1>14. PendingInv'
  <2>1. ASSUME phase' = "sync" PROVE UpTo(Records(file'), rec)
    BY <1>3, <1>5 DEF UpTo
  <2>2. CASE phase' = "sync"
    <3>1. pending' = pending /\ pending'[1] = rec
      BY <1>1, <2>2 DEF rec
    <3>2. QED
      BY <1>1, <1>3, <1>7, <1>8, <2>1, <2>2, <3>1 DEF PendingInv
  <2>3. CASE phase' = "idle"
    BY <1>1, <2>3 DEF PendingInv
  <2>4. QED
    BY <1>1, <2>2, <2>3
<1>15. QED
  BY <1>9, <1>10, <1>11, <1>12, <1>13, <1>14 DEF StructInv

LEMMA SyncRecordStruct ==
  ASSUME StructInv, SyncRecord
  PROVE  StructInv'
<1>1. /\ up /\ phase = "sync" /\ pending # <<>> /\ pending' = <<>> /\ phase' = "idle"
      /\ synced' = synced \cup {pending[1].id}
      /\ UNCHANGED <<clock, entries, compactN, up, after, file, torn, tmp, faulted>>
  <2>1. phase = "sync" => pending # <<>>
    BY DEF StructInv, PhaseInv, Storing
  <2>2. QED
    BY <2>1 DEF SyncRecord, NoFault, diskVars
<1>2. pending[1].id \in IDs
  BY <1>1, PendingRecord, RecordType DEF StructInv
<1>3. TypeOK'
  BY <1>1, <1>2 DEF StructInv, TypeOK, Phases
<1>4. QED
  BY <1>1, <1>3 DEF StructInv, MapInv, FileInv, TimeInv, PhaseInv, PendingInv, Storing,
     Distinct, NotBehind

\* A file made of entries of the map is as good as any.
LEMMA LinesOfMap ==
  ASSUME StructInv, NEW recs, recs \subseteq {RecordOf(entries, i) : i \in DOMAIN entries}
  PROVE  /\ NotBehind(entries, recs)
         /\ \A r \in recs : r.at <= clock /\ \E i \in DOMAIN entries : entries[i].at = r.at
         /\ pending # <<>> => UpTo(recs, pending[1])
<1>1. ASSUME NEW r \in recs
      PROVE  r.id \in DOMAIN entries /\ EntryOf(r) = entries[r.id] /\ r = RecordOf(entries, r.id)
  <2>1. PICK i \in DOMAIN entries : r = RecordOf(entries, i)
    OBVIOUS
  <2>2. entries[i] \in [value : Responses, at : 0 .. MaxClock]
    BY DEF StructInv, MapInv, StoreMap, IsEntryMap, Entry
  <2>3. QED
    BY <2>1, <2>2 DEF RecordOf, EntryOf
<1>2. \A r \in recs : r.at = entries[r.id].at
  BY <1>1 DEF RecordOf
<1>3. ASSUME pending # <<>>, NEW r \in recs PROVE r.at < pending[1].at \/ r = pending[1]
  <2> DEFINE rec == pending[1]
  <2>1. /\ rec.id \in DOMAIN entries /\ entries[rec.id] = EntryOf(rec)
        /\ entries[r.id].at <= rec.at /\ rec \in Record
    BY <1>1, <1>3, PendingRecord DEF StructInv, PendingInv
  <2> HIDE DEF rec
  <2>2. entries[r.id].at \in Nat /\ rec.at \in Nat
    BY <1>1, <2>1, EntryTimes, RecordType DEF StructInv, MapInv
  <2>3. CASE r.id = rec.id
    <3>1. r = [id |-> rec.id, value |-> rec.value, at |-> rec.at]
      BY <1>1, <2>1, <2>3 DEF RecordOf, EntryOf
    <3>2. r = rec
      BY <2>1, <3>1, RecordType
    <3>3. QED
      BY <3>2 DEF rec
  <2>4. CASE r.id # rec.id
    <3>1. entries[r.id].at # entries[rec.id].at
      BY <1>1, <2>1, <2>4 DEF StructInv, MapInv, Distinct
    <3>2. entries[rec.id].at = rec.at
      BY <2>1 DEF EntryOf
    <3>3. r.at < rec.at
      BY <1>2, <2>1, <2>2, <3>1, <3>2
    <3>4. QED
      BY <3>3 DEF rec
  <2>5. QED
    BY <2>3, <2>4
<1>4. QED
  BY <1>1, <1>2, <1>3 DEF NotBehind, UpTo, StructInv, TimeInv

LEMMA WriteTmpStruct ==
  ASSUME StructInv, WriteTmp
  PROVE  StructInv'
<1>1. /\ up /\ phase = "writeTmp"
      /\ faulted \subseteq faulted' /\ faulted' \subseteq Faults
      /\ UNCHANGED <<clock, entries, compactN, after, pending, file, torn, synced>>
  BY DEF WriteTmp, Fault, NoFault, StructInv, TypeOK
<1>2. \/ phase' = "rename" /\ tmp' = Compacted(entries) /\ up'
      \/ phase' = "append" /\ tmp' = tmp /\ after = "append" /\ up'
      \/ phase' = "idle" /\ tmp' = tmp /\ after # "append"
  BY <1>1 DEF WriteTmp, Resume
<1>3. Compacted(entries) \in Seq(Record)
  BY CompactedLines DEF StructInv, MapInv
<1>4. up' \in BOOLEAN
  BY <1>1 DEF WriteTmp, Resume
<1>5. TypeOK'
  BY <1>1, <1>2, <1>3, <1>4 DEF StructInv, TypeOK, Phases
<1>6. MapInv' /\ FileInv'
  BY <1>1 DEF StructInv, MapInv, FileInv, Distinct, NotBehind
<1>7. TimeInv'
  BY <1>1 DEF StructInv, TimeInv
<1>8. PhaseInv'
  BY <1>1, <1>2 DEF StructInv, PhaseInv, Storing
<1>9. PendingInv'
  BY <1>1, <1>2 DEF StructInv, PendingInv
<1>10. QED
  BY <1>5, <1>6, <1>7, <1>8, <1>9 DEF StructInv

\* An empty file, and the first lines of the compacted one, hold entries of the
\* map in order.
LEMMA PartOfCompacted ==
  ASSUME NEW es, StoreMap(es), Distinct(es), NEW n \in 0 .. Len(Compacted(es))
  PROVE  /\ SubSeq(Compacted(es), 1, n) \in Seq(Line)
         /\ Ascending(SubSeq(Compacted(es), 1, n))
         /\ Records(SubSeq(Compacted(es), 1, n)) \subseteq {RecordOf(es, i) : i \in DOMAIN es}
<1> DEFINE whole == Compacted(es)
           part == SubSeq(whole, 1, n)
<1>1. /\ whole \in Seq(Record) /\ Ascending(whole)
      /\ Records(whole) = {RecordOf(es, i) : i \in DOMAIN es}
      /\ Len(whole) \in Nat /\ DOMAIN whole = 1 .. Len(whole)
  BY CompactedLines, LenProperties
<1> HIDE DEF whole
<1>2. \A k \in 1 .. n : whole[k] \in Record
  BY <1>1, ElementOfSeq DEF whole
<1>3. /\ part \in Seq(Record) /\ Len(part) = n
      /\ \A k \in 1 .. n : part[k] = whole[k]
  <2>1. /\ part \in Seq(Record) /\ Len(part) = IF 1 <= n THEN n - 1 + 1 ELSE 0
        /\ \A k \in 1 .. n - 1 + 1 : part[k] = whole[1 + k - 1]
    BY <1>1, <1>2, SubSeqProperties DEF whole
  <2>2. QED
    BY <1>1, <2>1 DEF whole
<1> HIDE DEF part
<1>4. DOMAIN part = 1 .. n
  BY <1>3, LenProperties
<1>5. Ascending(part)
  BY <1>1, <1>3, <1>4 DEF Ascending, whole
<1>6. Records(part) \subseteq Records(whole)
  BY <1>1, <1>3, <1>4 DEF Records, whole
<1>7. QED
  BY <1>1, <1>3, <1>5, <1>6, RecordsAreLines DEF part, whole

LEMMA ReplaceStruct ==
  ASSUME StructInv, up, phase \in {"rename", "copy"},
         faulted \subseteq faulted', faulted' \subseteq Faults,
         UNCHANGED <<clock, entries, compactN, after, pending, synced>>,
         \E n \in 0 .. Len(tmp) : file' = SubSeq(tmp, 1, n),
         tmp' \in {tmp, <<>>}, torn' = FALSE \/ torn' = torn,
         \/ Resume
         \/ phase = "rename" /\ phase' = "copy" /\ up' = up /\ tmp' = tmp /\ "rename" \in faulted'
  PROVE  StructInv'
<1>1. /\ StoreMap(entries) /\ Distinct(entries) /\ tmp = Compacted(entries)
  BY DEF StructInv, MapInv, PhaseInv
<1>2. /\ file' \in Seq(Line) /\ Ascending(file')
      /\ Records(file') \subseteq {RecordOf(entries, i) : i \in DOMAIN entries}
  BY <1>1, PartOfCompacted
<1>3. /\ NotBehind(entries, Records(file'))
      /\ \A r \in Records(file') : r.at <= clock /\ \E i \in DOMAIN entries : entries[i].at = r.at
      /\ pending # <<>> => UpTo(Records(file'), pending[1])
  BY <1>2, LinesOfMap
<1>4. \/ phase' = "append" /\ after = "append" /\ up'
      \/ phase' = "idle" /\ after # "append"
      \/ phase = "rename" /\ phase' = "copy" /\ up' /\ tmp' = tmp /\ "rename" \in faulted'
  BY DEF Resume
<1>5. TypeOK'
  <2>1. up' \in BOOLEAN /\ torn' \in BOOLEAN /\ tmp' \in Seq(Record)
    BY EmptySeq DEF Resume, StructInv, TypeOK
  <2>2. QED
    BY <1>2, <1>4, <2>1 DEF StructInv, TypeOK, Phases, Line
<1>6. MapInv' /\ FileInv'
  BY <1>2, <1>3 DEF StructInv, MapInv, FileInv, Distinct, NotBehind
<1>7. TimeInv'
  BY <1>3 DEF StructInv, TimeInv
<1>8. PhaseInv'
  BY <1>1, <1>4 DEF StructInv, PhaseInv, Storing
<1>9. PendingInv'
  BY <1>3, <1>4 DEF StructInv, PendingInv
<1>10. QED
  BY <1>5, <1>6, <1>7, <1>8, <1>9 DEF StructInv

\* The empty and the whole sequence are parts of it as well.
LEMMA PartsOfTmp ==
  ASSUME TypeOK
  PROVE  /\ \E n \in 0 .. Len(tmp) : <<>> = SubSeq(tmp, 1, n)
         /\ \E n \in 0 .. Len(tmp) : tmp = SubSeq(tmp, 1, n)
<1>1. tmp \in Seq(Record) /\ Len(tmp) \in Nat
  BY LenProperties DEF TypeOK
<1>2. <<>> = SubSeq(tmp, 1, 0) /\ tmp = SubSeq(tmp, 1, Len(tmp))
  BY <1>1, SubSeqEmpty, SubSeqFull
<1>3. 0 \in 0 .. Len(tmp) /\ Len(tmp) \in 0 .. Len(tmp)
  BY <1>1
<1>4. QED
  BY <1>2, <1>3, Zenon

LEMMA RenameStruct ==
  ASSUME StructInv, Rename
  PROVE  StructInv'
<1>1. /\ up /\ phase = "rename" /\ torn' = FALSE
      /\ faulted \subseteq faulted' /\ faulted' \subseteq Faults
      /\ UNCHANGED <<clock, entries, compactN, after, pending, synced>>
  BY DEF Rename, Fault, NoFault, StructInv, TypeOK
<1>2. \/ file' = tmp /\ tmp' = <<>> /\ Resume
      \/ file' = <<>> /\ phase' = "copy" /\ up' = up /\ tmp' = tmp /\ "rename" \in faulted'
  BY DEF Rename, Fault
<1>3. \E n \in 0 .. Len(tmp) : file' = SubSeq(tmp, 1, n)
  BY <1>2, PartsOfTmp DEF StructInv
<1>4. QED
  BY <1>1, <1>2, <1>3, ReplaceStruct

LEMMA CopyStruct ==
  ASSUME StructInv, Copy
  PROVE  StructInv'
<1>1. /\ up /\ phase = "copy" /\ torn' = torn /\ Resume
      /\ faulted \subseteq faulted' /\ faulted' \subseteq Faults
      /\ tmp' \in {tmp, <<>>}
      /\ UNCHANGED <<clock, entries, compactN, after, pending, synced>>
  BY DEF Copy, Fault, NoFault, StructInv, TypeOK
<1>2. \E n \in 0 .. Len(tmp) : file' = SubSeq(tmp, 1, n)
  BY PartsOfTmp DEF Copy, StructInv
<1>3. QED
  BY <1>1, <1>2, ReplaceStruct

LEMMA CleanupStruct ==
  ASSUME StructInv, Cleanup
  PROVE  StructInv'
<1>1. /\ up /\ phase = "idle" /\ pending = <<>>
      /\ entries' = Unexpired(clock, entries)
      /\ phase' = "writeTmp" /\ after' = "idle"
      /\ synced' = synced \cap DOMAIN entries'
      /\ UNCHANGED <<clock, compactN, up, pending, file, torn, tmp, faulted>>
  BY DEF Cleanup, NoFault, diskVars, StructInv, PhaseInv, Storing
<1>2. /\ StoreMap(Unexpired(clock, entries))
      /\ DOMAIN Unexpired(clock, entries) = {i \in DOMAIN entries : ~Expired(clock, entries[i].at)}
      /\ \A i \in DOMAIN Unexpired(clock, entries) : Unexpired(clock, entries)[i] = entries[i]
  BY UnexpiredMap DEF StructInv, MapInv
<1>3. /\ StoreMap(entries')
      /\ DOMAIN entries' = {i \in DOMAIN entries : ~Expired(clock, entries[i].at)}
      /\ \A i \in DOMAIN entries' : entries'[i] = entries[i]
  BY <1>1, <1>2
<1>4. TypeOK'
  BY <1>1, <1>3 DEF StructInv, TypeOK, StoreMap, Phases
<1>5. MapInv' /\ FileInv'
  BY <1>1, <1>3 DEF StructInv, MapInv, FileInv, Distinct, NotBehind
<1>6. TimeInv'
  <2>1. ~Expired(clock, clock)
    BY FileLines, StoreAssumption DEF StructInv, Expired
  <2>2. QED
    BY <1>1, <1>3, <2>1 DEF StructInv, TimeInv
<1>7. PhaseInv' /\ PendingInv'
  BY <1>1 DEF StructInv, PhaseInv, PendingInv, Storing
<1>8. QED
  BY <1>4, <1>5, <1>6, <1>7 DEF StructInv

LEMMA CloseStruct ==
  ASSUME StructInv, Close
  PROVE  StructInv'
<1>1. /\ up /\ phase = "idle" /\ pending = <<>> /\ phase' = "writeTmp" /\ after' = "close"
      /\ UNCHANGED <<clock, entries, compactN, up, pending, file, torn, tmp, synced, faulted>>
  BY DEF Close, NoFault, diskVars, StructInv, PhaseInv, Storing
<1>2. TypeOK'
  BY <1>1 DEF StructInv, TypeOK, Phases
<1>3. MapInv' /\ FileInv' /\ TimeInv'
  BY <1>1 DEF StructInv, MapInv, FileInv, TimeInv, Distinct, NotBehind
<1>4. PhaseInv' /\ PendingInv'
  BY <1>1 DEF StructInv, PhaseInv, PendingInv, Storing
<1>5. QED
  BY <1>2, <1>3, <1>4 DEF StructInv

LEMMA CrashStruct ==
  ASSUME StructInv, Crash
  PROVE  StructInv'
<1>1. /\ up' = FALSE /\ entries' = NoEntries /\ compactN' = 0 /\ phase' = "idle"
      /\ after' = "idle" /\ pending' = <<>> /\ synced' = {}
      /\ UNCHANGED <<clock, tmp>>
  BY DEF Crash
<1>2. \/ UNCHANGED <<file, torn, faulted>>
      \/ /\ file' = Append(file, Garbage) /\ torn' = TRUE
         /\ "torn" \in Faults /\ faulted' = faulted \cup {"torn"}
  BY DEF Crash, NoFault, Fault
<1>3. file' \in Seq(Line) /\ Ascending(file') /\ Records(file') = Records(file)
  <2>1. file \in Seq(Line) /\ Garbage \in Line /\ Ascending(file)
    BY FileLines DEF StructInv, FileInv, Line
  <2>2. CASE file' = file
    BY <2>1, <2>2
  <2>3. CASE file' = Append(file, Garbage)
    BY <2>1, <2>3, AppendProperties, RecordsAppend, AscendingAppend
  <2>4. QED
    BY <1>2, <2>2, <2>3
<1>4. StoreMap(entries') /\ DOMAIN entries' = {}
  BY <1>1, NoEntriesMap
<1>5. TypeOK'
  <2>1. compactN' \in 0 .. MaxEntries - 1 /\ IsEntryMap(entries)'
    BY <1>1, <1>4, StoreAssumption DEF StoreMap
  <2>2. faulted' \subseteq Faults /\ torn' \in BOOLEAN
    BY <1>2 DEF StructInv, TypeOK
  <2>3. QED
    BY <1>1, <1>3, <2>1, <2>2 DEF StructInv, TypeOK, Phases, Line
<1>6. MapInv' /\ FileInv'
  BY <1>3, <1>4 DEF MapInv, FileInv, Distinct, NotBehind
<1>7. TimeInv' /\ PhaseInv' /\ PendingInv'
  BY <1>1, <1>2, <1>3, <1>4 DEF StructInv, TimeInv, PhaseInv, PendingInv, Storing
<1>8. QED
  BY <1>5, <1>6, <1>7 DEF StructInv

LEMMA StartStruct ==
  ASSUME StructInv, Start
  PROVE  StructInv'
<1> DEFINE es == Loaded(clock, file)
           recs == Records(file)
<1>1. /\ ~up /\ up' = TRUE /\ entries' = es /\ compactN' = 0 /\ phase' = "idle"
      /\ after' = "idle" /\ pending' = <<>> /\ tmp' = <<>>
      /\ UNCHANGED <<clock, file, torn, synced, faulted>>
  BY DEF Start, NoFault
<1>2. /\ clock \in Nat /\ recs \in SUBSET Record /\ Ascending(file)
      /\ Replayed(es, clock, recs)
  BY FileLines, LoadedReplayed DEF StructInv, FileInv
<1> HIDE DEF es
<1>3. \A q, r \in recs : q.at = r.at => q = r
  <2>1. ASSUME NEW m \in DOMAIN file, NEW n \in DOMAIN file, file[m] # Garbage,
               file[n] # Garbage, file[m].at = file[n].at
        PROVE  file[m] = file[n]
    <3>1. file[m].at \in Nat /\ m \in Nat /\ n \in Nat
      BY <1>2, <2>1, FileLines, LenProperties, RecordType DEF StructInv, Records
    <3>2. CASE m < n
      BY <1>2, <2>1, <3>1, <3>2 DEF Ascending
    <3>3. CASE n < m
      BY <1>2, <2>1, <3>1, <3>3 DEF Ascending
    <3>4. CASE m = n
      BY <3>4
    <3>5. QED
      BY <3>1, <3>2, <3>3, <3>4
  <2>2. QED
    BY <2>1 DEF Records
<1> HIDE DEF recs
<1>4. MapInv'
  <2>1. Distinct(es)
    <3>1. SUFFICES ASSUME NEW i \in DOMAIN es, NEW j \in DOMAIN es, es[i].at = es[j].at
                   PROVE  i = j
      BY DEF Distinct
    <3>2. PICK q \in recs : q.id = i /\ es[i] = EntryOf(q)
      BY <1>2 DEF Replayed
    <3>3. PICK r \in recs : r.id = j /\ es[j] = EntryOf(r)
      BY <1>2 DEF Replayed
    <3>4. q.at = r.at
      BY <3>1, <3>2, <3>3 DEF EntryOf
    <3>5. QED
      BY <1>3, <3>2, <3>3, <3>4
  <2>2. QED
    BY <1>1, <1>2, <2>1 DEF MapInv, Replayed
<1>5. TypeOK'
  <2>1. compactN' \in 0 .. MaxEntries - 1 /\ IsEntryMap(entries)' /\ tmp' \in Seq(Record)
    BY <1>1, <1>4, StoreAssumption, EmptySeq DEF MapInv, StoreMap
  <2>2. QED
    BY <1>1, <2>1 DEF StructInv, TypeOK, Phases
<1>6. FileInv'
  BY <1>1, <1>2 DEF FileInv, Replayed, recs
<1>7. TimeInv'
  <2>1. \A r \in recs : r.at <= clock /\ r.at \in Nat
    BY <1>2, RecordType DEF StructInv, TimeInv, recs
  <2>2. \A i \in DOMAIN es : es[i].at <= clock
    BY <1>2, <2>1 DEF Replayed, EntryOf
  <2>3. ASSUME NEW r \in recs, r.at = clock PROVE \E i \in DOMAIN es : es[i].at = clock
    <3>1. ~Expired(clock, r.at)
      BY <1>2, <2>3, StoreAssumption DEF Expired
    <3>2. r.id \in DOMAIN es /\ es[r.id] = EntryOf(r)
      BY <1>2, <2>1, <2>3, <3>1 DEF Replayed
    <3>3. QED
      BY <2>3, <3>2 DEF EntryOf
  <2>4. QED
    BY <1>1, <2>1, <2>2, <2>3 DEF TimeInv, recs
<1>8. PhaseInv' /\ PendingInv'
  BY <1>1 DEF StructInv, PhaseInv, PendingInv, Storing
<1>9. QED
  BY <1>4, <1>5, <1>6, <1>7, <1>8 DEF StructInv

LEMMA TickStruct ==
  ASSUME StructInv, Tick
  PROVE  StructInv'
<1>1. /\ clock' = clock + 1 /\ clock < MaxClock
      /\ UNCHANGED <<entries, compactN, phase, after, pending, up, file, torn, tmp, synced, faulted>>
  BY DEF Tick, NoFault, memVars, diskVars
<1>2. clock \in Nat /\ \A r \in Records(file) : r.at \in Nat
  BY FileLines, RecordType DEF StructInv
<1>3. \A i \in DOMAIN entries : entries[i].at \in Nat
  BY EntryTimes DEF StructInv, MapInv
<1>4. TypeOK'
  <2>1. clock' \in 0 .. MaxClock
    BY <1>1, <1>2, StoreAssumption
  <2>2. QED
    BY <1>1, <2>1 DEF StructInv, TypeOK
<1>5. MapInv' /\ FileInv'
  BY <1>1 DEF StructInv, MapInv, FileInv, Distinct, NotBehind
<1>6. TimeInv'
  BY <1>1, <1>2, <1>3 DEF StructInv, TimeInv
<1>7. PhaseInv' /\ PendingInv'
  BY <1>1 DEF StructInv, PhaseInv, PendingInv, Storing
<1>8. QED
  BY <1>4, <1>5, <1>6, <1>7 DEF StructInv

LEMMA StructStep ==
  ASSUME StructInv, [Next]_vars
  PROVE  StructInv'
<1>1. CASE \E id \in IDs, v \in Responses : BeginStore(id, v)
  BY <1>1, BeginStoreStruct
<1>2. CASE AppendRecord \/ SyncRecord
  BY <1>2, AppendRecordStruct, SyncRecordStruct
<1>3. CASE WriteTmp \/ Rename \/ Copy
  BY <1>3, WriteTmpStruct, RenameStruct, CopyStruct
<1>4. CASE Cleanup \/ Close
  BY <1>4, CleanupStruct, CloseStruct
<1>5. CASE Crash \/ Start \/ Tick
  BY <1>5, CrashStruct, StartStruct, TickStruct
<1>6. CASE UNCHANGED vars
  <2>1. UNCHANGED <<clock, entries, compactN, phase, after, pending, up, file, torn, tmp,
                    synced, faulted>>
    BY <1>6 DEF vars, memVars, diskVars
  <2>2. TypeOK' /\ MapInv' /\ FileInv' /\ TimeInv'
    BY <2>1 DEF StructInv, TypeOK, MapInv, FileInv, TimeInv, Distinct, NotBehind
  <2>3. PhaseInv' /\ PendingInv'
    BY <2>1 DEF StructInv, PhaseInv, PendingInv, Storing
  <2>4. QED
    BY <2>2, <2>3 DEF StructInv
<1>7. QED
  BY <1>1, <1>2, <1>3, <1>4, <1>5, <1>6 DEF Next

-------------------------------------------------------------------------------
(* As long as nothing has failed, the file says what the memory says. *)

\* The file as it will be once the record being stored has been appended.
Ahead == IF pending = <<>> \/ phase = "sync" THEN file ELSE Append(file, pending[1])

DurableInv == up /\ faulted = {} => Loaded(clock, Ahead) = Unexpired(clock, entries)

LEMMA AheadLines ==
  ASSUME StructInv, NEW lines \in {file, Ahead}
  PROVE  /\ lines \in Seq(Line) /\ Ascending(lines)
         /\ Replayed(Loaded(clock, lines), clock, Records(lines))
         /\ StoreMap(Loaded(clock, lines))
         /\ \A i \in DOMAIN Loaded(clock, lines) : ~Expired(clock, Loaded(clock, lines)[i].at)
<1>1. file \in Seq(Line) /\ Ascending(file) /\ clock \in Nat
  BY FileLines DEF StructInv, FileInv
<1>2. ASSUME pending # <<>>
      PROVE  Append(file, pending[1]) \in Seq(Line) /\ Ascending(Append(file, pending[1]))
  <2>1. pending[1] \in Line /\ UpTo(Records(file), pending[1])
    BY <1>2, PendingRecord DEF StructInv, PendingInv, Line
  <2>2. QED
    BY <1>1, <2>1, AppendProperties, AscendingAppend DEF StructInv, FileInv
<1>3. lines \in Seq(Line) /\ Ascending(lines)
  BY <1>1, <1>2 DEF Ahead
<1>4. Replayed(Loaded(clock, lines), clock, Records(lines))
  BY <1>1, <1>3, LoadedReplayed
<1>5. QED
  BY <1>3, <1>4 DEF Replayed

\* What load makes of the file at once has not expired.
LEMMA LoadedIsLive ==
  ASSUME StructInv, NEW lines \in {file, Ahead}
  PROVE  Unexpired(clock, Loaded(clock, lines)) = Loaded(clock, lines)
  BY AheadLines, NothingExpired

\* A map that has the record being stored does not need it again.
LEMMA PendingKnown ==
  ASSUME StructInv, pending # <<>>
  PROVE  LoadLine(clock, Unexpired(clock, entries), pending[1]) = Unexpired(clock, entries)
<1> DEFINE rec == pending[1]
           left == Unexpired(clock, entries)
<1>1. /\ rec.id \in DOMAIN entries /\ entries[rec.id] = EntryOf(rec) /\ rec.at \in Nat
  BY PendingRecord, RecordType DEF StructInv, PendingInv
<1>2. /\ DOMAIN left = {i \in DOMAIN entries : ~Expired(clock, entries[i].at)}
      /\ \A i \in DOMAIN left : left[i] = entries[i]
  BY UnexpiredMap DEF StructInv, MapInv
<1> HIDE DEF rec, left
<1>3. Skipped(clock, left, rec)
  BY <1>1, <1>2 DEF Skipped, EntryOf
<1>4. QED
  BY <1>3 DEF LoadLine, rec, left

\* A compaction brings the file to the state of the memory, and appending the
\* record being stored once more does not matter.
LEMMA ReplacedByMap ==
  ASSUME StructInv, phase \in {"rename", "copy"}, file' = tmp,
         UNCHANGED <<clock, entries, pending>>, phase' # "sync"
  PROVE  /\ Loaded(clock, file)' = Unexpired(clock, entries)
         /\ Loaded(clock, Ahead)' = Unexpired(clock, entries)
<1>1. /\ StoreMap(entries) /\ Distinct(entries) /\ clock \in Nat /\ tmp = Compacted(entries)
      /\ clock' = clock
  BY FileLines DEF StructInv, MapInv, PhaseInv
<1>2. Loaded(clock, tmp) = Unexpired(clock, entries)
  BY <1>1, LoadedCompacted
<1>3. ASSUME pending # <<>>
      PROVE  Loaded(clock, Append(tmp, pending[1])) = Unexpired(clock, entries)
  <2>1. tmp \in Seq(Line) /\ pending[1] \in Line
    BY <1>1, <1>3, CompactedLines, RecordsAreLines, PendingRecord DEF StructInv, Line
  <2>2. Loaded(clock, Append(tmp, pending[1])) = LoadLine(clock, Loaded(clock, tmp), pending[1])
    BY <2>1, LoadedAppend
  <2>3. QED
    BY <1>2, <1>3, <2>2, PendingKnown
<1>4. QED
  BY <1>1, <1>2, <1>3 DEF Ahead

\* A record newer than all others is not skipped.
LEMMA FreshTaken ==
  ASSUME NEW now \in Nat, NEW es, StoreMap(es), \A i \in DOMAIN es : es[i].at < now,
         NEW id \in IDs, NEW v \in Responses, now <= MaxClock
  PROVE  LoadLine(now, es, [id |-> id, value |-> v, at |-> now]) = Inserted(es, id, v, now)
<1> DEFINE rec == [id |-> id, value |-> v, at |-> now]
<1>1. rec \in Record
  BY StoreAssumption DEF Record
<1>2. rec # Garbage /\ rec.at = now /\ rec.id = id /\ rec.value = v
  BY <1>1, RecordType
<1>3. ~Expired(now, now)
  BY StoreAssumption DEF Expired
<1>4. \A i \in DOMAIN es : ~ (now <= es[i].at)
  BY EntryTimes
<1> HIDE DEF rec
<1>5. ~Skipped(now, es, rec)
  BY <1>2, <1>3, <1>4 DEF Skipped
<1>6. QED
  BY <1>2, <1>5 DEF LoadLine, rec

\* A Store that begins adds its entry to what the file will give.
LEMMA StoredAhead ==
  ASSUME StructInv, NEW id \in IDs, NEW v \in Responses, BeginStore(id, v)
  PROVE  /\ Ahead = file /\ file' = file /\ clock' = clock
         /\ \A i \in DOMAIN Loaded(clock, file) : Loaded(clock, file)[i].at < clock
         /\ Loaded(clock, Ahead)' = Inserted(Loaded(clock, file), id, v, clock)
<1> DEFINE rec == [id |-> id, value |-> v, at |-> clock]
           es == Loaded(clock, file)
<1>1. /\ up /\ pending = <<>> /\ FreshTick(entries)
      /\ pending' = <<rec>> /\ phase' # "sync" /\ file' = file /\ clock' = clock
  BY DEF BeginStore, StructInv, PhaseInv, Storing, diskVars
<1>2. clock \in Nat /\ clock <= MaxClock /\ file \in Seq(Line) /\ Records(file) \in SUBSET Record
  BY FileLines, StoreAssumption DEF StructInv, TypeOK
<1>3. \A r \in Records(file) : r.at < clock
  <2>1. \A i \in DOMAIN entries : entries[i].at # clock
    BY <1>1, <1>2, EntryTimes DEF FreshTick, StructInv, MapInv
  <2>2. \A r \in Records(file) : r.at <= clock /\ r.at # clock /\ r.at \in Nat
    BY <1>1, <1>2, <2>1, RecordType DEF StructInv, TimeInv
  <2>3. QED
    BY <1>2, <2>2
<1>4. Replayed(es, clock, Records(file)) /\ StoreMap(es)
  BY AheadLines
<1> HIDE DEF es
<1>5. \A i \in DOMAIN es : es[i].at < clock
  BY <1>3, <1>4 DEF Replayed, EntryOf
<1>6. rec \in Line
  BY <1>2, StoreAssumption DEF Record, Line
<1>7. Loaded(clock, Append(file, rec)) = LoadLine(clock, es, rec)
  <2> HIDE DEF rec
  <2>1. QED
    BY <1>2, <1>6, LoadedAppend DEF es
<1>8. LoadLine(clock, es, rec) = Inserted(es, id, v, clock)
  BY <1>2, <1>4, <1>5, FreshTaken
<1>9. Ahead = file /\ Ahead' = Append(file, rec)
  <2> HIDE DEF rec
  <2>1. QED
    BY <1>1 DEF Ahead
<1>10. QED
  <2> HIDE DEF rec
  <2>1. Loaded(clock, Ahead)' = Loaded(clock, Append(file, rec))
    BY <1>1, <1>9
  <2>2. QED
    BY <1>1, <1>5, <1>7, <1>8, <1>9, <2>1 DEF es

\* No step takes a failure back.
LEMMA FaultsStay ==
  ASSUME [Next]_vars
  PROVE  faulted \subseteq faulted'
  BY DEF Next, vars, BeginStore, AppendRecord, SyncRecord, WriteTmp, Rename, Copy, Cleanup,
     Close, Crash, Start, Tick, Fault, NoFault

LEMMA DurableStep ==
  ASSUME StructInv, DurableInv, [Next]_vars
  PROVE  DurableInv'
<1> SUFFICES ASSUME up', faulted' = {}
             PROVE  Loaded(clock, Ahead)' = Unexpired(clock, entries)'
  BY DEF DurableInv
<1>1. faulted = {} /\ ~torn
  BY FaultsStay DEF StructInv, PhaseInv
<1>2. /\ clock \in Nat /\ StoreMap(entries)
      /\ up => Loaded(clock, Ahead) = Unexpired(clock, entries)
  BY <1>1, FileLines DEF DurableInv, StructInv, MapInv
<1>3. \A f : ~Fault(f)
  BY DEF Fault
<1>4. ASSUME UNCHANGED <<clock, entries>>, up, Ahead' = Ahead
      PROVE  Loaded(clock, Ahead)' = Unexpired(clock, entries)'
  BY <1>2, <1>4
<1>5. ASSUME NEW id \in IDs, NEW v \in Responses, BeginStore(id, v)
      PROVE  Loaded(clock, Ahead)' = Unexpired(clock, entries)'
  <2>1. /\ Ahead = file /\ clock' = clock /\ up
        /\ entries' = Inserted(entries, id, v, clock)
        /\ Loaded(clock, Ahead)' = Inserted(Loaded(clock, file), id, v, clock)
    BY <1>5, StoredAhead DEF BeginStore
  <2>2. Loaded(clock, file) = Unexpired(clock, entries)
    BY <1>2, <2>1
  <2>3. clock \in 0 .. MaxClock /\ ~Expired(clock, clock)
    BY <1>2, StoreAssumption DEF StructInv, TypeOK, Expired
  <2>4. Inserted(Unexpired(clock, entries), id, v, clock)
          = Unexpired(clock, Inserted(entries, id, v, clock))
    BY <1>2, <2>3, InsertedUnexpired
  <2>5. QED
    BY <2>1, <2>2, <2>4
<1>6. CASE AppendRecord
  <2>1. file' = Append(file, pending[1]) /\ phase' = "sync"
    BY <1>1, <1>3, <1>6 DEF AppendRecord, WithRecord
  <2>2. pending # <<>>
    BY <1>6 DEF AppendRecord, StructInv, PhaseInv, Storing
  <2>3. Ahead' = Ahead /\ up /\ UNCHANGED <<clock, entries>>
    BY <1>6, <2>1, <2>2 DEF AppendRecord, Ahead
  <2>4. QED
    BY <1>4, <2>3
<1>7. CASE SyncRecord
  <2>1. Ahead' = Ahead /\ up /\ UNCHANGED <<clock, entries>>
    BY <1>7 DEF SyncRecord, Ahead, diskVars
  <2>2. QED
    BY <1>4, <2>1
<1>8. CASE WriteTmp
  <2>1. Ahead' = Ahead /\ up /\ UNCHANGED <<clock, entries>>
    BY <1>8 DEF WriteTmp, Resume, Ahead
  <2>2. QED
    BY <1>4, <2>1
<1>9. CASE Rename
  <2>1. /\ phase \in {"rename", "copy"} /\ file' = tmp /\ phase' # "sync"
        /\ UNCHANGED <<clock, entries, pending>>
    BY <1>3, <1>9 DEF Rename, Resume
  <2>2. Loaded(clock, Ahead)' = Unexpired(clock, entries)
    BY <2>1, ReplacedByMap
  <2>3. QED
    BY <2>1, <2>2
<1>10. CASE Copy
  BY <1>1, <1>10 DEF Copy, StructInv, PhaseInv
<1>11. CASE Cleanup
  <2>1. /\ up /\ clock' = clock /\ entries' = Unexpired(clock, entries)
        /\ Ahead = file /\ Ahead' = file
    BY <1>11 DEF Cleanup, Ahead, diskVars, StructInv, PhaseInv, Storing
  <2>2. Unexpired(clock, Unexpired(clock, entries)) = Unexpired(clock, entries)
    BY <1>2, UnexpiredTwice
  <2>3. QED
    BY <1>2, <2>1, <2>2
<1>12. CASE Close
  <2>1. Ahead' = Ahead /\ up /\ UNCHANGED <<clock, entries>>
    BY <1>12 DEF Close, Ahead, diskVars
  <2>2. QED
    BY <1>4, <2>1
<1>13. CASE Crash
  BY <1>13 DEF Crash
<1>14. CASE Start
  <2>1. /\ clock' = clock /\ entries' = Loaded(clock, file) /\ Ahead' = file
    BY <1>14 DEF Start, Ahead
  <2>2. Unexpired(clock, Loaded(clock, file)) = Loaded(clock, file)
    BY LoadedIsLive
  <2>3. QED
    BY <2>1, <2>2
<1>15. CASE Tick
  <2>1. clock' = clock + 1 /\ up /\ entries' = entries /\ Ahead' = Ahead
    BY <1>15 DEF Tick, Ahead, memVars, diskVars
  <2>2. Ahead \in Seq(Line) /\ Ascending(Ahead)
    BY AheadLines
  <2>3. clock + 1 \in Nat /\ clock <= clock + 1
    BY <1>2
  <2>4. Loaded(clock + 1, Ahead) = Unexpired(clock + 1, Loaded(clock, Ahead))
    BY <1>2, <2>2, <2>3, LoadedLater
  <2>5. Unexpired(clock + 1, Unexpired(clock, entries)) = Unexpired(clock + 1, entries)
    BY <1>2, <2>3, UnexpiredTwice
  <2>6. QED
    BY <1>2, <2>1, <2>4, <2>5
<1>16. CASE UNCHANGED vars
  <2>1. Ahead' = Ahead /\ up' = up /\ UNCHANGED <<clock, entries>>
    BY <1>16 DEF vars, memVars, diskVars, Ahead
  <2>2. QED
    BY <1>4, <2>1
<1>17. QED
  BY <1>5, <1>6, <1>7, <1>8, <1>9, <1>10, <1>11, <1>12, <1>13, <1>14, <1>15, <1>16 DEF Next

-------------------------------------------------------------------------------
(* Appends and compactions that fail before they write lose no record that   *)
(* has been acknowledged.                                                    *)

\* Where the file would give an entry the map lacks, or an older one than it
\* has, that entry is older than everything in the map.
Covers(es, old) ==
  \A j \in DOMAIN old :
    \/ \A i \in DOMAIN es : old[j].at < es[i].at
    \/ j \in DOMAIN es /\ old[j].at <= es[j].at

\* What load makes of the file, old, has the unexpired entries es has of safe.
Keeps(es, old, now, safe) ==
  \A i \in safe :
    i \in DOMAIN es /\ ~Expired(now, es[i].at) => i \in DOMAIN old /\ old[i] = es[i]

Follows(es, old, now, safe) == Covers(es, old) /\ Keeps(es, old, now, safe)

SurviveInv ==
  faulted \subseteq {"append", "compact"} =>
    \A lines \in {file, Ahead} : Follows(entries, Loaded(clock, lines), clock, synced)

\* A Store does not take an entry from the file that the map still has.  Before
\* the record is appended:
LEMMA StoreFollowed ==
  ASSUME NEW es, NEW old, NEW now \in Nat, NEW safe, Follows(es, old, now, safe),
         StoreMap(es), StoreMap(old), Distinct(es),
         \A i \in DOMAIN es : es[i].at < now, \A j \in DOMAIN old : old[j].at < now,
         NEW id, NEW v, NEW into, TookIn(into, es, id, v, now)
  PROVE  Follows(into, old, now, safe \cap (DOMAIN into \ {id}))
<1>1. /\ \A i \in DOMAIN es : es[i].at \in Nat
      /\ \A j \in DOMAIN old : old[j].at \in Nat
  BY EntryTimes
<1>2. into[id].at = now /\ id \in DOMAIN into
  BY DEF TookIn
<1>3. ASSUME NEW j \in DOMAIN old, \A i \in DOMAIN es : old[j].at < es[i].at
      PROVE  \A i \in DOMAIN into : old[j].at < into[i].at
  BY <1>2, <1>3 DEF TookIn
<1>4. ASSUME NEW j \in DOMAIN es, j \in DOMAIN old, old[j].at <= es[j].at, j \in DOMAIN into
      PROVE  old[j].at <= into[j].at
  <2>1. CASE j = id
    BY <1>1, <1>2, <1>4, <2>1
  <2>2. CASE j # id
    BY <1>4, <2>2 DEF TookIn
  <2>3. QED
    BY <2>1, <2>2
<1>5. ASSUME NEW j \in DOMAIN es, j \in DOMAIN old, old[j].at <= es[j].at, j \notin DOMAIN into,
             NEW i \in DOMAIN into
      PROVE  old[j].at < into[i].at
  <2>1. CASE i = id
    BY <1>2, <1>5, <2>1
  <2>2. CASE i # id
    <3>1. i \in DOMAIN es /\ into[i] = es[i] /\ i # j
      BY <1>5, <2>2 DEF TookIn
    <3>2. j \in Oldest(es)
      BY <1>5 DEF TookIn, MakeRoom, Without
    <3>3. es[j].at <= es[i].at /\ es[j].at # es[i].at
      BY <3>1, <3>2 DEF Oldest, Distinct
    <3>4. QED
      BY <1>1, <1>5, <3>1, <3>3
  <2>3. QED
    BY <2>1, <2>2
<1>6. Covers(into, old)
  BY <1>3, <1>4, <1>5 DEF Follows, Covers
<1>7. Keeps(into, old, now, safe \cap (DOMAIN into \ {id}))
  BY DEF Follows, Keeps, TookIn
<1>8. QED
  BY <1>6, <1>7 DEF Follows

\* And once it is: if the file then loses an acknowledged entry to make room,
\* so does the map.
LEMMA AppendFollowed ==
  ASSUME NEW es, NEW old, NEW now \in Nat, NEW safe, Follows(es, old, now, safe),
         StoreMap(es), StoreMap(old), Distinct(es),
         \A i \in DOMAIN es : es[i].at < now, \A j \in DOMAIN old : old[j].at < now,
         NEW id, NEW v, NEW into, TookIn(into, es, id, v, now),
         NEW more, TookIn(more, old, id, v, now)
  PROVE  Follows(into, more, now, safe \cap (DOMAIN into \ {id}))
<1>1. Follows(into, old, now, safe \cap (DOMAIN into \ {id}))
  BY StoreFollowed
<1>2. Covers(into, more)
  <2>1. ASSUME NEW j \in DOMAIN more, j # id
        PROVE  j \in DOMAIN old /\ more[j] = old[j]
    BY <2>1 DEF TookIn
  <2>2. id \in DOMAIN into /\ more[id].at <= into[id].at
    BY DEF TookIn
  <2>3. QED
    BY <1>1, <2>1, <2>2 DEF Follows, Covers
<1>3. ASSUME NEW i \in safe, i \in DOMAIN into, i # id, ~Expired(now, into[i].at)
      PROVE  i \in DOMAIN more /\ more[i] = into[i]
  <2>1. i \in DOMAIN es /\ into[i] = es[i] /\ i \in DOMAIN MakeRoom(es)
    BY <1>3 DEF TookIn
  <2>2. i \in DOMAIN old /\ old[i] = es[i]
    BY <1>3, <2>1 DEF Follows, Keeps
  <2>3. i \in DOMAIN MakeRoom(old)
    <3>1. SUFFICES ASSUME AtCapacity(old), i \in Oldest(old) PROVE FALSE
      BY <2>2 DEF MakeRoom, Without
    <3>2. \A j \in DOMAIN old : es[i].at <= old[j].at /\ es[i].at \in Nat /\ old[j].at \in Nat
      BY <2>1, <2>2, <3>1, EntryTimes DEF Oldest
    <3>3. \A j \in DOMAIN old : j \in DOMAIN es /\ old[j].at <= es[j].at
      BY <2>1, <3>2 DEF Follows, Covers
    <3>4. DOMAIN old = DOMAIN es /\ AtCapacity(es)
      <4>1. DOMAIN old \subseteq DOMAIN es
        BY <3>3
      <4>2. /\ Cardinality(DOMAIN old) \in Nat /\ Cardinality(DOMAIN es) \in Nat
            /\ Cardinality(DOMAIN old) <= Cardinality(DOMAIN es)
            /\ Cardinality(DOMAIN old) = Cardinality(DOMAIN es) => DOMAIN old = DOMAIN es
        BY <4>1, FS_Subset, FS_CardinalityType DEF StoreMap
      <4>3. Cardinality(DOMAIN old) >= MaxEntries /\ Cardinality(DOMAIN es) <= MaxEntries
        BY <3>1 DEF AtCapacity, StoreMap
      <4>4. QED
        BY <4>2, <4>3, StoreAssumption DEF AtCapacity
    <3>5. i \in Oldest(es)
      <4>1. ASSUME NEW j \in DOMAIN es PROVE es[i].at <= es[j].at
        <5>1. es[i].at <= old[j].at /\ old[j].at <= es[j].at
          BY <3>2, <3>3, <3>4
        <5>2. es[i].at \in Nat /\ old[j].at \in Nat /\ es[j].at \in Nat
          BY <3>2, <3>4, EntryTimes
        <5>3. QED
          BY <5>1, <5>2
      <4>2. QED
        BY <2>1, <4>1 DEF Oldest
    <3>6. QED
      BY <2>1, <3>4, <3>5 DEF MakeRoom, Without
  <2>4. QED
    BY <1>3, <2>1, <2>2, <2>3 DEF TookIn
<1>4. QED
  BY <1>2, <1>3 DEF Follows, Keeps

\* A map is followed by itself, and by what of it has not expired.
LEMMA FollowsItself ==
  ASSUME NEW es, StoreMap(es), NEW now, NEW safe
  PROVE  Follows(es, es, now, safe) /\ Follows(es, Unexpired(now, es), now, safe)
<1> DEFINE left == Unexpired(now, es)
<1>1. /\ DOMAIN left = {i \in DOMAIN es : ~Expired(now, es[i].at)}
      /\ \A i \in DOMAIN left : left[i] = es[i]
  BY UnexpiredMap
<1> HIDE DEF left
<1>2. \A i \in DOMAIN es : es[i].at <= es[i].at
  BY EntryTimes
<1>3. Follows(es, left, now, safe)
  BY <1>1, <1>2 DEF Follows, Covers, Keeps
<1>4. QED
  BY <1>2, <1>3 DEF Follows, Covers, Keeps, left

\* The cleanup drops from the map what load would skip anyway.
LEMMA CleanupFollowed ==
  ASSUME NEW es, NEW old, NEW now \in Nat, NEW safe, Follows(es, old, now, safe),
         StoreMap(es), StoreMap(old), \A j \in DOMAIN old : ~Expired(now, old[j].at)
  PROVE  Follows(Unexpired(now, es), old, now, safe \cap DOMAIN Unexpired(now, es))
<1> DEFINE left == Unexpired(now, es)
<1>1. /\ DOMAIN left = {i \in DOMAIN es : ~Expired(now, es[i].at)}
      /\ \A i \in DOMAIN left : left[i] = es[i]
  BY UnexpiredMap
<1> HIDE DEF left
<1>2. ASSUME NEW j \in DOMAIN old, j \in DOMAIN es, old[j].at <= es[j].at
      PROVE  j \in DOMAIN left
  <2>1. old[j].at \in Nat /\ es[j].at \in Nat /\ ~Expired(now, old[j].at)
    BY <1>2, EntryTimes
  <2>2. ~Expired(now, es[j].at)
    BY <1>2, <2>1, StoreAssumption DEF Expired
  <2>3. QED
    BY <1>1, <1>2, <2>2
<1>3. Covers(left, old)
  BY <1>1, <1>2 DEF Follows, Covers
<1>4. Keeps(left, old, now, safe \cap DOMAIN left)
  BY <1>1 DEF Follows, Keeps
<1>5. QED
  BY <1>3, <1>4 DEF Follows, left

\* Time takes from the file no more than it takes from the map.
LEMMA TickFollowed ==
  ASSUME NEW es, NEW old, NEW now \in Nat, NEW later \in Nat, now <= later, NEW safe,
         Follows(es, old, now, safe), StoreMap(es), StoreMap(old)
  PROVE  Follows(es, Unexpired(later, old), later, safe)
<1> DEFINE left == Unexpired(later, old)
<1>1. /\ DOMAIN left = {j \in DOMAIN old : ~Expired(later, old[j].at)}
      /\ \A j \in DOMAIN left : left[j] = old[j]
  BY UnexpiredMap
<1> HIDE DEF left
<1>2. Covers(es, left)
  BY <1>1 DEF Follows, Covers
<1>3. \A i \in DOMAIN es : ~Expired(later, es[i].at) => ~Expired(now, es[i].at)
  BY EntryTimes, StoreAssumption DEF Expired
<1>4. Keeps(es, left, later, safe)
  BY <1>1, <1>3 DEF Follows, Keeps
<1>5. QED
  BY <1>2, <1>4 DEF Follows, left

LEMMA SurviveStep ==
  ASSUME StructInv, SurviveInv, [Next]_vars
  PROVE  SurviveInv'
<1> SUFFICES ASSUME faulted' \subseteq {"append", "compact"}
             PROVE  \A lines \in {file', Ahead'} :
                      Follows(entries', Loaded(clock', lines), clock', synced')
  BY DEF SurviveInv
<1>1. faulted \subseteq {"append", "compact"} /\ ~torn
  BY FaultsStay DEF StructInv, PhaseInv
<1>2. /\ clock \in Nat /\ StoreMap(entries) /\ Distinct(entries)
      /\ \A lines \in {file, Ahead} : Follows(entries, Loaded(clock, lines), clock, synced)
  BY <1>1, FileLines DEF SurviveInv, StructInv, MapInv
<1>3. ~Fault("torn") /\ ~Fault("rename") /\ ~Fault("copy")
  BY DEF Fault
<1>4. ASSUME UNCHANGED <<clock, entries, synced>>, file' \in {file, Ahead}, Ahead' \in {file, Ahead}
      PROVE  \A lines \in {file', Ahead'} :
               Follows(entries', Loaded(clock', lines), clock', synced')
  BY <1>2, <1>4
<1>5. ASSUME NEW id \in IDs, NEW v \in Responses, BeginStore(id, v)
      PROVE  \A lines \in {file', Ahead'} :
               Follows(entries', Loaded(clock', lines), clock', synced')
  <2> DEFINE old == Loaded(clock, file)
             into == Inserted(entries, id, v, clock)
             more == Inserted(old, id, v, clock)
  <2>1. /\ file' = file /\ clock' = clock /\ entries' = into
        /\ synced' = synced \cap (DOMAIN into \ {id})
        /\ Loaded(clock, Ahead)' = more
        /\ \A j \in DOMAIN old : old[j].at < clock
        /\ \A i \in DOMAIN entries : entries[i].at < clock
    BY <1>5, StoredAhead DEF BeginStore, FreshTick
  <2>2. StoreMap(old) /\ clock \in 0 .. MaxClock
    BY AheadLines DEF StructInv, TypeOK
  <2>3. TookIn(into, entries, id, v, clock)
    BY <1>2, <2>2, InsertedMap
  <2>4. TookIn(more, old, id, v, clock)
    <3> HIDE DEF old
    <3>1. QED
      BY <2>2, InsertedMap
  <2>5. Follows(entries, old, clock, synced)
    BY <1>2
  <2> HIDE DEF old, into, more
  <2>6. Follows(into, old, clock, synced \cap (DOMAIN into \ {id}))
    BY <1>2, <2>1, <2>2, <2>3, <2>5, StoreFollowed
  <2>7. Follows(into, more, clock, synced \cap (DOMAIN into \ {id}))
    BY <1>2, <2>1, <2>2, <2>3, <2>4, <2>5, AppendFollowed
  <2>8. Loaded(clock', file') = old /\ Loaded(clock', Ahead') = more
    BY <2>1 DEF old
  <2>9. QED
    BY <2>1, <2>6, <2>7, <2>8
<1>6. CASE AppendRecord
  <2>1. pending # <<>> /\ phase = "append" /\ UNCHANGED <<clock, entries, synced>>
    BY <1>6 DEF AppendRecord, StructInv, PhaseInv, Storing
  <2>2. Ahead = Append(file, pending[1])
    BY <2>1 DEF Ahead
  <2>3. \/ file' = Append(file, pending[1]) /\ phase' = "sync"
        \/ file' = file /\ pending' = <<>>
    BY <1>1, <1>3, <1>6 DEF AppendRecord, WithRecord
  <2>4. file' \in {file, Ahead} /\ Ahead' = file'
    BY <2>2, <2>3 DEF Ahead
  <2>5. QED
    BY <1>4, <2>1, <2>4
<1>7. CASE SyncRecord
  <2> DEFINE rec == pending[1]
             old == Loaded(clock, file)
  <2>1. /\ phase = "sync" /\ pending # <<>> /\ synced' = synced \cup {rec.id}
        /\ UNCHANGED <<clock, entries, file>> /\ Ahead' = file
    BY <1>7 DEF SyncRecord, diskVars, Ahead, StructInv, PhaseInv, Storing
  <2>2. /\ entries[rec.id] = EntryOf(rec) /\ rec \in Records(file)
        /\ UpTo(Records(file), rec)
    BY <1>1, <2>1 DEF StructInv, PendingInv
  <2>3. Replayed(old, clock, Records(file)) /\ Follows(entries, old, clock, synced)
    BY <1>2, AheadLines
  <2>4. \A r \in Records(file) : r.at <= rec.at
    BY <2>2, FileLines, RecordType DEF StructInv, UpTo
  <2> HIDE DEF rec, old
  <2>5. ~Expired(clock, entries[rec.id].at) => rec.id \in DOMAIN old /\ old[rec.id] = entries[rec.id]
    BY <2>2, <2>3, <2>4 DEF Replayed, EntryOf
  <2>6. Follows(entries, old, clock, synced \cup {rec.id})
    BY <2>3, <2>5 DEF Follows, Keeps
  <2>7. QED
    BY <2>1, <2>6 DEF old
<1>8. CASE WriteTmp
  <2>1. Ahead' = Ahead /\ UNCHANGED <<clock, entries, synced, file>>
    BY <1>8 DEF WriteTmp, Resume, Ahead
  <2>2. QED
    BY <1>4, <2>1
<1>9. CASE Rename
  <2>1. /\ phase \in {"rename", "copy"} /\ file' = tmp /\ phase' # "sync"
        /\ UNCHANGED <<clock, entries, pending, synced>>
    BY <1>3, <1>9 DEF Rename, Resume
  <2>2. /\ Loaded(clock, file)' = Unexpired(clock, entries)
        /\ Loaded(clock, Ahead)' = Unexpired(clock, entries)
    BY <2>1, ReplacedByMap
  <2>3. Follows(entries, Unexpired(clock, entries), clock, synced)
    BY <1>2, FollowsItself
  <2>4. QED
    BY <2>1, <2>2, <2>3
<1>10. CASE Copy
  BY <1>1, <1>10 DEF Copy, StructInv, PhaseInv
<1>11. CASE Cleanup
  <2> DEFINE old == Loaded(clock, file)
  <2>1. /\ clock' = clock /\ entries' = Unexpired(clock, entries)
        /\ synced' = synced \cap DOMAIN Unexpired(clock, entries)
        /\ file' = file /\ Ahead' = file
    BY <1>11 DEF Cleanup, Ahead, diskVars, StructInv, PhaseInv, Storing
  <2>2. StoreMap(old) /\ \A j \in DOMAIN old : ~Expired(clock, old[j].at)
    BY AheadLines
  <2>3. Follows(entries, old, clock, synced)
    BY <1>2
  <2> HIDE DEF old
  <2>4. Follows(Unexpired(clock, entries), old, clock, synced \cap DOMAIN Unexpired(clock, entries))
    BY <1>2, <2>2, <2>3, CleanupFollowed
  <2>5. QED
    BY <2>1, <2>4 DEF old
<1>12. CASE Close
  <2>1. Ahead' = Ahead /\ UNCHANGED <<clock, entries, synced, file>>
    BY <1>12 DEF Close, Ahead, diskVars
  <2>2. QED
    BY <1>4, <2>1
<1>13. CASE Crash
  <2>1. DOMAIN entries' = {} /\ synced' = {}
    BY <1>13, NoEntriesMap DEF Crash
  <2>2. QED
    BY <2>1 DEF Follows, Covers, Keeps
<1>14. CASE Start
  <2> DEFINE old == Loaded(clock, file)
  <2>1. /\ clock' = clock /\ entries' = old /\ file' = file /\ Ahead' = file
    BY <1>14 DEF Start, Ahead
  <2>2. StoreMap(old)
    BY AheadLines
  <2> HIDE DEF old
  <2>3. Follows(old, old, clock, synced')
    BY <2>2, FollowsItself
  <2>4. QED
    BY <2>1, <2>3 DEF old
<1>15. CASE Tick
  <2>1. clock' = clock + 1 /\ entries' = entries /\ Ahead' = Ahead /\ file' = file
        /\ synced' = synced
    BY <1>15 DEF Tick, Ahead, memVars, diskVars
  <2>2. clock + 1 \in Nat /\ clock <= clock + 1
    BY <1>2
  <2>3. ASSUME NEW lines \in {file, Ahead}
        PROVE  Follows(entries, Loaded(clock + 1, lines), clock + 1, synced)
    <3> DEFINE old == Loaded(clock, lines)
    <3>1. lines \in Seq(Line) /\ Ascending(lines) /\ StoreMap(old)
      BY AheadLines
    <3>2. Loaded(clock + 1, lines) = Unexpired(clock + 1, old)
      BY <1>2, <2>2, <3>1, LoadedLater
    <3>3. Follows(entries, old, clock, synced)
      BY <1>2
    <3> HIDE DEF old
    <3>4. Follows(entries, Unexpired(clock + 1, old), clock + 1, synced)
      BY <1>2, <2>2, <3>1, <3>3, TickFollowed
    <3>5. QED
      BY <3>2, <3>4
  <2>4. QED
    BY <2>1, <2>3
<1>16. CASE UNCHANGED vars
  <2>1. Ahead' = Ahead /\ UNCHANGED <<clock, entries, synced, file>>
    BY <1>16 DEF vars, memVars, diskVars, Ahead
  <2>2. QED
    BY <1>4, <2>1
<1>17. QED
  BY <1>5, <1>6, <1>7, <1>8, <1>9, <1>10, <1>11, <1>12, <1>13, <1>14, <1>15, <1>16 DEF Next

-------------------------------------------------------------------------------
(* Seen through the file, the store is the abstract one. *)

\* Abstract is an instance of a module that extends FiniteSets once more.
LEMMA AbstractCardinality == \A S : Abstract!Cardinality(S) = Cardinality(S)
  BY DEF Cardinality, Abstract!Cardinality

\* What load makes of a file in order is a map of unexpired entries.
LEMMA LiveLines ==
  ASSUME NEW now \in Nat, NEW lines \in Seq(Line), Ascending(lines)
  PROVE  StoreMap(Loaded(now, lines)) /\ Unexpired(now, Loaded(now, lines)) = Loaded(now, lines)
<1> DEFINE es == Loaded(now, lines)
<1>1. StoreMap(es) /\ \A i \in DOMAIN es : ~Expired(now, es[i].at)
  BY LoadedReplayed DEF Replayed
<1> HIDE DEF es
<1>2. StoreMap(es) /\ Unexpired(now, es) = es
  BY <1>1, NothingExpired
<1>3. QED
  BY <1>2 DEF es

\* The step that brings the record being stored to the file is its Put, or load
\* does not care for the record.
LEMMA AppendIsPut ==
  ASSUME StructInv, pending # <<>>, clock' = clock,
         Visible(Loaded(clock, file))' = LoadLine(clock, Loaded(clock, file), pending[1])
  PROVE  Abstract!Next \/ UNCHANGED <<clock, Visible(Loaded(clock, file))>>
<1> DEFINE rec == pending[1]
           view == Visible(Loaded(clock, file))
<1>1. /\ rec \in Record /\ rec.id \in IDs /\ rec.value \in Responses /\ rec.at \in 0 .. MaxClock
      /\ rec.at \in Nat /\ rec # Garbage /\ rec.id \in DOMAIN entries
      /\ entries[rec.id] = EntryOf(rec) /\ UpTo(Records(file), rec)
  BY PendingRecord, RecordType DEF StructInv, PendingInv
<1>2. rec.at \in 0 .. clock
  BY <1>1, FileLines DEF StructInv, TimeInv, EntryOf
<1>3. view = Loaded(clock, file) /\ Replayed(view, clock, Records(file))
  BY LoadedIsLive, AheadLines DEF Visible
<1>4. view' = LoadLine(clock, view, rec)
  BY <1>3
<1> HIDE DEF rec, view
<1>5. CASE Skipped(clock, view, rec)
  <2>1. view' = view
    BY <1>4, <1>5 DEF LoadLine
  <2>2. QED
    BY <2>1 DEF view
<1>6. CASE ~Skipped(clock, view, rec)
  <2> DEFINE room == MakeRoom(view)
             dropped == IF AtCapacity(view) THEN Oldest(view) ELSE {}
  <2>1. view' = Inserted(view, rec.id, rec.value, rec.at) /\ StoreMap(view)
    BY <1>3, <1>4, <1>6 DEF LoadLine, Replayed
  <2>2. TookIn(view', view, rec.id, rec.value, rec.at)
    <3>1. TookIn(Inserted(view, rec.id, rec.value, rec.at), view, rec.id, rec.value, rec.at)
      BY <1>1, <2>1, InsertedMap
    <3>2. QED
      BY <2>1, <3>1
  <2>3. \A i \in DOMAIN view : view[i].at < rec.at
    <3>1. SUFFICES ASSUME NEW i \in DOMAIN view PROVE view[i].at < rec.at
      OBVIOUS
    <3>2. PICK r \in Records(file) : r.id = i /\ view[i] = EntryOf(r)
      BY <1>3 DEF Replayed
    <3>3. r # rec
      BY <1>1, <1>6, <3>2 DEF Skipped, EntryOf
    <3>4. QED
      BY <1>1, <3>2, <3>3 DEF UpTo, EntryOf
  <2>4. DOMAIN room = DOMAIN view \ dropped
    BY DEF MakeRoom, Without
  <2>5. dropped \in Abstract!MayDrop
    <3>1. ASSUME AtCapacity(view)
          PROVE  Abstract!Cardinality(DOMAIN view) = MaxEntries /\ Abstract!Oldest = Oldest(view)
      <4>1. Cardinality(DOMAIN view) = MaxEntries
        BY <2>1, <3>1, FS_CardinalityType, StoreAssumption DEF StoreMap, AtCapacity
      <4>2. QED
        BY <4>1, AbstractCardinality DEF Abstract!Oldest, Oldest, view
    <3>2. QED
      BY <3>1 DEF Abstract!MayDrop, view
  <2> HIDE DEF room, dropped
  <2>6. view' = [i \in (DOMAIN view \ dropped) \cup {rec.id} |->
                   IF i = rec.id THEN [value |-> rec.value, at |-> rec.at] ELSE view[i]]
    <3> DEFINE put == [i \in (DOMAIN view \ dropped) \cup {rec.id} |->
                         IF i = rec.id THEN [value |-> rec.value, at |-> rec.at] ELSE view[i]]
    <3>1. DOMAIN view' = DOMAIN put /\ \A i \in DOMAIN view' : view'[i] = put[i]
      BY <2>2, <2>4 DEF TookIn, room
    <3>2. view' = [i \in DOMAIN view' |-> view'[i]] /\ put = [i \in DOMAIN put |-> put[i]]
      BY <2>2 DEF TookIn, StoreMap
    <3> HIDE DEF put
    <3>3. put = view'
      BY <3>1, <3>2, SameMap
    <3>4. QED
      BY <3>3 DEF put
  <2>7. Cardinality(DOMAIN view') <= MaxEntries
    BY <2>2 DEF TookIn, StoreMap
  <2>8. Abstract!Put(rec.id, rec.value)
    BY <1>2, <2>3, <2>5, <2>6, <2>7, AbstractCardinality DEF Abstract!Put, view
  <2>9. QED
    BY <1>1, <2>8 DEF Abstract!Next
<1>7. QED
  BY <1>5, <1>6

\* A tick takes from the file what the abstract tick takes.
LEMMA TickIsTick ==
  ASSUME StructInv, StructInv', Tick
  PROVE  Abstract!Next
<1> DEFINE now == Loaded(clock, file)
           view == Visible(Loaded(clock, file))
<1>1. /\ clock' = clock + 1 /\ clock < MaxClock /\ file' = file
      /\ clock \in Nat /\ clock + 1 \in Nat /\ clock <= clock + 1
      /\ file \in Seq(Line) /\ Ascending(file)
  BY FileLines DEF Tick, diskVars, StructInv, FileInv
<1>2. view = now /\ StoreMap(now)
  BY <1>1, LiveLines DEF Visible
<1>3. view' = Loaded(clock + 1, file)
  BY <1>1, LiveLines DEF Visible
<1>4. view' = Unexpired(clock + 1, now)
  BY <1>1, <1>3, LoadedLater
<1>5. \A i \in DOMAIN view : view[i].at \in Nat
  BY <1>2, EntryTimes
<1> HIDE DEF now, view
<1>6. {j \in DOMAIN view : ~Expired(clock + 1, view[j].at)}
        = {j \in DOMAIN view : clock' - view[j].at <= TTL}
  BY <1>1, <1>5, StoreAssumption DEF Expired
<1>7. view' = [i \in {j \in DOMAIN view : clock' - view[j].at <= TTL} |-> view[i]]
  <2>1. view' = [i \in {j \in DOMAIN view : ~Expired(clock + 1, view[j].at)} |-> view[i]]
    BY <1>2, <1>4, Zenon DEF Unexpired, Without
  <2>2. QED
    BY <1>6, <2>1, Zenon
<1>8. Abstract!Tick
  BY <1>1, <1>7 DEF Abstract!Tick, view
<1>9. QED
  BY <1>8 DEF Abstract!Next

LEMMA StepIsAbstract ==
  ASSUME StructInv, DurableInv, [Next]_vars, faulted' = {}
  PROVE  Abstract!Next \/ UNCHANGED <<clock, Visible(Loaded(clock, file))>>
<1>1. faulted = {} /\ ~torn /\ \A f : ~Fault(f)
  BY FaultsStay DEF StructInv, PhaseInv, Fault
<1>2. clock \in Nat /\ StructInv'
  BY FileLines, StructStep DEF StructInv
<1>3. ASSUME UNCHANGED <<clock, file>> PROVE UNCHANGED <<clock, Visible(Loaded(clock, file))>>
  BY <1>3 DEF Visible
<1>4. CASE \E id \in IDs, v \in Responses : BeginStore(id, v)
  BY <1>3, <1>4 DEF BeginStore, diskVars
<1>5. CASE SyncRecord \/ WriteTmp \/ Cleanup \/ Close \/ Start
  BY <1>3, <1>5 DEF SyncRecord, WriteTmp, Cleanup, Close, Start, diskVars
<1>6. CASE Crash
  BY <1>1, <1>3, <1>6 DEF Crash
<1>7. CASE AppendRecord
  <2>1. /\ pending # <<>> /\ clock' = clock /\ file' = Append(file, pending[1])
    BY <1>1, <1>7 DEF AppendRecord, WithRecord, StructInv, PhaseInv, Storing
  <2>2. file \in Seq(Line) /\ pending[1] \in Line
    BY <2>1, FileLines, PendingRecord DEF StructInv, Line
  <2>3. Loaded(clock, Append(file, pending[1])) = LoadLine(clock, Loaded(clock, file), pending[1])
    BY <2>2, LoadedAppend
  <2>4. file' \in Seq(Line) /\ Ascending(file')
    BY <1>2 DEF StructInv, TypeOK, FileInv, Line
  <2>5. Visible(Loaded(clock, file))' = Loaded(clock, file')
    BY <1>2, <2>1, <2>4, LiveLines DEF Visible
  <2>6. QED
    BY <2>1, <2>3, <2>5, AppendIsPut
<1>8. CASE Rename
  <2>1. /\ phase = "rename" /\ up /\ file' = tmp /\ phase' # "sync"
        /\ UNCHANGED <<clock, entries, pending>>
    BY <1>1, <1>8 DEF Rename, Resume
  <2>2. Loaded(clock, file') = Unexpired(clock, entries)
    BY <2>1, ReplacedByMap
  <2>3. file' \in Seq(Line) /\ Ascending(file')
    BY <1>2 DEF StructInv, TypeOK, FileInv, Line
  <2>4. Visible(Loaded(clock, file))' = Loaded(clock, file')
    BY <1>2, <2>1, <2>3, LiveLines DEF Visible
  <2>5. Loaded(clock, Ahead) = Unexpired(clock, entries)
    BY <1>1, <2>1 DEF DurableInv
  <2>6. CASE pending = <<>>
    <3>1. Visible(Loaded(clock, file)) = Loaded(clock, file) /\ Ahead = file
      BY <2>6, LoadedIsLive DEF Ahead, Visible
    <3>2. QED
      BY <2>1, <2>2, <2>4, <2>5, <3>1
  <2>7. CASE pending # <<>>
    <3>1. Ahead = Append(file, pending[1])
      BY <2>1, <2>7 DEF Ahead
    <3>2. file \in Seq(Line) /\ pending[1] \in Line
      BY <2>7, FileLines, PendingRecord DEF StructInv, Line
    <3>3. Loaded(clock, Ahead) = LoadLine(clock, Loaded(clock, file), pending[1])
      BY <3>1, <3>2, LoadedAppend
    <3>4. QED
      BY <2>1, <2>2, <2>4, <2>5, <2>7, <3>3, AppendIsPut
  <2>8. QED
    BY <2>6, <2>7
<1>9. CASE Copy
  BY <1>1, <1>9 DEF Copy, StructInv, PhaseInv
<1>10. CASE Tick
  BY <1>2, <1>10, TickIsTick
<1>11. CASE UNCHANGED vars
  BY <1>3, <1>11 DEF vars, diskVars
<1>12. QED
  BY <1>4, <1>5, <1>6, <1>7, <1>8, <1>9, <1>10, <1>11 DEF Next

-------------------------------------------------------------------------------
\* Whatever fails and whenever the process dies, the map, the file and the
\* operation under way hang together (file.go:47-266).
THEOREM StructHolds == Spec => []StructInv
<1>1. Init => StructInv
  BY StructInit
<1>2. StructInv /\ [Next]_vars => StructInv'
  BY StructStep
<1>3. QED
  BY <1>1, <1>2, PTL DEF Spec

\* The variables of the file store stay within their types.
THEOREM TypesHold == Spec => []TypeOK
<1>1. StructInv => TypeOK
  BY DEF StructInv
<1>2. QED
  BY <1>1, StructHolds, PTL

\* Across restarts and whatever fails, the map stays within store_max_entries
\* and never holds a response older than the file has for its id
\* (file.go:57-104, 116-142).
THEOREM MapIsSound == Spec => []MapSound
<1>1. StructInv => MapSound
  <2> SUFFICES ASSUME StructInv PROVE MapSound
    OBVIOUS
  <2>1. Cardinality(DOMAIN entries) <= MaxEntries
    BY DEF StructInv, MapInv, StoreMap
  <2>2. ASSUME NEW n \in DOMAIN file, file[n] # Garbage, file[n].id \in DOMAIN entries
        PROVE  LET held == entries[file[n].id]
               IN \/ file[n].at < held.at
                  \/ file[n].at = held.at /\ file[n].value = held.value
    <3>1. file[n] \in Records(file)
      BY <2>2 DEF Records
    <3>2. file[n].at < entries[file[n].id].at \/ entries[file[n].id] = EntryOf(file[n])
      BY <2>2, <3>1 DEF StructInv, FileInv, NotBehind
    <3>3. QED
      BY <3>2 DEF EntryOf
  <2>3. QED
    BY <2>1, <2>2 DEF MapSound
<1>2. QED
  BY <1>1, StructHolds, PTL

\* As long as nothing has failed, the file, with the record being stored
\* appended, gives what Get finds - between any two system calls.
THEOREM FileIsAhead == Spec => []DurableInv
<1>1. Init => DurableInv
  <2> SUFFICES ASSUME Init PROVE Loaded(clock, Ahead) = Unexpired(clock, entries)
    BY DEF DurableInv
  <2>1. Ahead = <<>> /\ entries = NoEntries
    BY DEF Init, Ahead
  <2>2. Unexpired(clock, NoEntries) = NoEntries
    BY NoEntriesMap, NothingExpired
  <2>3. QED
    BY <2>1, <2>2, LoadedEmpty
<1>2. StructInv /\ DurableInv /\ [Next]_vars => DurableInv'
  BY DurableStep
<1>3. QED
  BY <1>1, <1>2, StructHolds, PTL DEF Spec

\* So dying between two operations and starting again changes nothing for the
\* clients: nothing is lost and nothing comes back (file.go:116-266).
THEOREM RestartChangesNothing == Spec => []DurableView
<1>1. StructInv /\ DurableInv => DurableView
  <2> SUFFICES ASSUME StructInv, DurableInv, up, phase = "idle", faulted = {}
               PROVE  Visible(Loaded(clock, file)) = Visible(entries)
    BY DEF DurableView
  <2>1. Ahead = file
    BY DEF StructInv, PhaseInv, Storing, Ahead
  <2>2. Loaded(clock, file) = Unexpired(clock, entries)
    BY <2>1 DEF DurableInv
  <2>3. Unexpired(clock, Loaded(clock, file)) = Loaded(clock, file)
    BY LoadedIsLive
  <2>4. QED
    BY <2>2, <2>3 DEF Visible
<1>2. QED
  BY <1>1, StructHolds, FileIsAhead, PTL

\* Appends and compactions that fail before they write cost no record that was
\* appended without error and that Get still finds (file.go:144-266).
THEOREM AcknowledgedSurvive == Spec => []SyncedSurvive
<1>1. Init => SurviveInv
  <2> SUFFICES ASSUME Init, NEW lines \in {file, Ahead}
               PROVE  Follows(entries, Loaded(clock, lines), clock, synced)
    BY DEF SurviveInv
  <2>1. lines = <<>> /\ entries = NoEntries
    BY DEF Init, Ahead
  <2>2. Follows(NoEntries, NoEntries, clock, synced)
    BY NoEntriesMap, FollowsItself
  <2>3. QED
    BY <2>1, <2>2, LoadedEmpty
<1>2. StructInv /\ SurviveInv /\ [Next]_vars => SurviveInv'
  BY SurviveStep
<1>3. StructInv /\ SurviveInv => SyncedSurvive
  <2> SUFFICES ASSUME StructInv, SurviveInv, faulted \subseteq {"append", "compact"},
                      NEW id \in Acknowledged
               PROVE  Survives(id)
    BY DEF SyncedSurvive
  <2>1. Keeps(entries, Loaded(clock, file), clock, synced)
    BY DEF SurviveInv, Follows
  <2>2. DOMAIN Unexpired(clock, entries) = {i \in DOMAIN entries : ~Expired(clock, entries[i].at)}
    BY UnexpiredMap DEF StructInv, MapInv
  <2>3. id \in synced /\ id \in DOMAIN entries /\ ~Expired(clock, entries[id].at)
    BY <2>2 DEF Acknowledged, Visible
  <2>4. QED
    BY <2>1, <2>3 DEF Keeps, Survives
<1>4. QED
  BY <1>1, <1>2, <1>3, StructHolds, PTL DEF Spec

\* Seen through the file, and as long as nothing has failed, every step of the
\* file store is a step of the abstract store or none: a Store takes effect
\* between two system calls, at the append or already at the rename of the
\* compaction before it, and a crash anywhere repeats or takes back nothing
\* (file.go:116-266).
THEOREM FileServesStore == Spec => ImplementsStore
<1>1. Init => Abstract!Init
  <2> SUFFICES ASSUME Init PROVE Abstract!Init
    OBVIOUS
  <2>1. clock = 0 /\ file = <<>>
    BY DEF Init
  <2>2. Unexpired(clock, NoEntries) = NoEntries
    BY NoEntriesMap, NothingExpired
  <2>3. Visible(Loaded(clock, file)) = NoEntries
    BY <2>1, <2>2, LoadedEmpty DEF Visible
  <2>4. QED
    BY <2>1, <2>3 DEF Abstract!Init, NoEntries
<1>2. StructInv /\ DurableInv /\ [Next]_vars
        => [faulted' # {} \/ Abstract!Next]_<<clock, Visible(Loaded(clock, file))>>
  BY StepIsAbstract
<1>3. QED
  BY <1>1, <1>2, StructHolds, FileIsAhead, PTL DEF Spec, ImplementsStore

===============================================================================
