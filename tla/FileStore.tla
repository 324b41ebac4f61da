------------------------------ MODULE FileStore ------------------------------
(*****************************************************************************)
(* FileStore of internal/store/file.go: the entry map of the memory store    *)
(* backed by a JSON-lines file that is appended to on every Store, rewritten *)
(* by compaction, and read back by load when the process starts again.       *)
(*                                                                           *)
(* Store, cleanup and Close hold the mutex for their whole duration, so Get  *)
(* never sees them half done; but the process may die between any two of     *)
(* their system calls, which is why each of those calls is a step.  `phase`  *)
(* names the call the holder of the mutex makes next.                        *)
(*                                                                           *)
(* A line of the file is a record or Garbage: bytes that json.Unmarshal      *)
(* rejects.  `torn` says that the last line lacks its newline, so that the   *)
(* next record is written behind it on the same line.                        *)
(*****************************************************************************)
EXTENDS StoreEntries, Sequences

CONSTANTS
  Garbage,     \* a line that does not parse
  Oversized,   \* responses whose line exceeds the scanner's 1 MB buffer
  Faults,      \* which system calls may fail: see FaultKinds
  MaxLines     \* bound of the model: no Store once the file has so many lines

\* "append": the append fails before it writes; "torn": it stops half-way;
\* "compact": the temp file cannot be written; "rename": os.Rename fails;
\* "copy": the copy that replaces the rename stops early.
FaultKinds == {"append", "torn", "compact", "rename", "copy"}

ASSUME FileAssumption ==
  /\ Garbage \notin [id : IDs, value : Responses, at : Nat]
  /\ Oversized \subseteq Responses
  /\ Faults \subseteq FaultKinds
  /\ MaxLines \in Nat

VARIABLES
  entries,   \* the map in memory
  compactN,  \* evictions since the last compaction
  up,        \* the process runs and NewFile has succeeded
  phase,     \* the next system call of the operation that holds the mutex
  after,     \* what that operation does after compacting
  pending,   \* the record being stored, as a sequence of at most one
  file,      \* lines of the store file
  torn,      \* the last line of the file is unfinished
  tmp,       \* lines of the temp file
  synced,    \* history: ids whose entry this process appended without error
  faulted    \* history: the kinds of failure that have happened

memVars  == <<entries, compactN, phase, after, pending>>
diskVars == <<file, torn, tmp>>
vars == <<clock, memVars, up, diskVars, synced, faulted>>

\* What a step that meets no failure leaves alone with the rest.
NoFault == UNCHANGED faulted
Fault(f) == f \in Faults /\ faulted' = faulted \cup {f}

Record == [id : IDs, value : Responses, at : 0 .. MaxClock]
Phases == {"idle", "writeTmp", "rename", "copy", "append", "sync"}

TypeOK ==
  /\ clock \in 0 .. MaxClock
  /\ IsEntryMap(entries)
  /\ compactN \in 0 .. MaxEntries - 1
  /\ up \in BOOLEAN
  /\ phase \in Phases
  /\ after \in {"append", "idle", "close"}
  /\ pending \in {<<>>} \cup {<<rec>> : rec \in Record}
  /\ file \in Seq(Record \cup {Garbage})
  /\ torn \in BOOLEAN
  /\ tmp \in Seq(Record)
  /\ synced \subseteq IDs
  /\ faulted \subseteq Faults

Init ==
  /\ clock = 0
  /\ entries = NoEntries
  /\ compactN = 0
  /\ up = TRUE
  /\ phase = "idle"
  /\ after = "idle"
  /\ pending = <<>>
  /\ file = <<>>
  /\ torn = FALSE
  /\ tmp = <<>>
  /\ synced = {}
  /\ faulted = {}

(*****************************************************************************)
(* load: the lines in order; unreadable and expired ones are skipped, and a  *)
(* record replaces an earlier one of its id only if it is strictly newer.    *)
(*****************************************************************************)
\* Seeded fault: the first record of an id wins.
SkippedIfKnown(now, es, line) ==
  \/ line = Garbage
  \/ Expired(now, line.at)
  \/ line.id \in DOMAIN es

Skipped(now, es, line) ==
  \/ line = Garbage
  \/ Expired(now, line.at)
  \/ line.id \in DOMAIN es /\ line.at <= es[line.id].at

\* Seeded fault: load forgets store_max_entries.
LoadLineUnbounded(now, es, line) ==
  IF Skipped(now, es, line) THEN es
  ELSE [i \in DOMAIN es \cup {line.id} |->
          IF i = line.id THEN [value |-> line.value, at |-> line.at] ELSE es[i]]

LoadLine(now, es, line) ==
  IF Skipped(now, es, line) THEN es ELSE Inserted(es, line.id, line.value, line.at)

\* read[n]: what the first n lines give.
Loaded(now, lines) ==
  LET read[n \in 0 .. Len(lines)] ==
        IF n = 0 THEN NoEntries ELSE LoadLine(now, read[n - 1], lines[n])
  IN read[Len(lines)]

\* scanner.Err: a line beyond the buffer ends the scan with an error.
Loadable(lines) ==
  \A i \in DOMAIN lines : lines[i] # Garbage => lines[i].value \notin Oversized

\* The ids of a map by the age of their entries, which all differ.
ByAge(es) ==
  CHOOSE ids \in [1 .. Cardinality(DOMAIN es) -> DOMAIN es] :
    \A m, n \in DOMAIN ids : m < n => es[ids[m]].at < es[ids[n]].at

\* The file compaction writes: every entry, oldest first.
Compacted(es) ==
  [n \in DOMAIN ByAge(es) |->
     [id |-> ByAge(es)[n], value |-> es[ByAge(es)[n]].value, at |-> es[ByAge(es)[n]].at]]

(*****************************************************************************)
(* Store: storeLocked, with its compaction when MaxEntries entries were      *)
(* evicted since the last one, then appendLocked.                            *)
(*****************************************************************************)
\* Seeded fault: off by one.
CompactionLate(evictions) == evictions > MaxEntries

CompactionDue(evictions) == evictions >= MaxEntries

BeginStore(id, v) ==
  LET evictions == IF AtCapacity(entries) THEN compactN + 1 ELSE compactN
  IN /\ up /\ phase = "idle"
     /\ FreshTick(entries)
     /\ Len(file) < MaxLines
     /\ entries' = Inserted(entries, id, v, clock)
     /\ compactN' = IF CompactionDue(evictions) THEN 0 ELSE evictions
     /\ phase' = IF CompactionDue(evictions) THEN "writeTmp" ELSE "append"
     /\ after' = "append"
     /\ pending' = <<[id |-> id, value |-> v, at |-> clock]>>
     /\ synced' = synced \cap (DOMAIN entries' \ {id})
     /\ NoFault
  /\ UNCHANGED <<clock, up, diskVars>>

\* A record written behind an unfinished line is lost with it.
WithRecord(rec) == IF torn THEN file ELSE Append(file, rec)

\* appendLocked: the write, which may fail or stop half-way; its error is
\* dropped by Store.
AppendRecord ==
  /\ up /\ phase = "append"
  /\ \/ /\ file' = WithRecord(pending[1])
        /\ torn' = FALSE
        /\ phase' = "sync"
        /\ NoFault
        /\ UNCHANGED pending
     \/ /\ Fault("append")
        /\ phase' = "idle"
        /\ pending' = <<>>
        /\ UNCHANGED <<file, torn>>
     \/ /\ Fault("torn")
        /\ file' = IF torn THEN file ELSE Append(file, Garbage)
        /\ torn' = TRUE
        /\ phase' = "idle"
        /\ pending' = <<>>
  /\ UNCHANGED <<clock, entries, compactN, up, after, tmp, synced>>

\* file.Sync returns and with it Store: the record is acknowledged.
SyncRecord ==
  /\ up /\ phase = "sync"
  /\ synced' = synced \cup {pending[1].id}
  /\ pending' = <<>>
  /\ phase' = "idle"
  /\ NoFault
  /\ UNCHANGED <<clock, entries, compactN, up, after, diskVars>>

(*****************************************************************************)
(* compactLocked: temp file, sync, rename; a failing rename falls back to    *)
(* truncating the store file and copying.                                    *)
(*****************************************************************************)
\* Where the operation goes on once compactLocked has returned.
Resume ==
  /\ phase' = IF after = "append" THEN "append" ELSE "idle"
  /\ up' = (after # "close")

\* Seeded fault: the write error is dropped and the empty temp file renamed.
WriteTmpUnchecked ==
  /\ up /\ phase = "writeTmp"
  /\ \/ NoFault /\ tmp' = Compacted(entries)
     \/ Fault("compact") /\ tmp' = <<>>
  /\ phase' = "rename"
  /\ UNCHANGED <<clock, up, entries, compactN, after, pending, file, torn, synced>>

WriteTmp ==
  /\ up /\ phase = "writeTmp"
  /\ \/ /\ tmp' = Compacted(entries)
        /\ phase' = "rename"
        /\ NoFault
        /\ UNCHANGED up
     \/ /\ Fault("compact")
        /\ UNCHANGED tmp
        /\ Resume
  /\ UNCHANGED <<clock, entries, compactN, after, pending, file, torn, synced>>

\* Seeded fault: compaction always rewrites the store file in place.
RewriteInPlace ==
  /\ up /\ phase = "rename"
  /\ file' = <<>>
  /\ torn' = FALSE
  /\ phase' = "copy"
  /\ NoFault
  /\ UNCHANGED <<clock, up, entries, compactN, after, pending, tmp, synced>>

Rename ==
  /\ up /\ phase = "rename"
  /\ \/ /\ file' = tmp
        /\ torn' = FALSE
        /\ tmp' = <<>>
        /\ NoFault
        /\ Resume
     \/ /\ Fault("rename")
        /\ file' = <<>>
        /\ torn' = FALSE
        /\ phase' = "copy"
        /\ UNCHANGED <<tmp, up>>
  /\ UNCHANGED <<clock, entries, compactN, after, pending, synced>>

\* copyFile: a copy that stops early leaves the temp file behind.
Copy ==
  /\ up /\ phase = "copy"
  /\ \/ /\ file' = tmp
        /\ tmp' = <<>>
        /\ NoFault
     \/ /\ Fault("copy")
        /\ \E n \in 0 .. Len(tmp) : file' = SubSeq(tmp, 1, n)
        /\ UNCHANGED tmp
  /\ Resume
  /\ UNCHANGED <<clock, entries, compactN, after, pending, torn, synced>>

\* cleanup: drop the expired entries and compact if there were any.
Cleanup ==
  /\ up /\ phase = "idle"
  /\ Unexpired(clock, entries) # entries
  /\ entries' = Unexpired(clock, entries)
  /\ phase' = "writeTmp"
  /\ after' = "idle"
  /\ synced' = synced \cap DOMAIN entries'
  /\ NoFault
  /\ UNCHANGED <<clock, compactN, up, pending, diskVars>>

\* Close compacts; the process ends with it.
Close ==
  /\ up /\ phase = "idle"
  /\ phase' = "writeTmp"
  /\ after' = "close"
  /\ NoFault
  /\ UNCHANGED <<clock, entries, compactN, up, pending, diskVars, synced>>

(*****************************************************************************)
(* The process dies.  main installs no signal handler, so the SIGTERM of     *)
(* `stop` kills it here as well.  A record being appended may be on the      *)
(* file, not there, or (with torn writes) half there.                        *)
(*****************************************************************************)
Crash ==
  /\ up
  /\ up' = FALSE
  /\ entries' = NoEntries
  /\ compactN' = 0
  /\ phase' = "idle"
  /\ after' = "idle"
  /\ pending' = <<>>
  /\ \/ /\ NoFault
        /\ UNCHANGED <<file, torn>>
     \/ /\ phase = "append" /\ ~torn
        /\ Fault("torn")
        /\ file' = Append(file, Garbage)
        /\ torn' = TRUE
  /\ synced' = {}
  /\ UNCHANGED <<clock, tmp>>

\* NewFile: remove a left-over temp file and load.
Start ==
  /\ ~up
  /\ tmp' = <<>>
  /\ Loadable(file)
  /\ entries' = Loaded(clock, file)
  /\ compactN' = 0
  /\ phase' = "idle"
  /\ after' = "idle"
  /\ pending' = <<>>
  /\ up' = TRUE
  /\ NoFault
  /\ UNCHANGED <<clock, file, torn, synced>>

Tick ==
  /\ clock < MaxClock
  /\ clock' = clock + 1
  /\ NoFault
  /\ UNCHANGED <<memVars, up, diskVars, synced>>

Next ==
  \/ \E id \in IDs, v \in Responses : BeginStore(id, v)
  \/ AppendRecord \/ SyncRecord
  \/ WriteTmp \/ Rename \/ Copy
  \/ Cleanup \/ Close
  \/ Crash \/ Start
  \/ Tick

Spec == Init /\ [][Next]_vars

-------------------------------------------------------------------------------
\* As long as no system call has failed: whenever no operation is under way,
\* dying and starting again would give exactly the responses Get finds now.
\* Nothing is lost, and nothing evicted or expired comes back (file.go:116-266).
DurableView ==
  up /\ phase = "idle" /\ faulted = {} => Visible(Loaded(clock, file)) = Visible(entries)

\* Seen through the file, as long as no system call has failed, the store is the
\* abstract one: a Store takes effect at one instant, between two system calls,
\* and a crash anywhere - in the middle of an append or a compaction - takes
\* back or repeats nothing.
Abstract == INSTANCE BoundedStore WITH view <- Visible(Loaded(clock, file))
ImplementsStore ==
  /\ Abstract!Init
  /\ [][faulted' # {} \/ Abstract!Next]_<<clock, Visible(Loaded(clock, file))>>

\* Entries that were appended without error and that Get still finds.
Acknowledged == synced \cap DOMAIN Visible(entries)

Survives(id) == id \in DOMAIN Loaded(clock, file) /\ Loaded(clock, file)[id] = entries[id]

\* They survive the death of the process although other appends and
\* compactions have failed, as long as none was torn or fell back to copying.
SyncedSurvive ==
  faulted \subseteq {"append", "compact"} => \A id \in Acknowledged : Survives(id)

\* Whatever fails, across restarts, the map stays within store_max_entries and
\* never holds an older response than the file has for the same id.
MapSound ==
  /\ Cardinality(DOMAIN entries) <= MaxEntries
  /\ \A i \in DOMAIN file :
       file[i] # Garbage /\ file[i].id \in DOMAIN entries
       => LET held == entries[file[i].id]
          IN \/ file[i].at < held.at
             \/ file[i].at = held.at /\ file[i].value = held.value

\* What docs/archives/PERSISTENCE_RELIABILITY_PHASE4_PLAN.md:109 states: "File
\* store should write atomically and recover gracefully from corrupt/partial
\* records" - torn or not, an acknowledged entry survives.
AllSurvive == \A id \in Acknowledged : Survives(id)

===============================================================================
