----------------------------- MODULE DaemonProofs -----------------------------
(*****************************************************************************)
(* TLAPS proofs about Daemon: for any number of terminals and processes, the *)
(* daemon to stay is the only one and named in the PID file as soon as it is *)
(* past writing it (NamedOnceWritten), unless one of the mishaps happens:    *)
(* a write or a removal of the file that fails is one of them.  The file     *)
(* stays its own only because nobody else is there to write it (OneKept) and *)
(* no stop is about to remove it (RemovesNone), which in turn needs that a   *)
(* stop only signals the daemon the file names (FoundIsKept, NamedIsKept,    *)
(* WroteIt).                                                                 *)
(*****************************************************************************)
EXTENDS Daemon, TLAPS

\* At first nothing runs and nothing is named.
LEMMA InitInv == Init => Inv
<1> SUFFICES ASSUME Init PROVE Inv
  OBVIOUS
<1>1. TypeOK /\ Daemons = {}
  BY DEF Init, TypeOK, Daemons, Running, Ended
<1>2. WroteIt /\ HoldsPid
  BY DaemonAssumption DEF Init, WroteIt, HoldsPid
<1>3. QED
  BY <1>1, <1>2 DEF Init, Inv, Kept, OneKept, NamedOnceWritten, OneCommand,
     NoStranger, RemovesNone, NamedIsKept, FoundIsKept

\* No step of a command breaks the invariant.
LEMMA CommandKeepsInv ==
  ASSUME Inv, NEW t \in Terminals, Begin(t) \/ CommandStep(t)
  PROVE  Inv'
<1> USE DaemonAssumption
    DEF Inv, TypeOK, WroteIt, HoldsPid, OneKept, NamedOnceWritten, OneCommand,
        NoStranger, RemovesNone, NamedIsKept, FoundIsKept, Calm, Kept, Daemons,
        Running, Ended, Goto
<1>1. CASE Begin(t)
  BY <1>1 DEF Begin, Note
<1>2. CASE ReadPID(t)
  BY <1>2 DEF ReadPID, StopEnds
<1>3. CASE KillProcess(t)
  BY <1>3 DEF KillProcess, StopEnds
<1>4. CASE RemovePIDFile(t)
  <2>1. CASE pidFile' = NoPid /\ UNCHANGED mishaps
    BY <1>4, <2>1 DEF RemovePIDFile, StopEnds
  <2>2. CASE UNCHANGED pidFile /\ mishaps' = mishaps \cup {"unremoved"}
    <3>1. ~Calm'
      BY <2>2
    <3>2. TypeOK' /\ WroteIt' /\ HoldsPid'
      BY <1>4, <2>2 DEF RemovePIDFile, StopEnds
    <3>3. QED
      BY <3>1, <3>2
  <2>3. QED
    BY <1>4, <2>1, <2>2 DEF RemovePIDFile
<1>5. CASE Daemonize(t)
  BY <1>5 DEF Daemonize, Note
<1>6. CASE FailStart(t)
  BY <1>6 DEF FailStart
<1>7. QED
  BY <1>1, <1>2, <1>3, <1>4, <1>5, <1>6 DEF CommandStep

\* No step of a daemon, and no end of one, breaks the invariant.
LEMMA DaemonKeepsInv ==
  ASSUME Inv, NEW p \in Pids, DaemonStep(p) \/ Crash(p) \/ Reuse(p)
  PROVE  Inv'
<1> USE DaemonAssumption
    DEF Inv, TypeOK, WroteIt, HoldsPid, OneKept, NamedOnceWritten, OneCommand,
        NoStranger, RemovesNone, NamedIsKept, FoundIsKept, Calm, Kept, Daemons,
        Running, Ended, Reach
<1>1. CASE TruncatePIDFile(p)
  BY <1>1 DEF TruncatePIDFile
<1>2. CASE WritePIDFile(p)
  BY <1>2 DEF WritePIDFile
<1>3. CASE OpenStore(p)
  BY <1>3 DEF OpenStore
<1>4. CASE Listen(p)
  BY <1>4 DEF Listen
<1>5. CASE Terminate(p)
  BY <1>5 DEF Terminate
<1>6. CASE Crash(p)
  BY <1>6 DEF Crash
<1>7. CASE Reuse(p)
  BY <1>7 DEF Reuse
<1>8. CASE FailToWritePIDFile(p)
  BY <1>8 DEF FailToWritePIDFile
<1>9. QED
  BY <1>1, <1>2, <1>3, <1>4, <1>5, <1>6, <1>7, <1>8 DEF DaemonStep

\* The variables keep their types, and who has its PID in the file, in the hands
\* of a stop or signalled is past WritePIDFile, in every behaviour, mishaps or
\* not; unless starts or commands overlap, a PID is used again, or the file
\* could not be written or removed, the daemon to stay is the only one, and
\* named.
THEOREM DaemonInvariant == Spec => []Inv
<1>1. Init => Inv
  BY InitInv
<1>2. Inv /\ [Next]_vars => Inv'
  <2> SUFFICES ASSUME Inv, [Next]_vars PROVE Inv'
    OBVIOUS
  <2>1. ASSUME NEW t \in Terminals, Begin(t) \/ CommandStep(t) PROVE Inv'
    BY <2>1, CommandKeepsInv
  <2>2. ASSUME NEW p \in Pids, DaemonStep(p) \/ Crash(p) \/ Reuse(p) PROVE Inv'
    BY <2>2, DaemonKeepsInv
  <2>3. CASE UNCHANGED vars
    BY <2>3 DEF vars, Inv, TypeOK, WroteIt, HoldsPid, OneKept,
       NamedOnceWritten, OneCommand, NoStranger, RemovesNone, NamedIsKept,
       FoundIsKept, Calm, Kept, Daemons
  <2>4. QED
    BY <2>1, <2>2, <2>3 DEF Next
<1>3. QED
  BY <1>1, <1>2, PTL DEF Spec

===============================================================================
