# A verification project for anthropic-proxy

anthropic-proxy is a Go server that speaks the Anthropic Messages, OpenAI Chat
Completions, OpenAI Responses and Gemini protocols to its clients and OpenAI
Chat Completions to one or several backends. This directory holds TLA+ models
of the parts in which something can go wrong that a unit test would hardly
reach, the TLC runs that check them on small instances, and theorems that
TLAPS proves for every instance. `PROJECT.json` relates every definition to
the lines it models and lists the runs, the mutants that show each property can
fail, the hazards and the findings.

Paths below are relative to `src/`.

    tlc -workers 2 -config calls_core.cfg MCRoutedCalls.tla
    tlapm CallsProofs.tla

## 1. The system

### Components, their state and their operations

| Component | Code | State | Operations |
|---|---|---|---|
| Circuit breaker | `internal/reliability/circuit.go` | `state`, `failures`, `openedAt`, `probeActive` under a mutex | `Allow`, `RecordSuccess`, `RecordFailure`, `Snapshot` |
| Executor | `internal/reliability/retry.go` | none of its own; attempts of one call | `Do` with back-off |
| Streaming call and failover loops | `internal/handler/reliability.go`, `internal/handler/backend.go` | loop index and last error of one request | `doStreamingCall`, `doBackendTargets`, `doStreamingBackendTargets` |
| Health monitor | `internal/reliability/health.go` | snapshot; a ticker goroutine | `Check`, `Snapshot` |
| Router | `internal/backend/router.go` | one counter for all models, active counts | `NewRouter`, `Candidates` with its three strategies |
| Memory store | `internal/store/store.go` | map of entries, cleanup goroutine | `Store`, `Get`, `cleanup`, `Close` |
| File store | `internal/store/file.go` | the same map, `compactN`, a JSON-lines file, a temp file | `NewFile`/`load`, `Store`, `Get`, `cleanup`, `compactLocked`, `Close` |
| Responses turns | `internal/handler/handler.go`, `internal/translator/responses.go` | process-wide id counter `idSeq`; the store | `ResponsesHandler`, `responsesNonStreamResponse`, `responsesStreamResponse` |
| Rate limiter | `internal/reliability/ratelimit.go`, `internal/handler/ratelimit.go` | bucket per client under a mutex, cleanup goroutine | `Allow`, `Cleanup`, the middleware |
| Stream normalizer | `internal/translator/normalize.go` | `inThinkTag`, `tagBuffer`, `openTagBuffer`, `hasReasoning` | `ProcessChunk`, `Flush` |
| Anthropic stream | `internal/translator/stream.go` | block index, open block, thinking, finished | `ProcessChunk`, `Flush` |
| Responses stream | `internal/translator/responses_stream.go` | output index, calls, text, reasoning, finished | `ProcessChunk`, `Flush`, `BuildResponse` |
| Gemini stream | `internal/translator/gemini_stream.go` | a normalizer, names and arguments of calls held back | `ProcessChunk`, `Flush` |
| Chat pass-through | `internal/handler/handler.go` | a normalizer | the loop of `ChatCompletionsHandler` |
| Whole answers | `internal/handler/sse_compat.go`, `internal/translator/normalize.go` | what has been accumulated | `parseSSEToOpenAIResponse`, `NormalizeContent` |
| Request and response translation | `internal/translator/request.go`, `response.go`, `gemini_request.go`, `gemini_response.go`, `responses.go` | none; what the client sends back and the stored output are its memory | `TranslateRequest`, `TranslateResponse` and their kin |
| Direct forwarding | `internal/handler/forward.go` | none | a `modelTargets` call, or a copy to the default backend |
| Metrics and request ids | `internal/handler/observability.go` | counters under a mutex | middleware |
| Daemon | `cmd/anthropic-proxy/main.go`, `internal/daemon/` | PID file, the processes | start, stop, restart, status |
| Configuration, TLS, authentication, validation | `internal/config`, `internal/tls`, `internal/handler/auth.go`, `validation.go` | read once, or none | |

### How they interact

A request is a goroutine of `net/http`. It passes the middleware (rate limit,
authentication, metrics), is translated, asks the router for its candidates
and enters a failover loop. The loop calls the executor (JSON) or the
streaming call; each asks the one breaker that `handler.New` creates
(`handler.go:61`) for permission, calls the backend, and reports the result to
the same breaker. So does the health monitor, which never asks. The answer is
translated back as a whole, or chunk by chunk through a stream translator and
its normalizer. The Responses handler reads the store before the call and
writes it after the answer. Everything shared sits behind a mutex or an
atomic; what is hard happens *between* those critical sections.

### What is hard about it

- A call is out for up to five minutes; the breaker it reports to may by then
  have opened, probed and closed, on other requests' and the monitor's account.
- Every exit of two call paths must report exactly once, or a half-open circuit
  waits for ever.
- The failover loops tell four kinds of failed targets from a good one.
- The file store is a log with compaction; the process dies at any system call
  (there is no signal handler), and I/O errors of `Store` are dropped.
- A conversation's next turn may arrive before, after, or long after its
  predecessor is stored, evicted, expired, or the proxy restarted.
- The limiter and its cleanup read the clock before they take the lock.
- Stream translators are state machines fed by a backend that cuts its
  output anywhere and may stop anywhere.
- One counter turns the router's lists of all models, and is cut to an `int`.
- A dialogue goes through the translators again and again: what an answer was
  made into must come back, turn after turn, as what it had been.
- Daemons and commands share a PID file without a lock and do not wait for one
  another.

`PROJECT.json` "hazards" lists these one by one, at the line where each bites,
with the properties that would catch it, or the reason why none does.

### What makes each component correct

- *Breaker and calls*: fields agree; a half-open circuit has exactly one probe
  and that one will report; each admission is reported exactly once; a client
  sees a failed target only when no other is left; requests are replied to;
  the circuit recovers with the backend.
- *Stores*: a response is found until it is expired or the oldest of a full
  store; a restart of the file store brings back what was found before,
  whatever system call the process died in; failed I/O never loses an
  acknowledged record.
- *Turns*: a follow-up carries its own predecessor's output, or is refused for
  a documented reason; only answers are stored, under their own id.
- *Limiter*: no more and no less is let through than rate, burst and the
  dropping of idle buckets allow.
- *Router*: each list offers every enabled backend that serves the model, once;
  turns are shared by weight.
- *Dialogues*: a backend reads what was said, in order; each result stands
  behind its call; a tool is called in the kind it was offered in.
- *Daemon*: the daemon that serves is the one the PID file names, and a stop
  ends it; a start serves whatever earlier daemons left behind.
- *Streams*: text, thoughts and tool calls arrive whole and apart; the events
  form a message the client's protocol allows; it ends once; a whole answer is
  the one the stream would have given.

## 2. Modules

| Module | Models |
|---|---|
| `CircuitBreaker` | `circuit.go`: variables and the three methods, each one step since each holds the mutex throughout |
| `BackendCalls` | extends it with requests (`pc`, target index, attempt), both call paths, both failover loops, the health monitor, and backends that break and recover; any candidate lists |
| `Router` | `router.go`: the lists of the three strategies as operators of the counter |
| `RoutedCalls` | composes the two: requests for models, the shared counter, lists from the router |
| `MCBackendCalls`, `MCRoutedCalls` | instances for TLC |
| `CallsProofs` | the theorems about them |
| `BoundedStore` | the abstract store: what a user of `Store`/`Get` may rely on |
| `StoreEntries` | the entry map both stores share: insert, evict, expire, find |
| `MemoryStore` | `store.go` on that map |
| `FileStore`, `MCFileStore`, `FileStoreProofs` | `file.go`: one action per system call, with crashes and failures; its instance and theorems |
| `Conversations`, `ConversationsProofs` | the turns of `ResponsesHandler` on a memory or file store, instantiating `MemoryStore`; their theorems |
| `RateLimiter`, `MCRateLimiter`, `RateLimiterProofs` | the token buckets, their instance, and the theorems |
| `ThinkTags` | `StreamNormalizer` as operators on a record |
| `AnthropicStream` | `StreamTranslator`, and a client that follows the Messages protocol |
| `ResponsesStream` | `ResponsesStreamTranslator`, and a client that follows the Responses protocol |
| `PlainStreams` | `GeminiStreamTranslator`, the pass-through of chat completions, the whole answer made of a stream and `NormalizeContent`, and their clients |
| `Streams`, `MCStreams`, `StreamsProofs`, `ItemsProofs` | composes these: a backend as environment, the scanner loops of `handler.go`; its instance and the theorems |
| `ChatMessages` | Chat Completions messages, and what a backend reads in them |
| `AnthropicMessages` | `request.go`, `response.go` |
| `ResponsesItems` | `responses.go`, and the output of a streamed response |
| `GeminiContents` | `gemini_request.go`, `gemini_response.go` |
| `Dialogues`, `MCDialogues` | composes these: a client, a backend and the translator between them, over several requests; its instance |
| `Daemon`, `MCDaemon`, `DaemonProofs` | commands, processes and the PID file; their instance and theorems |
| `SetInduction` | induction for the proofs, stated over sets: no code |

Operators named "Seeded fault" are variants of the definition below them, as a
plausible bug would make it. Nothing uses them; `PROJECT.json` "mutants" says
which property each is to break.

### Calls, router and the code

`pc` is where the goroutine is: `ready` before `Allow`, `inflight` between
sending and the answer, `backoff` in the sleep of `retry.go`, `done` when the
loop returned. `Accept` is the handler up to the loop; `Admit` and `Refuse` the
two answers of `Allow`; `Answer` the backend's answer, which is `Retry` or
`Conclude` (record, then the loop's `continue` or `return`, `Advance`);
`Resume` the next attempt, which does *not* ask `Allow` again; `Reply` frees the
slot. `HandlerStep` is any of these, `EnvironmentStep` time, the monitor and the
backends. Answers are classes: `ok`, `fail500` (an error the executor does not
retry), `busy` (429, 502, 503, 504), `error` (transport), `poisoned` (a stream
whose first bytes match an error pattern). `CountsAsFailure` keeps the two
paths as different as they are: 500 is a failure on a stream and a *success*
on the executor's path (`retry.go:64`).

`openedAt` is kept as ticks since the circuit opened, saturating at the
cooldown, and `failures` saturates at the threshold; neither is compared with
anything beyond.

`BackendCalls` takes its lists from a parameter, `Orders`. `RoutedCalls` puts the
router's in their place: `RoutedArrive` is `modelTargets`, which reads and moves
the counter in one atomic step; everything else is a step of `BackendCalls`. Its
lists are all among `Orders` (`EveryListComplete`), so `RoutedCalls` implements
`BackendCalls`, and what is proved of the one holds for the other
(`RoutedRefinesCalls`). `asked`, `called` and `turnedAway` are histories: the model
a request asked for, the targets that answered or failed it, and those the
breaker kept it from. A request for a model no
enabled backend serves is answered 502 and has no step. The counter is kept to
the bits an `int` of the build has (`MaxInt`): where `int` has 32 of them, its
upper half is negative, and `Panics` says when `Candidates` then slices below
zero. `net/http` recovers and the request leaves no trace but the moved counter
(`PanickingArrive`).

### The stores, turns and the code

`FileStore` keeps memory (`entries`, `compactN`) and disk (`file`, `tmp`,
`torn`) apart. `BeginStore` is `Store` up to its first system call, `WriteTmp`,
`Rename`, `Copy` are `compactLocked`, `AppendRecord` and `SyncRecord`
`appendLocked`, `Start` is `NewFile` with `load`. `phase` is the system call
the holder of the mutex makes next; `Crash` may fall between any two. `Faults`
says which calls may fail in a run, `faulted` which have.
A line is a record or `Garbage`; `torn` says that the last one has no newline.

`Conversations` keeps the store as one map for both backends: `FileStore`'s
`DurableView` is what allows a restart to keep the map for "file" and to empty
it for "memory". The turn's position is `phase`; `Begin` covers the handler up
to the backend call (lookup, 404, id), and storing and telling the client are two
actions in the order in which each of the two handlers does them.

### The streams and the code

A chunk is a sequence of tokens: a run of `text` or `thought` characters, a
tag, or half of one where a chunk boundary cuts it. `Parse` is the loop of
`processContentChunk`, a recursive function whose runs are numbered; the
translators are records that have their client with them, which reads each event
as it is written. The backend is the environment: `place` is where in its output it is,
`sent` what it has sent and `odd` what it did that not every backend does;
each property names the oddities it does not hold under, and section 7 says what
the code then does. Every consumer handles the parts of a chunk one after the
other, so a chunk has one part here. The
arguments of a call are words; those of a custom tool may come wrapped, `{"input":
"..."}`, and `Unsent` is what `extractCustomToolInput` finds beyond what the client
has. All five consumers are given the same
chunks, as if five clients had asked for the same answer; they do not interact.
`NormalizeContent` works with regular expressions and `StreamNormalizer` with a
state machine; `WholeAnswerExact` together with `TextIntact` says that the two
agree where tags match in kind.

Two things are decided by characters that the tokens do not have, and are
constants. `Parses` says for how many pieces the arguments of a call parse: where
the proxy unmarshals them, `Understood` leaves a call none of its arguments if
they do not (`{}` for Gemini, `gemini_stream.go:60-64`; `null` in a whole
Messages answer, `response.go:50-52`). `OtherKind` says at which places of a
whole content a closing tag is of another kind than the opening tags
(`</thinking>` after `<think>`): the state machine takes any closing tag, the
regular expression only one of the same kind (`EndsMatch`). All opening tags of
an answer are taken to be of one kind. The whole answer read is that of the
Messages API; the one of the Responses API is a matter of `Dialogues`.

### Dialogues, the translators and the code

Each translator is an operator from what its API sends to the messages a
backend gets (`TranslateRequest`, `TranslateResponsesRequest`,
`TranslateGeminiRequest`), and one from a backend's reply to what the client
gets. `Dialogues` closes the loop: `Ask` and `ReturnResults` are the client's
requests, `Answer` the backend's reply, turned into blocks, items or contents
that the client sends back with its next request - or, in a "chain", that the
proxy stored and puts in front of it. `said` records what was said, unit by unit
(a part, a call, a result), and the properties compare it with what the backend
reads, `Read(Chat)`. Ids are compared by what they refer to (`Resolved`), since
Gemini has none and the proxy makes them up. Arguments carry how often they are
wrapped as `{"input": ...}`, which is what happens to the free-form input of a
custom tool on its way, and whether they parse: a whole Messages or Gemini answer
has nothing of those that do not (`Unmarshaled`), while the Responses API passes
the string on. Those that parse are taken to be written again as the same value; an
integer beyond 2^53 is not, since it goes through a `float64`. Empty arguments,
`{}` and `null` are all "none". Answers come as whole ones, on the Responses API
streamed as well. The client is a legal one: it sends answers back
unchanged, returns one result per call, and puts text behind results. `odd` notes
what a translation does not carry; as with streams, each property names what
it does not hold under.

### Daemon and the code

`life` is how far a process has come in `runServer`: `born`, PID file
`truncated` and `written` (`os.WriteFile` is two system calls), store `opened`,
`serving`; then `dead` (SIGTERM, which no handler catches), `crashed`, or
`refused` (the port was taken). `pc` is where the command in a terminal is:
`read` the PID file, `signal`, `remove` the file, `fork`. A restart goes on to
`fork` whatever became of its stop (`main.go:70`). A signalled process ends some
time later, and no command waits for it. The PID of a process that ended may
go to another program (`Reuse`, "foreign"). Writing the PID file may fail at either
system call, which the daemon logs before it goes on to serve
(`FailToWritePIDFile`, `daemon.go:59-62`, `main.go:132`), and so may removing it,
which is not looked at (`stop.go:57`). `FailStart` is a start that makes no child.
`mishaps` notes what the commands do not provide for: two commands at a time
(`race`), a start while a daemon runs (`second`), a start while a signalled one
still ends (`hasty`), a PID used again (`reuse`), a PID file that was not written
(`unwritten`) or not removed (`unremoved`). `Calm` is none of these but `hasty`. A
PID written in part and a file that cannot be read are left out.

## 3. Runs

| Run | Question | Bounds |
|---|---|---|
| `calls_core` | Is there one probe, does each admitted call report once, has every serving backend failed or been refused by the breaker before a client sees a failure, do the lists lose nobody, are turns shared by weight? `OneProbe ReportedOnce CallsInv ExhaustsCandidates ListsComplete LastResort SharesFair` | 2 requests, 3 declared backends of which one is disabled, weights, 2 models, threshold 2, cooldown 2, 2 attempts, `MaxInt` 3 |
| `calls_recovery` | Is every request replied to, and does the circuit close for good? `RequestsComplete CircuitRecovers` | 2 requests, 2 backends round robin, limit 2, threshold 2, cooldown 1, 2 attempts, `MaxInt` 1; bad answers are 500 and busy |
| `failover_outage` | *violated:* a working backup serves while the primary is down, `FailoverKeepsServing` | 2 requests, backup that never breaks |
| `file_store` | With crashes and every I/O failure: is the file the map and does the store implement `BoundedStore` as long as nothing failed; does what was acknowledged survive, and is the map bounded and never behind the file, even then? `TypeOK DurableView SyncedSurvive MapSound ImplementsStore` | 3 ids, 2 responses, 2 entries, 4 ticks, TTL 2, 4 lines |
| `file_torn_write` | *violated:* a partial record costs no other, `AllSurvive` | 2 ids, 4 ticks |
| `turns_core` | Do turns carry the right context, is a refusal justified, are only answers stored? `TurnsInv OwnContext StoredAnswers RefusedWithReason ServesStore` | 4 turns, 2 at a time, 2 entries, 3 ticks, 1 restart, both stores |
| `turns_id_reuse` | *violated:* the same across restarts on the file store, `OwnContextAlways` | 3 turns, 1 restart |
| `rate_limit` | Does each decision agree with an ideal bucket up to the wait, also where the cleanup hands tokens back early? `Inv GrantsConform RejectsConform` | 1 client, 3 calls, burst 2, wait 1, idle age 3 (an empty bucket fills in 4), 10 ticks |
| `streams` | Are text, thoughts and calls intact on every path, can clients follow, does the stream end once? `TypeOK TextIntact ThoughtsIntact CallsIntact WholeAnswerExact MessageFollows ResponseFollows EndsOnce` | 4 chunks of up to 3 tokens, 7 tokens in all, both values of `skip_thinking`; the first call's arguments parse after two pieces, the second's after one; a closing tag in fourth place is of the other kind |
| `requests` | Does a backend read what was said, over a whole dialogue, under each API; do results stand behind their calls, are tools called in their kind? `TypeOK AnthropicFaithful ResponsesFaithful GeminiFaithful ResultsInPlace KindsKept` | 3 requests, system prompt and question of 2 parts together, answers with text, thought and up to 2 calls, arguments absent, plain, wrapped twice or not to be parsed, 3 tool declarations |
| `requests_images` | *violated:* a client's images and files reach the backend, `ImagesReachBackend` | 2 parts |
| `daemon` | Is the daemon to stay the one the file names, does a stop end it, and does a start serve? `Inv StopReaches StartServes` | 2 PIDs, 2 terminals |

Why the bounds are enough for the cases that matter:

- *Calls.* Two requests are a probe and a late answer from before the opening,
  or a probe and one that is refused; the monitor is a third reporter. Threshold
  2 tells the first failure from the one that opens; two attempts give a back-off
  and a last attempt. The three backends differ in weight, priority, models and
  being enabled, and come in another order than their priorities; the second model
  is served by one of them only. With `MaxInt` 3 the counter wraps within a run, and
  a wheel of three turns does not divide it, so `Candidates` panics. With `MaxInt` 1
  and two backends it wraps without a panic, so that liveness is checked across
  the wrap; of a broken backend's answers one that the breaker counts as success on one
  path and one that is retried and handed on are enough there.
- *File store.* Two entries with three ids make a full map, an eviction, an
  overwrite in a full map and, after two evictions, a compaction. The clock goes
  past the TTL so that records expire in the file as well as in the map.
- *Turns.* Four turns with two entries: a chain, an eviction of a predecessor
  between two of its follow-ups, and the reuse of an id after the restart.
- *Limiter.* Buckets of different clients share nothing but the sweep, which
  treats them one by one, so one client is enough; three calls allow two to
  overtake a third. The clock reaches past `Idle`, so buckets are dropped, and
  `Idle` is less than a bucket takes to fill, so that they are dropped early.
- *Streams.* Four chunks hold a passage cut in the middle with text before and
  after it, a split opening tag, and two calls with arguments in either order;
  seven tokens are two whole passages with text between them. A call, two pieces of
  its input and the finish are four chunks as well. A call that breaks off after
  one piece does not parse, one that gets its second does; a passage that is
  closed in fourth place has tags that do not match, any other has.
- *Dialogues.* Three requests are a question, the results of its answer's calls
  and what follows the answer to those: a call is unwrapped, comes back, and the
  one after it as well. Two calls can be answered in either order and can be of
  one tool or of two. The declarations put custom tools at the top level,
  embedded in the input, under the name of a function, and beside a kind that is
  skipped.
- *Daemon.* Two processes and two terminals: a daemon and its successor, one
  command that overtakes another, and a PID that is used again.

`CHECK_DEADLOCK FALSE` is set where the model ends by itself: at the last turn
(`turns_core`, `turns_id_reuse`), at `MaxClock` when it waits for time
(`rate_limit`), at the end of a stream (`streams`), after the last request of a
dialogue or one that panics (`requests`, `requests_images`), and when no PID is
left for a command that wants to start (`daemon`).
Symmetry is used in safety runs only.

### Fairness

`failover_outage` uses `BusySpec`, `calls_recovery` `RoutedBusySpec`.
`HandlerFairness`: goroutines are scheduled; a call that is out is answered, as
`http.Client` has a timeout of five minutes (`handler.go`); the back-off sleep
ends; time passes; the monitor's ticker fires and its checks have a timeout. It
is weak fairness for each request's own steps and each check. That requests keep
arriving is no property of the code but an assumption about clients: the breaker
sends no probe of its own, so an open circuit without traffic and without health
checks stays open. `RequestsComplete` does not depend on it. Nothing is assumed
of backends: breaking and repairing are not fair.

`daemon` uses `FairSpec`: a process that can go on does, commands and daemons
alike, which is what scheduling gives. That a signalled daemon
ends is the kernel's doing, since no handler is installed. No command is required
to be typed, and no crash to happen.

## 4. What is proved

All theorems hold for every value of the constants that the named assumptions
allow, and are safety properties.

`CallsProofs`, about `BackendCalls`, from `BreakerAssumption` and `CallsAssumption`:

- `TypeCorrect`: `Spec => []TypeOK`
- `BreakerConsistency`: `Spec => []BreakerConsistent`
- `CallsInvariant`: `Spec => []CallsInv`
- `SingleProbe`: `Spec => []OneProbe`
- `ReportExactlyOnce`: `Spec => []ReportedOnce`
- `ExhaustsAllCandidates`: `Spec => []ExhaustsCandidates`

The first five follow from one inductive invariant, `CallsInv`. None of its parts is
inductive alone: that a half-open circuit has one probe needs that half-open
and `probeActive` coincide (`BreakerConsistent`), or `Allow` might grant a
second; that the probe is still in its call needs that it has an attempt left
when it backs off; and consistency needs that a disabled breaker is closed.
The proof first shows what each operation of the breaker does to its fields,
then goes through the actions of `Next`. The interesting step is a report that
arrives on a half-open circuit, from a call admitted earlier or from the
monitor: it leaves half-open in either direction, so `probes` becomes empty
together with it.

The last has an invariant of its own, `LoopInv`: that a failed target is final
only as the last one needs that a loop never runs past its candidates
(`WithinCandidates`). One lemma, `AdvanceStep`, covers the loop's decision; every
action that ends an attempt goes through it.

`CallsProofs`, about `RoutedCalls`, from these and `RouterAssumption`, `RoutedAssumption`:

- `EveryListComplete`: `AllListsComplete`
- `NextListsComplete`: `RoutedSpec => []ListsComplete`
- `TurnsShared`: `RoutedSpec => []SharesFair`
- `RoutedRefinesCalls`: `RoutedSpec => Spec`
- `NobodyLeftOut`: `RoutedSpec => []LastResort`

The router comes first, as a function of the constants. Priorities and first
occurrences both are a finite set put in an order (`InOrder`), and any such
order has an enumeration: an element stands behind as many as are before it
(`InOrderExists`). The expanded list has as many copies of a backend as its weight
says, by induction over the list (`ExpandedCopies`). Turning a list moves its
elements and loses none (`RotatedElements`). So a list has what serves the model,
each once (`CandidatesElements`). Who leads is where the counter points on the
wheel; L numbers in a row leave every remainder once, so the leads of a backend
and its copies are equally many (`RoundShares`). `RoutingInv` says that the counter
is in its range and a request at work holds a list the router made for the model
it asked for. `LastResort` adds what became of the targets on that list: `MetInv`
says that those in front of the loop's index have each either failed a call or
been barred by the breaker, never both, and which of the two the last one was;
with `LoopInv`, carried over by the refinement, the index is at the end of the
list when the client sees a failure. `RoutedAssumption` says that `Orders`, for which `BackendCalls` was
proved, has every list that names a backend at most once.

`FileStoreProofs`, from `StoreAssumption` and `FileAssumption`:

- `StructHolds`, `TypesHold`, `MapIsSound`: `Spec => []StructInv`, `[]TypeOK`, `[]MapSound`
- `FileIsAhead`, `RestartChangesNothing`: `Spec => []DurableInv`, `[]DurableView`
- `AcknowledgedSurvive`: `Spec => []SyncedSurvive`
- `FileServesStore`: `Spec => ImplementsStore`

Three invariants, one on top of the other. `StructInv` holds whatever fails: the
records of the file are in the order they were stored, the map is not behind any
of them, no two entries have one time, and the temp file is the compacted map
until it replaces the log. `DurableView` itself is not inductive: it says nothing
while an operation is under way. `DurableInv` says that the file with the record
that is being stored appended (`Ahead`) is read back to the map; it holds
between any two system calls, since `Store` inserts first and appends last. The
steps rest on what `load` computes, which is proved by induction over the lines:
reading a file later gives what waiting leaves of the map (`LoadedLater`), reading
what compaction writes gives the map (`LoadedCompacted`), and inserting commutes
with dropping what has expired although the insertion may evict
(`InsertedUnexpired`). After a failed append the file lacks a record, and from
then on eviction may differ between the map and a map that is read back.
`SurviveInv` says how far: whatever the read map evicts has been evicted from
the other before (`Covers`), so that a record that was appended and is still found
is in both (`Keeps`).

`ConversationsProofs`, from `ConversationsAssumption`:

- `TurnsHangTogether`: `Spec => []TurnsInv`
- `ContextIsOwn`: `Spec => []OwnContext`
- `OnlyAnswersStored`: `Spec => []StoredAnswers`
- `StoreServes`: `Spec => ServesStore`
- `StoredUntilGone`: `Spec => []DatesInv`
- `RefusalHasReason`: `Spec => RefusedWithReason`

`OwnContext` is not inductive: that the output found under an id is the
predecessor's needs that no other turn of this process has that id and none is
above the counter (`OwnIds`; turns that have not begun have no id,
`CounterBehind`), that an entry lies under its own turn's id (`OwnEntry`), and that a memory store
holds nothing of an earlier process (`MemoryOfProcess`). `TurnsInv` is their
conjunction. For `StoreServes`, lemmas say what eviction, expiry and
insertion leave of the map and what of it is visible; each step of the store
is then a `Put` or an expiry of `BoundedStore`, and every other step leaves what
is visible alone. For `RefusedWithReason`, `DatesInv` relates the store to the
history of what was stored when: a turn has a time from its storing on
(`StoredOnce`), its entry has that time and no other entry does (`EntriesDated`),
and what was stored is found until it is gone for one of the reasons
(`FoundOrGone`). The step that needs it is an
eviction: the entry that goes is the oldest of a full store, so that at least
`MaxEntries` newer ones have been stored.

`DaemonProofs`, from `DaemonAssumption`:

- `DaemonInvariant`: `Spec => []Inv`

While `Calm` holds, at most one daemon is to stay and the file names it once it
is past writing it (`OneKept`, `NamedOnceWritten`); to keep that, a
command that is about to remove the file has left no such daemon
(`RemovesNone`); what it read is the daemon to stay or one that ended
(`FoundIsKept`); and the file names a signalled daemon only while its stop is
about to remove it (`NamedIsKept`). What holds whatever fails is that a PID found
in the file or in the hands of a stop is of a process past writing it
(`WroteIt`). That a stop then ends the daemon, `StopReaches`, is liveness and left
to TLC.

`StreamsProofs` and, for the last six, `ItemsProofs`, from `StreamsAssumption`:

- `StreamsHangTogether`: `Spec => []StreamsInv`
- `TypesHold`: `Spec => []TypeOK`
- `OneEnd`: `Spec => []EndsOnce`
- `MessageCanBeFollowed`: `Spec => []MessageFollows`
- `NothingIsLost`: `Spec => []StreamsTold`
- `TextArrives`: `Spec => []TextIntact`
- `ThoughtsArrive`: `Spec => []ThoughtsIntact`
- `ItemsAreTracked`: `Spec => []BareInv`
- `ResponseCanBeFollowed`: `Spec => []ResponseFollows`
- `CallsAreTracked`: `Spec => []CallsTold`
- `CallsArrive`: `Spec => []CallsIntact`
- `AnswersAreWhole`: `Spec => []AnswerTold`
- `WholeAnswersArrive`: `Spec => []WholeAnswerExact`

They hold for chunks of any number and length (`MaxChunks`, `MaxPiece`,
`MaxTokens` are any numbers), while the run has four chunks. `StreamsInv` has
four parts. `Typed` says among the rest that the normalizer's two buffers are not
used where they should not be (`Buffered`), and `Ends` that each client was told
of the end once the translator has `finished`, and not before. `MessageFollows`
is not inductive: whether an event
confuses the client depends on the block the client has open, which is that of
the translator (`InStep`), and on the order in which reasoning, text, calls and
end may come. `Follows` says that the translator has not begun (`Fresh`), is in
the middle of text or thoughts (`Speaking`) or of calls (`Calling`). At calls and at
the end the normalizer must have nothing to say any more, which rests on
`Placed`: wherever the chunks were cut, `inThinkTag` and what is
held back are what the place of the backend's model says (`Settled`). That is shown
for one pass of the loop of `processContentChunk` after the other: what remains
to be parsed leads the model from the place the normalizer is at to where the
model is after the chunk (`Going`, `PassKeeps`), and the loop ends since each pass
shortens what remains (`ParseKeeps`). A fold over pieces, calls or tokens keeps
what each of its steps keeps, which is stated once for functions
(`FoldExists`), for the provers cannot instantiate it for operators.

`TextIntact` and `ThoughtsIntact` compare what the backend said with what each
client was told, most of it once the stream has ended. Before the end the two
differ by what is held back, and `StreamsTold`, which rests on `StreamsInv`, says
by how much. `TextTold`: what the Messages client has of text and the text in
`openTagBuffer` (a word after half a tag can still be text) add up to what was
sent, and the Responses client has as much as it. `ThoughtsTold`: the thoughts told
and those `Held` in the two buffers add up to those sent; they are at most as
many when the backend sends reasoning of its own as well, because
`emitReasoning` then drops passages, or when a closing tag is cut. `Together`: until a
passage is flushed early the Gemini client and that of the pass-through have
normalizers in the same state and have been told the same. `AtEnd`: nothing is held
back when the stream is over. Each part is stated for the streams without the
oddities it needs to exclude, as the properties are, so it must be shown that
these oddities are all there are.
The argument has three layers. `Heard` is what a plain reader has from a list of
pieces, and counts of tokens are additive over concatenation. Of the six things a
pass of the loop can do (`Gathers`, `Leaves`, `Drops`, `Speaks`, `Enters`, `Visits`) each is
`Balanced`: what was told plus what is kept plus what remains is the same
afterwards, and nothing of a thought or tag is told as text if the model moves as
the tokens say. So a chunk (`NormalizedTells`) and the end (`FlushedTells`) tell or keep
all of it. Last, each translation tells its client what the pieces say
(`AnthropicChunkTells`, `ResponsesChunkTells`, `GeminiChunkTells`, `ChatChunkTells`).

`ResponseFollows` is about an answer without reasoning, and so is its invariant
`BareInv`, which rests on `StreamsInv` too. `BareTold`: while no tag opened a
passage, and no reasoning came of itself, the normalizer is outside of passages,
holds back no opening tag and tells text only (`Untagged`, `NormalizedUntagged`), and the
backend's model is in text or behind half a tag (`BareContent`). `BareFollows`: until
the finish the client knows of exactly the items the translator has begun, all of
them open, each under its place in the answer (`Tracks`, `Listed`): the message
first, if there is one, then the calls. That the message may still take the first
index rests on there being no call when text comes, which is what leaving out `late`
gives, because there is none in the translator before the backend's first. The
lemmas say of each event how it moves what the client knows (`SaysAdded`,
`SaysSteady`, `SaysDone`); the finish closes the items in their order, by induction over the
calls (`CallsClosed`), and `buildOutput` lists them under these very indexes
(`BuildOutputIs`, `CompletedRead`).

`CallsIntact` compares the calls with those that were sent, for the Gemini client
once they are complete. `CallsTold` adds what is on its way. `CallsCollected`: until the finish
`names` and `args` of the Gemini translator are the indexes of the calls and how
many pieces those have that have any (`Noted`), and then they are empty and the
client has the calls, each with what is `Understood` of its arguments. `CallsHeeded`: for each call the Responses translator keeps
exactly the arguments that were sent, which are words or, for a custom tool,
words in a wrapping that may be open at its end (`Shaped`); the client heard the
input these arguments mean so far, of which `inputEmitted` is the length, and after the
finish it was told it as a whole (`CallHas`). So a piece can be told by what it
adds to the input (`PieceHeard`), by cases on how a wrapped input may go on
(`NextOf`). What is sent in a wrapping that breaks off would have to be taken
back, which is why this part is only about inputs that come in one piece, or
word by word (`cutInput`). At the end `InputMeant` says that what
`extractCustomToolInput` takes out are the words. The translations that only
count need that an entry is for the next call or brings a piece for one there is
(`Fits`), and those of blocks and items that it is for the last, which the oddities `noCall`
and `interleaved` give (`EntryEnters`, `CountedCalled`, `ExtendedCalled`).

`WholeAnswerExact` compares what the client of a whole answer is told at the end
with what the model said in chunks. `AnswerTold` says of the answer put together
so far that it has all of the text and thoughts that were sent, and
that reading it takes the model from text to where it is, by steps in which no
tag comes in two halves (`WholeSteps`). That this is kept is `GluedLeads`: only the
first token of a chunk can be the second half of a tag, then the first half is the
last token there is (`WholeFront`), and `Glued` makes one tag of the two. At the
end it gives what the regular expression finds: a place is in a passage of
the model just where an opening tag stands before it with no closing tag
between (`InsideWhole`), and if the answer does not end in a passage, a closing tag
follows (`ClosedWhole`), which ends the match unless the stream is odd by
`mixedTags`; so `Enclosed` holds of what was thought and not of what was
said (`EnclosedIs`), and `PickedIs` says that what is taken from these places
has every text and every thought, and no tag.

`RateLimiterProofs`, from `LimiterAssumption` and `GainAssumption`:

- `BucketsTrackIdeals`: `Spec => []Inv`
- `GrantsWithinRate`: `Spec => GrantsConform`
- `RejectsOnlyWhenEmpty`: `Spec => RejectsConform`

`level` and `budget` are history variables, buckets an ideal limiter would keep:
they see each request at the instant it is decided and are never dropped. `level`
fills at the configured rate; a call is turned away only if it has no token.
`budget` fills at `Gain`, and a call is let through only if that has one. Where a
bucket fills within the idle age, `Gain` is 1, the rate itself, and the two are
one. Where it does not - a burst above about five times `requests_per_minute`,
which `NewRateLimiter` accepts - `Cleanup` drops buckets that are still paying and
so hands tokens back early, and what is let through is bounded by a bucket that
fills once per idle age. `GainAssumption` defines `Gain` by that and restricts no
rate and no burst: such a `Gain` exists for each, if no call waits for the lock
for longer than the idle age (`GainExists`).
`BucketTracksIdeals` bounds the real bucket by the two. Its last conjunct says
that a budget which is not full belongs to a bucket that was touched, and is as
much as `Gain` brought since, so that it is full when `Sweep` drops the bucket.
`MaxWait` bounds how long a call waits for the mutex; results are exact for
`MaxWait = 0`.

Induction is stated over sets (`SetInduction`): the induction theorems of the
library take the property as an operator parameter, which the provers cannot
instantiate, but a set of the numbers or sequences that have the property they
can. A recursive function is shown to exist by induction over the range it is
defined on. Therefore the log is read by a recursive function over its lines,
and the router puts sets in order by `InOrder`: what `SortSeq` and `SelectSeq`
compute is opaque to the provers. A fold of the library is one more recursive
function, over sets of places, to be shown to exist.

### What is only model-checked

- Liveness (`RequestsComplete`, `CircuitRecovers`, `StopReaches`, `StartServes`), which is out of
  the prover's reach.
- `Dialogues`, whose translators fold and filter sequences of messages.

## 5. Disagreements between code and documents, shown by a run

- **`failover_outage`.** `docs/ARCHITECTURE.md:72` says "Circuit breaker per
  backend"; there is one for all (`handler.go:61`). With the primary down, the
  probe a half-open circuit grants goes to the primary, its failure reopens the
  circuit, and the loop's next `Allow` refuses the working backup: a lasting
  outage.
- **`file_torn_write`.** An append does not look whether the file ends in a
  newline (`file.go:221`): after a partial record the next one, appended
  without error, is on the same unreadable line.
- **`turns_id_reuse`.** Ids start at `resp_1` with every process
  (`responses.go:724`); on a file store a new turn overwrites a stored response,
  and the follow-up of the old turn is given the new one's output.
- **`requests_images`.** A user message of a text and then an image: the text has
  made the content a string, the image asserts that it is a list and
  `translateMessages` panics (`request.go:192`; a file at `209`), so nothing is
  sent. `README.md:26` says "Image & file content blocks - translate base64/url
  file blocks across API formats". (The other order loses the image without a
  panic: a plain text block replaces the list, `request.go:171-175`.)

## 6. Conditions under which the properties hold

They are stated in the properties, and tell what the code does not promise:

- `OwnContext` leaves out follow-ups across a restart and streamed predecessors on
  the file store; both because of the reused ids. A streamed turn that the
  restart caught between its completion and its storing has an id that the next
  process gives to another turn.
- `RefusedWithReason` allows a 404 for a turn whose stream is complete for the
  client but not stored yet: `responsesStreamResponse` stores after it has emitted
  `response.completed` (`handler.go:541`), where `docs/TROUBLESHOOTING.md:36`
  names only expiry, eviction and restarts.
- `DurableView` and `ImplementsStore` speak of the time until a system call
  fails; `SyncedSurvive` leaves out torn writes (see above) and the copy fallback.
- `ExhaustsCandidates` asks for `failover_enabled`, `LastResort` also for no
  `failover_max_backends`; `SharesFair` for a round in which the counter does
  not wrap.
- `TextIntact`, `MessageFollows`, `ResponseFollows` and the properties of dialogues
  name what they exclude; section 7 says what happens then.
- `LastResort` speaks of targets that failed *or were refused by the breaker*: a
  refused one is not contacted, whether it works or not (`failover_outage`).
- `CallsIntact` gives a Gemini client and that of a whole answer the arguments of a
  call only if they parse, as those of a call that breaks off do not;
  `AnthropicFaithful` and `GeminiFaithful` leave such dialogues out.
- `ResponsesFaithful` says of a chain that what the backend reads *ends with* the
  last answer and what is new, not that this is all it should read; section 7.
- `WholeAnswerExact` leaves out tags that do not match in kind.
- The last part of `Inv` of `Daemon` and `StopReaches` exclude two commands at a
  time, a start while a daemon runs, a PID that is used again and a PID file that
  was not written or removed; `StartServes` starts while another daemon runs or
  still ends.

## 7. Observed while modelling, without a run

Breaker, calls and router
- `RecordSuccess` closes the circuit from any state (`circuit.go:76`), so an answer
  to a call admitted before the opening closes an open circuit without cooldown
  or probe, where `docs/archives/PERSISTENCE_RELIABILITY_PHASE4_PLAN.md:359-365`
  lets it leave only to half-open and after the cooldown.
- An executor call answered with 500 is a success for the breaker
  (`retry.go:64`); lines 371-376 of the same document count 5xx as failures.
- A failing health check on an open circuit sets `openedAt` again
  (`circuit.go`, `RecordFailure`): with an interval shorter than the cooldown
  the circuit is not probed by requests until a check succeeds.
- The monitor polls the first backend of the configuration (`handler.go:57`), also
  if it is disabled.
- `least_connections` never sees a connection: `IncActive` and `DecActive` are
  called by tests only, so all requests go by priority;
  `docs/archives/MULTI_BACKEND_SETUP_ID.md:376` says the backend with the fewest
  active connections is chosen.
- One counter serves all models (`router.go:141`): requests that alternate
  between two models can keep either of them on one backend, where the same
  document (lines 224, 374) has them take turns.
- Where `int` has 32 bits (the Makefile builds 386 and arm), requests panic from
  the 2^31st on unless the wheel divides the offset (`router.go:174`).
- `forward.go` sends everything but a JSON body that names a model, and
  everything if only one backend is configured, to the default backend past
  breaker, retry and failover.

Stores
- When `Rename` fails, the file is truncated and rewritten from the temp file; a
  crash or a failing copy in between loses data, since `load` removes the temp
  file (`file.go:118-121`, `file.go:260`).
- A response of more than 1 MB is appended, and from then on `load` fails and
  with it the start (`file.go:134`). `Oversized` models it; no run uses it.
- `compactN` starts at 0 with every process, so that a proxy that restarts
  often does not compact on eviction.

Turns
- A broken-off stream is flushed, completed and stored as a complete response.
- A chain carries only the output of the previous turn (`handler.go:399-408`,
  `responses.go:652`), not even the question that output answered, and nothing of
  earlier turns. `README.md:32` promises conversation continuity,
  `docs/RESPONSES_API.md:93` says "stores conversation messages", and the example
  at `README.md:445-462` has the second turn of "My name is Alex" / "What is my
  name?" answered with "Your name is Alex.", which the backend is never told. The
  divergence is plain from the code and has no run of its own.

Limiter
- With a burst above about five times `requests_per_minute`, `Cleanup` gives a
  client that pays for a burst the next one early; see `Gain` in section 4.

Streams, per oddity
- `cutClose`: inside a passage a closing tag is sought in the new chunk only
  (`normalize.go:226`): when it is cut in two, the rest of the answer reaches the
  client as reasoning (`docs/ARCHITECTURE.md:82`: "Stateful stream parsers handle
  tags split across SSE chunks").
- `strayClose`: a closing tag outside a passage takes the text before it in
  its chunk with it.
- `openAtEnd`: what looks like the start of a tag at the end of the last chunk
  stays in `openTagBuffer`, which `Flush` does not read.
- `unclosed`: a passage is open when `finish_reason` arrives; `Flush` emits its
  thoughts after `message_stop`.
- `late`: text after a tool call goes into the open `tool_use` block, reasoning
  after a call into no new block, since `inThinking` is not reset
  (`stream.go:155`); anything after the finish comes after `message_stop`.
- `cutInput`: the input of a custom tool comes wrapped in several chunks. As long as
  the wrapping is incomplete it does not parse, so it is sent as it is, and what
  the input turns out to be is cut at the length that was sent
  (`responses_stream.go:226-242`): the deltas are not the input. Its
  `input.done` event is right.
- `noCall`: argument deltas before any call are sent for a block that was never
  started.
- `empty`: a stream without chunks ends with `message_delta` and `message_stop`
  but has no `message_start`.
- Reasoning on the Responses API adds the message item without setting `hasText`:
  text adds it again, it is never done, and a tool call takes its index.
- `interleaved`: argument deltas go to the call opened last, also if they carry
  another's index (`stream.go:103`, `responses_stream.go:223`). Gemini, the
  pass-through and whole answers go by the index.
- Gemini: calls are held back until the finish (`gemini_stream.go:56`); when the
  stream breaks off without one they are lost, and those that come after it are
  never sent. Several calls are sent in the random order of a Go map.
- The pass-through takes content and calls out of each chunk and drops the
  rest of it (`handler.go:707`), `finish_reason` included: a client never
  receives one. It flushes the normalizer at a tool call, so that a passage
  that goes on after the call is delivered as text; Gemini does at the finish.
- The pass-through copies all response headers, `Content-Length` included, and
  then writes a body of another length (`handler.go:619`).
- `mixedTags`: `<think>...</thinking>` is a passage for a stream
  (`normalize.go:225`, `274`; `README.md:477` says mismatched tags are handled), but not for
  the regular expression of whole answers (`normalize.go:11`), which only removes
  the two tags and leaves the thoughts as text, or takes all up to the next
  closing tag of the right kind for a passage.
- Arguments that do not parse, such as those of a call that breaks off, are `{}` for
  a Gemini client (`gemini_stream.go:61-64`) and `null` in a whole Messages answer
  (`response.go:51-52`): the tool is called without arguments, and nothing tells the
  client. The other streams pass the pieces on as they came.
- Whole answers: a passage that is never closed loses its opening tag only, and
  its thoughts become text (`normalize.go:86`); the streaming paths deliver them
  as thoughts.
- The usage chunk that `include_usage` asks for comes after `finish_reason`, when
  the end has been sent (`stream.go:55`, `responses_stream.go:73`, whose comments say
  "store usage, defer finalization to Flush()"): the client is not told of it.

Dialogues, per label of `odd`
- `mixed`: see `requests_images`.
- `broken_arguments`: arguments that do not parse come back to the backend as `null`
  or `{}`, as a call it never made (`response.go:52`, `gemini_response.go:76-81`).
- `late_cache`: a system prompt with a cached block that is not its first starts
  at that block; the texts before it are dropped.
- `text_with_results`: Anthropic text behind tool results is sent before them,
  between the calls and their results.
- `json_calls_and_text`: a whole Responses answer lists its calls before its text,
  a streamed one the text first.
- `json_thought_alone`: thoughts without text become the text of a whole
  Responses answer.
- `parallel`: in a chain, parallel calls of the stored answer are not merged: each
  is a message of its own, with the results behind the last.
- `calls_and_text`, `calls_and_thought`, `thought`, `reordered`: a Gemini call is
  named after its position among the parts, its result after its own; text or
  a thought before the call, or another order of results, tells them apart. A
  thought comes back as text.
- A function and a custom tool of one name: the tool declared first is offered,
  but its calls are treated as custom (`responses.go:50`, `579`).

Daemon
- A second `start` overwrites the PID file, opens the same store file, fails to
  bind and ends; the file then names a process that is gone, and `stop` does not
  reach the daemon that serves.
- A PID file that cannot be written is only logged (`daemon.go:59-62`): the daemon
  serves unnamed, or the file goes on naming an earlier one, and neither `stop` nor
  `restart` reaches it. One that cannot be removed is not even logged.
- `stop` removes the file without waiting; `restart` may start while the old
  process holds the port, and the new one ends.
- Of two commands at once, one may remove the file of the daemon the other
  started.
- If the PID has been used again, `stop` ends a process of another program.
- In the foreground no PID file is written, so `stop` and `status` know nothing of
  it.
- On Windows `Daemonize` writes the PID file and then blocks for ever without
  serving (`daemon_windows.go`).

## 8. Not modelled, and why

- Within the translators: sampling parameters, tool choice, declarations of tools
  beyond name and kind, response formats, stop reasons, usage numbers. They are
  copied field by field, and nothing later depends on them.
- Wire types, validation, authentication, health endpoints: stateless.
- Embeddings: a conversion of one list of strings.
- Configuration, TLS certificates: done once, no interleaving.
- Metrics: counters under one mutex that nothing reads but the metrics page.
- The copying path of `forward.go`: touches no state.
- `status`, foreground mode and Windows.
- Field dropping and `mergeModelsResponses`.

## 9. Plan

Done, in this order: breaker and calls with their proofs; stores; turns;
limiter with its proofs; streams; router and its composition with the calls;
proofs of turns and memory store; dialogues; daemon with its proofs; proofs of the
file store, of refusals, of the router and of the streams.

Next:
1. The order of arrival of the usage chunk and the finish, with usage numbers as
   part of the streams.
2. Proofs: `Dialogues`, beginning with `TypeOK`.
