------------------------------- MODULE Dialogues -------------------------------
(*****************************************************************************)
(* A client of one of the four request APIs talks with a Chat Completions    *)
(* backend through the translators: it asks, is answered in its own API's    *)
(* terms, returns the results of the calls in the answer, and asks again,    *)
(* each time sending its history back (internal/translator), or, in a        *)
(* "chain", only what is new with previous_response_id (handler.go:399-408). *)
(* What a backend reads in the messages of a request is compared with what   *)
(* was said.                                                                 *)
(*                                                                           *)
(* The client is legal: it sends an answer back unchanged, returns one       *)
(* result for each call and puts text only after results.                    *)
(*****************************************************************************)
EXTENDS AnthropicMessages, ResponsesItems, GeminiContents

CONSTANTS
  Apis,         \* of "anthropic", "responses", "chain", "gemini"
  ToolSets,     \* what a client of the Responses API may declare: a record of
                \*   the sequences `top` and `embedded` of tools
  PlainTools,   \* what a client of another API declares
  Forms,        \* how a backend may write arguments: "none", "plain", "wrapped",
                \*   "twice", or "broken", as what does not parse
  MaxParts,     \* bound: parts of the system prompt and the first question
  MaxCalls,     \* bound: calls of an answer
  MaxRequests   \* bound: requests of a dialogue

ASSUME DialoguesAssumption ==
  /\ Apis \subseteq {"anthropic", "responses", "chain", "gemini"}
  /\ Forms \subseteq {"none", "plain", "wrapped", "twice", "broken"}
  /\ {MaxParts, MaxCalls, MaxRequests} \subseteq Nat

VARIABLES
  api, tools,
  streamed,   \* whether the client has its answers streamed
  form,       \* how the backend writes arguments
  system,     \* the Anthropic system prompt, resent with every request
  sent,       \* what the client sends: its history, in a chain what is new
  output,     \* chain: the stored output of the previous response
  pending,    \* the calls the client has to return results for
  turn,       \* whose turn it is, "client" or "backend"
  requests,   \* how many requests went out
  said,       \* history: what was said, unit by unit
  since,      \* history: how much of it was said before the last answer
  odd         \* history: what happened that a translation does not carry

vars == <<api, tools, streamed, form, system, sent, output, pending, turn,
          requests, said, since, odd>>

UpTo(n, S) == UNION {[1 .. k -> S] : k \in 0 .. n}

Numbered(kinds) == [i \in DOMAIN kinds |-> Part(kinds[i], Len(said) + i)]

InResponses == api \in {"responses", "chain"}

Offered == OfferedTools(tools.top, tools.embedded)
Customs == CustomTools(tools.top, tools.embedded, sent)

Note(label, happened) == IF happened THEN {label} ELSE {}

(*****************************************************************************)
(* The messages a backend gets.                                              *)
(*****************************************************************************)
Chat ==
  CASE api = "anthropic" -> TranslateRequest(system, sent)
    [] api = "responses" -> TranslateResponsesRequest(<<>>, sent)
    [] api = "chain"     ->
         TranslateResponsesRequest(StoredResponseToMessages(output), sent)
    [] api = "gemini"    -> TranslateGeminiRequest(sent)

(*****************************************************************************)
(* The client.                                                               *)
(*****************************************************************************)
Init ==
  /\ api \in Apis
  /\ tools \in IF InResponses THEN ToolSets ELSE {PlainTools}
  /\ streamed \in IF InResponses THEN BOOLEAN ELSE {FALSE}
  /\ form \in IF InResponses THEN Forms ELSE Forms \ {"wrapped", "twice"}
  /\ \E kinds \in IF api = "anthropic" THEN UpTo(MaxParts, {"text", "cached"})
                  ELSE {<<>>} :
       /\ system = [i \in DOMAIN kinds |-> Part(kinds[i], i)]
       /\ odd = Note("late_cache", \E i \in 2 .. Len(kinds) :
                                     kinds[i] = "cached" /\ kinds[1] = "text")
  /\ sent = <<>> /\ output = <<>> /\ pending = <<>> /\ said = <<>>
  /\ turn = "client" /\ requests = 0 /\ since = 0

PartKinds ==
  IF api = "anthropic" THEN {"text", "cached", "image", "file"}
  ELSE {"text", "image"}

UserItem(parts) ==
  CASE api = "anthropic" ->
         [role |-> "user", blocks |->
            [i \in DOMAIN parts |-> Block("part", parts[i])]]
    [] InResponses -> MessageItem("user", parts)
    [] api = "gemini" ->
         [role |-> "user", parts |->
            [i \in DOMAIN parts |->
               IF parts[i].kind = "text" THEN TextPart(parts[i])
               ELSE RichPart(parts[i])]]

Send(items) ==
  /\ sent' = sent \o items
  /\ turn' = "backend"
  /\ requests' = requests + 1

\* Text after something richer replaces it; an image or a file after a string
\* panics (request.go:171-175, 192, 209).
Mixed(kinds) ==
  \E i, j \in DOMAIN kinds :
    /\ i < j
    /\ \/ kinds[j] = "text" /\ kinds[i] # "text"
       \/ kinds[j] \in {"image", "file"} /\ kinds[j - 1] = "text"

Ask(kinds) ==
  LET parts == Numbered(kinds)
  IN /\ turn = "client" /\ pending = <<>>
     /\ Send(<<UserItem(parts)>>)
     /\ said' = said \o Parts("user", parts)
     /\ odd' = odd \cup Note("mixed", Mixed(kinds))
     /\ UNCHANGED <<api, tools, streamed, form, system, output, pending, since>>

\* The results of the pending calls, in the order given, and a text or none.
ReturnResults(order, texts) ==
  LET results == [i \in DOMAIN order |-> [id |-> pending[order[i]].id,
                                          name |-> pending[order[i]].name,
                                          n |-> Len(said) + i]]
      parts == [i \in DOMAIN texts |-> Part("text", Len(said) + Len(order) + 1)]
      items ==
        CASE api = "anthropic" ->
               <<[role |-> "user", blocks |->
                    [i \in DOMAIN order |-> ToolResult(results[i].id, results[i].n)]
                    \o UserItem(parts).blocks]>>
          [] InResponses ->
               [i \in DOMAIN order |-> OutputItem(results[i].id, results[i].n)]
               \o [i \in DOMAIN parts |-> UserItem(parts)]
          [] api = "gemini" ->
               <<[role |-> "user", parts |->
                    [i \in DOMAIN order |->
                       FunctionResponse(results[i].name, results[i].n)]
                    \o UserItem(parts).parts]>>
  IN /\ turn = "client" /\ pending # <<>>
     /\ Send(items)
     /\ said' = said
          \o [i \in DOMAIN order |-> SaidResult(results[i].id, results[i].n)]
          \o Parts("user", parts)
     /\ odd' = odd \cup Note("reordered", \E i \in DOMAIN order : order[i] # i)
                   \cup Note("text_with_results", texts # <<>>)
     /\ pending' = <<>>
     /\ UNCHANGED <<api, tools, streamed, form, system, output, since>>

(*****************************************************************************)
(* The backend's answer, translated for the client.                          *)
(*****************************************************************************)
\* Arguments in the forms that extractCustomToolInput and json.Unmarshal tell
\* apart.
ArgsOf(n) ==
  CASE form = "none" -> NoArgs
    [] form = "plain" -> Args(n, 0)
    [] form = "wrapped" -> Args(n, 1)
    [] form = "twice" -> Args(n, 2)
    [] form = "broken" -> BrokenArgs(n)

\* An answer: text and thought, each there or not, and calls of offered tools.
Answers ==
  {Reply([i \in 1 .. t |-> Part("text", Len(said) + 1)],
         [i \in 1 .. h |-> Part("thought", 0)],
         [i \in DOMAIN names |->
            Call(<<Len(said) + t + i>>, names[i], ArgsOf(Len(said) + t + i))]) :
     t \in 0 .. 1, h \in 0 .. 1,
     names \in UpTo(MaxCalls, {Offered[i].name : i \in DOMAIN Offered})}

Items(reply) ==
  CASE api = "anthropic" -> <<TranslateResponse(reply)>>
    [] InResponses /\ streamed  -> BuildOutput(reply, Customs)
    [] InResponses /\ ~streamed -> TranslateResponsesResponse(reply, Customs)
    [] api = "gemini" -> <<TranslateGeminiResponse(reply)>>

\* A message that panics is dropped with its connection (net/http recovers).
Panics == \E i \in DOMAIN Chat : Chat[i].content = Panicked

\* Answers of the Anthropic and Gemini APIs are whole ones here, their streams
\* are the subject of Streams.  A dialogue ends with a request.
Answer ==
  /\ turn = "backend" /\ requests < MaxRequests /\ ~Panics
  /\ \E reply \in Answers :
       LET items == Items(reply)
           calling == reply.calls # <<>>
           talking == reply.texts # <<>>
           thinking == reply.thoughts # <<>>
       IN /\ calling \/ talking \/ thinking
          /\ IF api = "chain" THEN output' = items /\ sent' = <<>>
             ELSE output' = output /\ sent' = sent \o items
          /\ pending' = reply.calls
          /\ since' = Len(said)
          /\ said' = said \o Parts("assistant", reply.texts) \o Calls(reply.calls)
          /\ odd' = odd
               \cup Note("calls_and_text", calling /\ talking)
               \cup Note("calls_and_thought", calling /\ thinking)
               \cup Note("json_calls_and_text",
                         calling /\ (talking \/ thinking) /\ ~streamed)
               \cup Note("thought", thinking)
               \cup Note("json_thought_alone", thinking /\ ~talking /\ ~streamed)
               \cup Note("parallel", Len(reply.calls) > 1)
               \cup Note("broken_arguments", calling /\ form = "broken")
  /\ turn' = "client"
  /\ UNCHANGED <<api, tools, streamed, form, system, requests>>

Next ==
  \/ \E kinds \in UpTo(IF said = <<>> THEN Max({1, MaxParts - Len(system)}) ELSE 1,
                     PartKinds) \ {<<>>} :
       Ask(kinds)
  \/ \E order \in Permutations(DOMAIN pending), texts \in UpTo(1, {"text"}) :
       ReturnResults(order, texts)
  \/ Answer

Spec == Init /\ [][Next]_vars

-------------------------------------------------------------------------------
(*****************************************************************************)
(* Properties.                                                               *)
(*****************************************************************************)
Never(labels) == odd \cap labels = {}
Going == turn = "backend"

\* A unit without what differs between the APIs: a call by its name and what
\* it is called with, a result by how far back the call it belongs to is - the
\* last one before it under its id - or 0.
Resolved(units) ==
  LET custom == CustomTools(tools.top, tools.embedded, <<>>)
      meaning(name, args) == IF name \in custom THEN Extracted(args) ELSE args
      before(i) == {j \in 1 .. i - 1 :
                      units[j][2] = "call" /\ units[j][3] = units[i][3]}
  IN [i \in DOMAIN units |->
        CASE units[i][2] = "call" ->
               <<"call", units[i][4], meaning(units[i][4], units[i][5])>>
          [] units[i][2] = "result" ->
               <<"result", IF before(i) = {} THEN 0 ELSE i - Max(before(i)), units[i][4]>>
          [] OTHER -> units[i]]

Heard == Resolved(Read(Chat))
Meant(first) == Resolved(SubSeq(said, first, Len(said)))

\* The type of the state; the input of a custom call has been unwrapped.
TypeOK ==
  /\ api \in Apis /\ turn \in {"client", "backend"}
  /\ requests \in 0 .. MaxRequests /\ since \in 0 .. Len(said)
  /\ Len(pending) <= MaxCalls
  /\ InResponses => \A i \in DOMAIN sent : sent[i].custom => sent[i].call.args.wraps <= 1

\* Anthropic: what the backend reads, turn after turn, is the system prompt and
\* all that was said, in order, thoughts left out (translateSystem,
\* translateMessages, TranslateResponse).  Unless a text came after something
\* richer or an image after a text, the system prompt was cached from a later
\* block on only, text followed results, which it then overtakes, or the
\* arguments of a call did not parse and the client got null for them.
AnthropicFaithful ==
  Going /\ api = "anthropic"
  /\ Never({"mixed", "late_cache", "text_with_results", "broken_arguments"})
  => Heard = Parts("system", system) \o Meant(1)

\* Responses API: the same, for a client that sends its history, and arguments
\* that do not parse are kept as well.  For a chain: what the backend reads ends
\* with the last answer and what is new, complete and in order; of the turns
\* before, which docs/RESPONSES_API.md:93 promises and which are not stored
\* (handler.go:399-408), it says nothing.  Calls of custom tools, whose input is
\* unwrapped, stored and wrapped again, come back to mean the same
\* (responses.go:109-187, 556-692, responses_stream.go:488).  Unless a reply
\* that was not streamed had calls and text, or thoughts and no text.
ResponsesFaithful ==
  Going /\ InResponses /\ Never({"json_calls_and_text", "json_thought_alone"})
  => IF api = "chain" THEN IsSuffix(Meant(since + 1), Heard) ELSE Heard = Meant(1)

\* Gemini: the same, and each result reaches the call it belongs to although
\* the API has no ids and the proxy makes them up on each side from the name
\* and the position (gemini_request.go:105, 121).  Unless text or a thought
\* came with calls, results came reordered or with text, there were thoughts, or
\* the arguments of a call did not parse and the client got {} for them.
GeminiFaithful ==
  Going /\ api = "gemini"
  /\ Never({"calls_and_text", "thought", "reordered", "text_with_results",
            "broken_arguments"})
  => Heard = Meant(1)

\* Every message with calls is followed by the results of just these calls, as
\* Chat Completions backends demand, under each API: parallel calls that come
\* back as items of their own are one message again (mergeAssistantToolCalls).
\* Unless what the translation puts between or leaves apart has happened.
ResultsInPlace ==
  LET clean ==
        CASE api = "anthropic" -> Never({"text_with_results"})
          [] api = "responses" -> Never({"json_calls_and_text"})
          [] api = "chain"     -> Never({"json_calls_and_text", "parallel"})
          [] api = "gemini"    -> Never({"calls_and_text", "calls_and_thought",
                                         "reordered", "text_with_results"})
  IN Going /\ clean => InPlace(Chat)

\* A tool is called in the kind it was offered in: the set of custom names and
\* the removal of duplicate tools, which know nothing of each other, agree for
\* tools declared anywhere, as long as no name has two kinds
\* (responses.go:50-69, 579).
KindsKept ==
  LET declared == ToSet(tools.top \o tools.embedded)
      items == ToSet(sent \o output)
  IN InResponses /\ (\A t, u \in declared : t.name = u.name => t.kind = u.kind) =>
       \A t \in ToSet(Offered), it \in items :
         it.type = "call" /\ it.call.name = t.name => (it.custom <=> t.kind = "custom")

\* What README.md:26 says, "Image & file content blocks - translate base64/url
\* file blocks across API formats": those of a client reach the backend.
ImagesReachBackend ==
  Going => \A i \in DOMAIN said :
    said[i][2] \in {"image", "file"} => Contains(Read(Chat), said[i])

===============================================================================
