----------------------------- MODULE PlainStreams -----------------------------
(*****************************************************************************)
(* The answers that are passed on without a structure of blocks or items:    *)
(*   - GeminiStreamTranslator of internal/translator/gemini_stream.go, which *)
(*     holds tool calls back until the answer is finished;                   *)
(*   - the pass-through of ChatCompletionsHandler (internal/handler/         *)
(*     handler.go), which hands tool calls on as they come;                  *)
(*   - the whole answer that internal/handler/sse_compat.go makes of a       *)
(*     stream nobody asked for, and NormalizeContent, which takes the        *)
(*     passages out of whole answers (internal/translator/normalize.go).     *)
(* Finish reasons, which the pass-through drops, names and usage are left    *)
(* out; of a tool call its index and how many pieces of arguments it has     *)
(* are kept.  What the characters of an answer decide, and the tokens do not *)
(* say, two constants do: for how many pieces a call's arguments parse, and  *)
(* which closing tags do not match.                                          *)
(*****************************************************************************)
EXTENDS ThinkTags

CONSTANTS
  Parses,    \* the pairs <<i, n>> for which the first n pieces of the arguments
             \* of call i parse as JSON, as something other than null
  OtherKind  \* the places of a whole content at which a closing tag, should one
             \* stand there, is </thinking> where the opening tags are <think>,
             \* or the other way round

\* json.Unmarshal of the arguments of each call: 0 for what does not parse, of
\* which {} is made for a Gemini client, and null for one of the Messages API.
Understood(calls) ==
  [i \in DOMAIN calls |-> IF <<i, calls[i]>> \in Parses THEN calls[i] ELSE 0]

\* A client: what it was told of text, thoughts, and calls by their index.
NoCalls == [i \in {} |-> 0]
NewPlainReader == [text |-> 0, thoughts |-> 0, leaked |-> FALSE, calls |-> NoCalls]

PlainRead(m, p) ==
  IF p.kind = "content"
  THEN [m EXCEPT !.text = @ + CountOf("text", p.tokens),
                 !.leaked = @ \/ ~(ToSet(p.tokens) \subseteq {"text", "open1"})]
  ELSE [m EXCEPT !.thoughts = @ + CountOf("thought", p.tokens),
                 !.leaked = @ \/ ~(ToSet(p.tokens) \subseteq {"thought", "close1"})]

\* An entry for a call, with or without a piece of its arguments.
Extended(calls, tc) ==
  [i \in DOMAIN calls \cup {tc.index} |->
     LET old == IF i \in DOMAIN calls THEN calls[i] ELSE 0
     IN IF i = tc.index /\ tc.piece # <<>> THEN old + 1 ELSE old]

CallRead(m, tc) == [m EXCEPT !.calls = Extended(@, tc)]

(*****************************************************************************)
(* Gemini.  `names` are the calls that have a name, `args` the arguments of  *)
(* those that have any.                                                      *)
(*****************************************************************************)
NewGemini ==
  [normalizer |-> NewStreamNormalizer, names |-> {}, args |-> NoCalls,
   client |-> NewPlainReader]

GeminiTold(g, n) ==
  [g EXCEPT !.normalizer = [n EXCEPT !.out = <<>>],
            !.client = FoldLeft(PlainRead, g.client, n.out)]

NoteCall(g, tc) ==
  [g EXCEPT !.names = IF tc.new THEN @ \cup {tc.index} ELSE @,
            !.args = IF tc.piece # <<>> THEN Extended(@, tc) ELSE @]

\* The branch on FinishReason.
GeminiFinish(g) ==
  LET flushed == GeminiTold(g, NormalizerFlushed(g.normalizer))
      told    == flushed.client.calls
      given   == Understood([i \in g.names |-> IF i \in DOMAIN g.args THEN g.args[i] ELSE 0])
      calls   == [i \in g.names \cup DOMAIN told |->
                    IF i \in g.names THEN given[i] ELSE told[i]]
  IN [flushed EXCEPT !.names = {}, !.args = NoCalls, !.client.calls = calls]

\* ProcessChunk for a chunk with a choice.
GeminiChunk(g, chunk) ==
  LET told   == GeminiTold(g, Normalized(g.normalizer, chunk.content, chunk.reasoning))
      called == FoldLeft(NoteCall, told, chunk.toolCalls)
  IN IF chunk.finish THEN GeminiFinish(called) ELSE called

\* Flush
GeminiFlush(g) == GeminiTold(g, NormalizerFlushed(g.normalizer))

(*****************************************************************************)
(* Chat completions: the loop of ChatCompletionsHandler.                     *)
(*****************************************************************************)
NewChat == [normalizer |-> NewStreamNormalizer, client |-> NewPlainReader]

ChatTold(c, n) ==
  [normalizer |-> [n EXCEPT !.out = <<>>], client |-> FoldLeft(PlainRead, c.client, n.out)]

ChatFlush(c) == ChatTold(c, NormalizerFlushed(c.normalizer))

ChatChunk(c, chunk) ==
  LET told == ChatTold(c, Normalized(c.normalizer, chunk.content, chunk.reasoning))
  IN IF chunk.toolCalls = <<>> THEN told
     ELSE [ChatFlush(told) EXCEPT !.client = FoldLeft(CallRead, @, chunk.toolCalls)]

(*****************************************************************************)
(* Whole answers.                                                            *)
(*****************************************************************************)
NewAnswer == [content |-> <<>>, reasoning |-> <<>>, calls |-> NoCalls]

\* Characters of s and of t, written without a gap: halves of tags meet.
Glued(s, t) ==
  IF s # <<>> /\ t # <<>> /\ Last(s) = "close1" /\ Head(t) = "close2"
  THEN Front(s) \o <<"close">> \o Tail(t)
  ELSE Joined(s, t)

\* parseSSEToOpenAIResponse, the body of its second loop.
Accumulated(a, chunk) ==
  [content   |-> Glued(a.content, chunk.content),
   reasoning |-> a.reasoning \o chunk.reasoning,
   calls     |-> FoldLeft(Extended, a.calls, chunk.toolCalls)]

\* A tag that ends a match of thinkingTagRegex.
EndsMatch(s, i) == s[i] = "close" /\ i \notin OtherKind

\* Seeded fault: a passage lasts until the last closing tag (a greedy match).
EnclosedGreedily(s, i) ==
  /\ \E o \in 1 .. i - 1 : s[o] = "open"
  /\ \E c \in i + 1 .. Len(s) : EndsMatch(s, c)

\* thinkingTagRegex: place i of s is inside a passage, which a tag of the kind
\* of the one that opened it closes.
Enclosed(s, i) ==
  /\ \E o \in 1 .. i - 1 : s[o] = "open" /\ \A j \in o .. i : ~EndsMatch(s, j)
  /\ \E c \in i + 1 .. Len(s) : EndsMatch(s, c)

\* What s has at the given places, in order.
Picked(s, places) ==
  LET pick[i \in 0 .. Len(s)] ==
        IF i = 0 THEN <<>>
        ELSE IF i \in places THEN Append(pick[i - 1], s[i])
        ELSE pick[i - 1]
  IN pick[Len(s)]

\* NormalizeContent: what closed passages hold, tags included, is reasoning,
\* unless the backend sent some; from what is left all tags are removed.
NormalizeContent(content, reasoning) ==
  LET inside  == {i \in DOMAIN content : Enclosed(content, i)}
      outside == {i \in DOMAIN content \ inside : content[i] \notin {"open", "close"}}
  IN [content   |-> Picked(content, outside),
      reasoning |-> IF reasoning # <<>> THEN reasoning ELSE Picked(content, inside)]

\* What a client of the Messages API is told: TranslateResponse, which drops the
\* error of json.Unmarshal.
AnswerRead(a) ==
  LET clean == NormalizeContent(a.content, a.reasoning)
      texts == PlainRead(NewPlainReader, [kind |-> "content", tokens |-> clean.content])
  IN [PlainRead(texts, [kind |-> "reasoning", tokens |-> clean.reasoning])
        EXCEPT !.calls = Understood(a.calls)]

===============================================================================
