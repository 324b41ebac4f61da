------------------------------- MODULE Streams -------------------------------
(*****************************************************************************)
(* Streamed answers: the scanner loops of streamResponse,                    *)
(* responsesStreamResponse, geminiStreamResponse and ChatCompletionsHandler  *)
(* (internal/handler/handler.go) read the chunks of a backend and feed them  *)
(* to a translator; parseSSEToOpenAIResponse makes one answer of them.  All  *)
(* five are given the same chunks here.  Each has a StreamNormalizer of its  *)
(* own; StreamTranslator and ResponsesStreamTranslator use theirs alike, so  *)
(* that `normalizer` stands for both.                                        *)
(*                                                                           *)
(* The backend is the environment.  It knows which of its tokens are text    *)
(* and which are thoughts, and it may cut its output into chunks anywhere,   *)
(* end it anywhere, and mix reasoning, content and tool calls as it likes.   *)
(* `odd` records what it did that not every backend does; a property that    *)
(* rests on the backend not doing it says so.  What the code does then is    *)
(* told in the README.                                                       *)
(*****************************************************************************)
EXTENDS PlainStreams, AnthropicStream, ResponsesStream

CONSTANTS
  MaxChunks,     \* bound of the model on the chunks of a stream
  MaxPiece,      \* bound of the model on the tokens of a chunk
  MaxTokens,     \* bound of the model on the tokens of a stream
  SkipThinking   \* the values of skip_thinking

ASSUME StreamsAssumption ==
  /\ MaxChunks \in Nat
  /\ MaxPiece \in Nat
  /\ MaxTokens \in Nat
  /\ SkipThinking \subseteq BOOLEAN

VARIABLES
  place,       \* the environment: where in its output the model is
  sent,        \* the environment: what it has sent: text, thoughts, calls with
               \* their pieces of arguments; the reasoning field, passages in tags
  odd,         \* the environment: what was unusual about the stream
  chunks,      \* chunks received
  normalizer,
  anthropic,   \* StreamTranslator, with its client
  responses,   \* ResponsesStreamTranslator, with its client
  gemini,      \* GeminiStreamTranslator, with its client
  chat,        \* the pass-through, with its client
  answer,      \* the whole answer that is being accumulated
  reader,      \* the client of the whole answer
  ended        \* the scanner loop is over and Flush was called

backendVars == <<place, sent, odd, chunks>>
vars == <<backendVars, normalizer, anthropic, responses, gemini, chat, answer,
          reader, ended>>

message == anthropic.client
response == responses.client

\* Where the model may be: in text or in a thought, or after the first half
\* of a tag, or of what looked like one.
ModelPlaces == {"text", "opening", "thought", "closing"}

\* What it may write at a place, and where that takes it.
Moves == {
  <<"text", "text", "text">>, <<"text", "close", "text">>,
  <<"text", "open", "thought">>, <<"text", "open1", "opening">>,
  <<"opening", "open2", "thought">>, <<"opening", "text", "text">>,
  <<"thought", "thought", "thought">>, <<"thought", "close", "text">>,
  <<"thought", "close1", "closing">>,
  <<"closing", "close2", "text">>, <<"closing", "thought", "thought">>}

Write(path, token) ==
  Append(path, IF \E m \in Moves : m[1] = Last(path) /\ m[2] = token
               THEN (CHOOSE m \in Moves : m[1] = Last(path) /\ m[2] = token)[3]
               ELSE "nowhere")

\* The places the model passes when it writes s from p.
Path(p, s) == FoldLeft(Write, <<p>>, s)

\* A chunk has no tag in two halves; tokens are runs, so none comes twice.
OneChunk(s) ==
  \A i \in 1 .. Len(s) - 1 : s[i] \notin {"open1", "close1"} /\ s[i] # s[i + 1]

Pieces ==
  [p \in ModelPlaces |->
     {s \in BoundedSeq(Tokens, MaxPiece) :
        OneChunk(s) /\ "nowhere" \notin ToSet(Path(p, s))}]

NoChunk == [content |-> <<>>, reasoning |-> <<>>, toolCalls |-> <<>>, finish |-> FALSE]

\* How arguments may go on: a function's and a custom tool's free-form ones by
\* the word, a wrapped input until it is complete.
NextPieces(inputs, i) ==
  LET custom == i \in DOMAIN inputs /\ inputs[i].custom
      so_far == IF custom THEN inputs[i].arguments ELSE <<>>
  IN CASE ~custom -> {<<"word">>}
       [] custom /\ so_far = <<>> ->
            {<<"word">>, <<"quote", "word">>, <<"quote", "word", "quote">>}
       [] custom /\ so_far # <<>> /\ so_far[1] = "word" -> {<<"word">>}
       [] custom /\ so_far # <<>> /\ so_far[1] = "quote" ->
            IF Last(so_far) = "quote" THEN {} ELSE {<<"word">>, <<"word", "quote">>}

\* Both translators take the parts of a chunk one after the other, reasoning,
\* content, calls, finish_reason, so that a chunk with several parts does what
\* as many chunks of one part do: a chunk has one here, or none.
Chunks(p, inputs) ==
  {NoChunk, [NoChunk EXCEPT !.reasoning = <<"thought">>], [NoChunk EXCEPT !.finish = TRUE]}
    \cup {[NoChunk EXCEPT !.content = s] : s \in Pieces[p]}
    \cup {[NoChunk EXCEPT !.toolCalls = <<tc>>] :
            tc \in [index : {Len(inputs) + 1}, new : {TRUE}, custom : BOOLEAN,
                    piece : {<<>>}]
                   \cup UNION {[index : {i}, new : {FALSE}, custom : {FALSE},
                                piece : NextPieces(inputs, i)] :
                                  i \in DOMAIN inputs \cup {1}}}

OddNames ==
  {"cutClose",     \* a chunk ended inside a closing tag
   "strayClose",   \* a closing tag closed nothing
   "unclosed",     \* a tool call or the finish came inside a passage
   "late",         \* text or thoughts came after a tool call or the finish
   "noCall",       \* arguments came before any call
   "interleaved",  \* arguments came for a call that was not the last
   "cutInput",     \* a wrapped input came in several pieces
   "mixedTags",    \* a closing tag was not of the kind of the opening tags
   "empty",        \* the stream ended before any chunk
   "openAtEnd"}    \* the stream ended with the first half of a tag

TypeOK ==
  /\ place \in ModelPlaces
  /\ sent.text \in Nat /\ sent.thoughts \in Nat /\ sent.calls \in Seq(Nat)
  /\ sent.field \in BOOLEAN /\ sent.tags \in BOOLEAN
  /\ DOMAIN sent.inputs = DOMAIN sent.calls
  /\ odd \subseteq OddNames
  /\ chunks \in 0 .. MaxChunks
  /\ normalizer.inThinkTag \in BOOLEAN /\ normalizer.hasReasoning \in BOOLEAN
  /\ normalizer.tagBuffer \in Seq(Tokens) /\ normalizer.openTagBuffer \in Seq(Tokens)
  /\ normalizer.tagBuffer # <<>> => normalizer.inThinkTag
  /\ normalizer.openTagBuffer # <<>> =>
       ~normalizer.inThinkTag /\ IncompleteOpenTag(normalizer.openTagBuffer)
  /\ anthropic.blockOpen => anthropic.started
  /\ anthropic.blockIndex \in Nat
  /\ anthropic.skipThinking \in SkipThinking
  /\ responses.outputIndex \in 0 .. 1 /\ responses.contentIndex \in Nat
  /\ Len(responses.toolCalls) <= chunks
  /\ \A i \in DOMAIN responses.toolCalls :
       responses.toolCalls[i].inputEmitted <= Len(responses.toolCalls[i].arguments)
  /\ anthropic.started = responses.started /\ anthropic.finished = responses.finished
  /\ ended \in BOOLEAN

Init ==
  /\ place = "text"
  /\ sent = [text |-> 0, thoughts |-> 0, calls |-> <<>>, inputs |-> <<>>,
             field |-> FALSE, tags |-> FALSE]
  /\ odd = {}
  /\ chunks = 0
  /\ normalizer = NewStreamNormalizer
  /\ \E skip \in SkipThinking : anthropic = NewAnthropic(skip)
  /\ responses = NewResponses
  /\ gemini = NewGemini
  /\ chat = NewChat
  /\ answer = NewAnswer
  /\ reader = NewPlainReader
  /\ ended = FALSE

Called(calls, tc) ==
  IF tc.new THEN Append(calls, 0)
  ELSE IF tc.index \in DOMAIN calls THEN [calls EXCEPT ![tc.index] = @ + 1] ELSE calls

Argument(inputs, tc) ==
  CASE tc.new -> Append(inputs, NewCall(tc.custom))
    [] ~tc.new /\ tc.index \in DOMAIN inputs ->
         [inputs EXCEPT ![tc.index].arguments = @ \o tc.piece]
    [] ~tc.new /\ tc.index \notin DOMAIN inputs -> inputs

Written(chunk, path) ==
  sent' = [text |-> sent.text + CountOf("text", chunk.content),
           thoughts |-> sent.thoughts + CountOf("thought", chunk.content \o chunk.reasoning),
           calls |-> FoldLeft(Called, sent.calls, chunk.toolCalls),
           inputs |-> FoldLeft(Argument, sent.inputs, chunk.toolCalls),
           field |-> sent.field \/ chunk.reasoning # <<>>,
           tags |-> sent.tags \/ "thought" \in ToSet(path)]

OddIf(name, condition) == IF condition THEN {name} ELSE {}

Mixed(content) == \E i \in OtherKind \cap DOMAIN content : content[i] = "close"

Oddities(chunk, path) ==
  LET words == chunk.content \o chunk.reasoning
      calls == chunk.toolCalls
  IN OddIf("cutClose", Last(path) = "closing")
       \cup OddIf("strayClose", \E i \in DOMAIN chunk.content :
                                  path[i] = "text" /\ chunk.content[i] = "close")
       \cup OddIf("unclosed", place # "text" /\ (calls # <<>> \/ chunk.finish))
       \cup OddIf("late", \/ words # <<>> /\ (sent.calls # <<>> \/ anthropic.finished)
                          \/ calls # <<>> /\ anthropic.finished)
       \cup OddIf("noCall", \E i \in DOMAIN calls : ~calls[i].new /\ sent.calls = <<>>)
       \cup OddIf("interleaved", \E i \in DOMAIN calls : calls[i].index < Len(sent.calls))
       \cup OddIf("cutInput", \E i \in DOMAIN calls : calls[i].piece = <<"quote", "word">>)
       \cup OddIf("mixedTags", Mixed(Glued(answer.content, chunk.content)))

(*****************************************************************************)
(* A chunk: one run of the loop's body.  Lines that are not chunks, and      *)
(* chunks without choices, change nothing a client is told here.             *)
(*****************************************************************************)
Receive ==
  /\ ~ended
  /\ chunks < MaxChunks
  /\ chunks' = chunks + 1
  /\ \E chunk \in Chunks(place, sent.inputs) :
       LET path == Path(place, chunk.content)
           n == Normalized(normalizer, chunk.content, chunk.reasoning)
       IN /\ Len(answer.content) + Len(chunk.content) <= MaxTokens
          /\ place' = Last(path)
          /\ Written(chunk, path)
          /\ odd' = odd \cup Oddities(chunk, path)
          /\ normalizer' = [n EXCEPT !.out = <<>>]
          /\ anthropic' = AnthropicChunk(anthropic, n.out, chunk.toolCalls, chunk.finish)
          /\ responses' = ResponsesChunk(responses, n.out, chunk.toolCalls, chunk.finish)
          /\ gemini' = GeminiChunk(gemini, chunk)
          /\ chat' = ChatChunk(chat, chunk)
          /\ answer' = Accumulated(answer, chunk)
  /\ UNCHANGED <<reader, ended>>

(*****************************************************************************)
(* [DONE], the end of the body, or a read error: the translator is flushed.  *)
(*****************************************************************************)
EndStream ==
  LET n == NormalizerFlushed(normalizer)
  IN /\ ~ended
     /\ ended' = TRUE
     /\ odd' = odd \cup OddIf("empty", chunks = 0)
                   \cup OddIf("openAtEnd", place = "opening")
     /\ normalizer' = [n EXCEPT !.out = <<>>]
     /\ anthropic' = AnthropicFlush(anthropic, n.out)
     /\ responses' = ResponsesFlush(responses, n.out)
     /\ gemini' = GeminiFlush(gemini)
     /\ chat' = ChatFlush(chat)
     /\ reader' = AnswerRead(answer)
     /\ answer' = NewAnswer
     /\ UNCHANGED <<place, sent, chunks>>

Next == Receive \/ EndStream

Spec == Init /\ [][Next]_vars

-----------------------------------------------------------------------------

(*****************************************************************************)
(* However the output is cut into chunks, and wherever it ends, a client of  *)
(* any of the four protocols gets all of the text, nothing of a thought or   *)
(* of a tag as text, and no text as a thought: processContentChunk and its   *)
(* buffers.  It rests on closing tags that arrive whole and close something, *)
(* and on a stream that does not end in the middle of a tag; where the       *)
(* normalizer is flushed before the end, as for Gemini at the finish and in  *)
(* the pass-through at tool calls, on passages that are closed by then.      *)
(*****************************************************************************)
TextIntact ==
  odd \cap {"cutClose", "strayClose", "openAtEnd"} = {} =>
    /\ ~message.leaked
    /\ message.text <= sent.text
    /\ ended => message.text = sent.text /\ response.text = sent.text
    /\ "unclosed" \notin odd =>
         \A m \in {gemini.client, chat.client} :
           ~m.leaked /\ (ended => m.text = sent.text)

(*****************************************************************************)
(* Every thought reaches a client that wants thoughts, also when the stream  *)
(* breaks off inside a passage, unless the backend sends reasoning of its    *)
(* own as well.                                                              *)
(*****************************************************************************)
ThoughtsIntact ==
  /\ message.thoughts <= sent.thoughts
  /\ ended /\ ~sent.field /\ "cutClose" \notin odd =>
       /\ ~anthropic.skipThinking => message.thoughts = sent.thoughts
       /\ "unclosed" \notin odd =>
            \A m \in {gemini.client, chat.client} : m.thoughts = sent.thoughts
  /\ anthropic.skipThinking => message.thoughts = 0

\* What a wrapped input says, the words without the quotes, and whether it
\* breaks off inside its wrapping.
Words(said) == [i \in 1 .. CountOf("word", said) |-> "word"]
BreaksOff(said) ==
  said # <<>> /\ Head(said) = "quote" /\ (Len(said) = 1 \/ Last(said) # "quote")

(*****************************************************************************)
(* Every tool call reaches the client of every protocol, whatever is said in *)
(* between and whether the stream breaks off, and with each piece of its     *)
(* arguments; but where the proxy has to parse them, for the client of a     *)
(* whole answer and at the finish for one of Gemini, arguments that do not   *)
(* parse, as of a call that breaks off, arrive as none, and never in part.   *)
(* StreamTranslator and ResponsesStreamTranslator rest on the calls coming   *)
(* one after the other.  The client of a custom tool is told its input in    *)
(* the end, and what it was sent of it in pieces adds up to just that,       *)
(* whether the backend wraps it or not - unless it comes wrapped in several  *)
(* pieces: then the deltas contain the wrapping (responses_stream.go:226).   *)
(*****************************************************************************)
CallsIntact ==
  "noCall" \notin odd =>
    /\ chat.client.calls = sent.calls
    /\ ended => reader.calls = Understood(sent.calls)
    /\ anthropic.finished /\ ~ended /\ "late" \notin odd =>
         gemini.client.calls = Understood(sent.calls)
    /\ "interleaved" \notin odd =>
         /\ message.calls = sent.calls
         /\ DOMAIN response.calls = DOMAIN sent.inputs
         /\ \A i \in DOMAIN sent.inputs :
              LET said == sent.inputs[i].arguments
                  meant == IF BreaksOff(said) THEN said ELSE Words(said)
              IN /\ "cutInput" \notin odd => response.calls[i].heard = meant
                 /\ ended /\ "late" \notin odd => response.calls[i].final = meant

(*****************************************************************************)
(* A stream that answers a request for a whole answer gives that answer: all *)
(* text and all thoughts, apart, however it was cut, if it does not end      *)
(* inside a passage.  So both requests get the same answer from the regular  *)
(* expressions of the one path and the state machine of the other - where    *)
(* the tags match in kind: any closing tag ends a passage of a stream, but   *)
(* the regular expressions take <think> ... </thinking> for none.            *)
(*****************************************************************************)
WholeAnswerExact ==
  ended /\ place \in {"text", "opening"} /\ "mixedTags" \notin odd =>
    /\ ~reader.leaked
    /\ reader.text = sent.text
    /\ ~sent.field => reader.thoughts = sent.thoughts

(*****************************************************************************)
(* A client of the Messages API can follow the stream: one message, its      *)
(* blocks opened and closed one at a time with indexes from 0 up, deltas     *)
(* of the kind of the block that is open, nothing after message_stop; and    *)
(* this whatever the order of reasoning, passages and text, of calls, and    *)
(* wherever the stream breaks off.                                           *)
(*****************************************************************************)
MessageFollows ==
  odd \cap {"cutClose", "unclosed", "late", "noCall", "empty"} = {} => ~message.confused

(*****************************************************************************)
(* A client of the Responses API can follow a stream without reasoning:      *)
(* every output item is added once, under an index of its own, before        *)
(* anything else is said of it, is done before response.completed, and is    *)
(* listed there in its place.                                                *)
(*****************************************************************************)
ResponseFollows ==
  odd \cap {"late", "empty"} = {} /\ ~sent.field /\ ~sent.tags => ~response.confused

(*****************************************************************************)
(* A client is told exactly once that the answer is over, by the time the    *)
(* stream is, whatever the backend sent.                                     *)
(*****************************************************************************)
EndsOnce ==
  /\ message.stops <= 1 /\ response.ends <= 1
  /\ ended => message.stops = 1 /\ response.ends = 1

===============================================================================
