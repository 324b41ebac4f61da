--------------------------- MODULE AnthropicStream ---------------------------
(*****************************************************************************)
(* StreamTranslator of internal/translator/stream.go: OpenAI chunks become   *)
(* Anthropic events.  A translator is a record, with the client that is told *)
(* its events one after the other; what the normalizer made of a chunk is    *)
(* given as `pieces`.  Usage, ids and texts of the events are left out,      *)
(* except for the tokens of a delta.                                         *)
(*                                                                           *)
(* MessageRead is the other end, which is not in the repository: a client    *)
(* that follows the Messages streaming protocol, here how far it has got,    *)
(* what it was told, and whether an event made no sense to it.               *)
(*****************************************************************************)
EXTENDS ThinkTags

(*****************************************************************************)
(* The client.  `at` is where it is in the message, `open` the kind of the   *)
(* block that is open, `next` the index a new block must have.               *)
(*****************************************************************************)
NewMessageReader ==
  [at |-> "none", open |-> "", next |-> 0, stops |-> 0, confused |-> FALSE,
   text |-> 0, thoughts |-> 0, calls |-> <<>>, leaked |-> FALSE]

MakesSense(m, e) ==
  CASE e.type = "message_start" -> m.at = "none"
    [] e.type = "block_start"   -> m.at = "open" /\ m.open = "" /\ e.index = m.next
    [] e.type = "block_delta"   -> m.at = "open" /\ m.open = e.block /\ e.index = m.next
    [] e.type = "block_stop"    -> m.at = "open" /\ m.open # "" /\ e.index = m.next
    [] e.type = "message_delta" -> m.at = "open" /\ m.open = ""
    [] e.type = "message_stop"  -> m.at = "ending"

\* Arguments belong to the tool_use block that was opened last.
ToolRead(calls, e) ==
  IF e.block # "tool_use" THEN calls
  ELSE IF e.type = "block_start" THEN Append(calls, 0)
  ELSE IF calls = <<>> THEN calls
  ELSE [calls EXCEPT ![Len(calls)] = @ + 1]

MessageRead(m, e) ==
  [at |-> CASE e.type = "message_start" -> "open"
            [] e.type = "message_delta" -> "ending"
            [] e.type = "message_stop"  -> "stopped"
            [] OTHER -> m.at,
   open |-> CASE e.type = "block_start" -> e.block
              [] e.type = "block_stop"  -> ""
              [] OTHER -> m.open,
   next |-> IF e.type = "block_stop" THEN m.next + 1 ELSE m.next,
   stops |-> IF e.type = "message_stop" THEN m.stops + 1 ELSE m.stops,
   confused |-> m.confused \/ ~MakesSense(m, e),
   text |-> m.text + (IF e.block = "text" THEN CountOf("text", e.tokens) ELSE 0),
   thoughts |-> m.thoughts
                  + (IF e.block = "thinking" THEN CountOf("thought", e.tokens) ELSE 0),
   calls |-> ToolRead(m.calls, e),
   leaked |-> \/ m.leaked
              \/ e.block = "text" /\ ~(ToSet(e.tokens) \subseteq {"text", "open1"})
              \/ e.block = "thinking" /\ ~(ToSet(e.tokens) \subseteq {"thought", "close1"})]

(*****************************************************************************)
(* The translator.                                                           *)
(*****************************************************************************)
NewAnthropic(skipThinking) ==
  [started |-> FALSE, blockOpen |-> FALSE, blockIndex |-> 0, finished |-> FALSE,
   inThinking |-> FALSE, skipThinking |-> skipThinking, client |-> NewMessageReader]

Event(type, index, block, tokens) ==
  [type |-> type, index |-> index, block |-> block, tokens |-> tokens]

Emitted(a, e) == [a EXCEPT !.client = MessageRead(@, e)]
Signal(a, type) == Emitted(a, Event(type, 0, "", <<>>))

\* Seeded fault: the next block gets the same index.
CloseKeepingIndex(a) ==
  [Emitted(a, Event("block_stop", a.blockIndex, "", <<>>)) EXCEPT !.blockOpen = FALSE]

\* closeBlock
CloseBlock(a) ==
  [Emitted(a, Event("block_stop", a.blockIndex, "", <<>>))
     EXCEPT !.blockIndex = @ + 1, !.blockOpen = FALSE]

ClosedIfOpen(a) == IF a.blockOpen THEN CloseBlock(a) ELSE a

OpenBlock(a, block) ==
  [Emitted(a, Event("block_start", a.blockIndex, block, <<>>)) EXCEPT !.blockOpen = TRUE]

Delta(a, block, tokens) == Emitted(a, Event("block_delta", a.blockIndex, block, tokens))

\* handleNormalizedContent
Content(a, tokens) ==
  LET ready == IF a.inThinking THEN [ClosedIfOpen(a) EXCEPT !.inThinking = FALSE] ELSE a
      open  == IF ready.blockOpen THEN ready ELSE OpenBlock(ready, "text")
  IN Delta(open, "text", tokens)

\* handleNormalizedReasoning
Reasoning(a, tokens) ==
  LET open == IF a.inThinking THEN a
              ELSE [OpenBlock(ClosedIfOpen(a), "thinking") EXCEPT !.inThinking = TRUE]
  IN IF a.skipThinking THEN a ELSE Delta(open, "thinking", tokens)

Piece(a, p) == IF p.kind = "content" THEN Content(a, p.tokens) ELSE Reasoning(a, p.tokens)

\* An entry of delta.tool_calls: an id opens a block, and arguments go to the
\* block of the current index, whichever call they belong to.
ToolDelta(a, tc) ==
  LET open == IF tc.new THEN OpenBlock(ClosedIfOpen(a), "tool_use") ELSE a
  IN IF tc.piece # <<>> THEN Delta(open, "tool_use", <<>>) ELSE open

\* The end of the message, from a finish_reason or from Flush.
Finish(a) ==
  [Signal(Signal(ClosedIfOpen(a), "message_delta"), "message_stop") EXCEPT !.finished = TRUE]

\* ProcessChunk for a chunk with a choice.
AnthropicChunk(a, pieces, toolCalls, finish) ==
  LET begun == IF a.started THEN a
               ELSE Signal([a EXCEPT !.started = TRUE], "message_start")
      told  == FoldLeft(ToolDelta, FoldLeft(Piece, begun, pieces), toolCalls)
  IN IF finish /\ ~told.finished THEN Finish(told) ELSE told

\* Seeded fault: the end of the stream ends the message once more.
FlushFinishing(a, pieces) == Finish(FoldLeft(Piece, a, pieces))

\* Flush
AnthropicFlush(a, pieces) ==
  LET told == FoldLeft(Piece, a, pieces)
  IN IF told.finished THEN told ELSE Finish(told)

===============================================================================
