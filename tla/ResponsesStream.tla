--------------------------- MODULE ResponsesStream ---------------------------
(*****************************************************************************)
(* ResponsesStreamTranslator of internal/translator/responses_stream.go:     *)
(* OpenAI chunks become Responses API events.  It is driven as               *)
(* AnthropicStream is, and has its client with it.  An output item is known  *)
(* by the number of its tool call, the message by 0.                         *)
(*                                                                           *)
(* Arguments are words; a backend may wrap those of a custom tool into       *)
(* {"input": "..."}, whose two ends are a quote each.                        *)
(*                                                                           *)
(* ResponseRead is a client that follows the Responses streaming protocol.   *)
(*****************************************************************************)
EXTENDS ThinkTags, FiniteSets

TheMessage == 0

(*****************************************************************************)
(* The client: `items` are the output items it knows of, each with the       *)
(* index it was added under; of the input of a call it has what deltas add   *)
(* up to and what it was told in the end.                                    *)
(*****************************************************************************)
NewResponseReader ==
  [at |-> "none", items |-> {}, ends |-> 0, confused |-> FALSE, text |-> 0,
   calls |-> <<>>]

OpenItem(m, e) == [index |-> e.index, item |-> e.item, open |-> TRUE]

RMakesSense(m, e) ==
  CASE e.type = "created" -> m.at = "none"
    [] e.type = "item_added" ->
         /\ m.at = "open"
         /\ \A i \in m.items : i.index # e.index /\ i.item # e.item
    [] e.type = "completed" ->
         /\ m.at = "open"
         /\ \A i \in m.items : ~i.open
         /\ Cardinality(m.items) = Len(e.output)
         /\ \A i \in m.items : i.index < Len(e.output) /\ e.output[i.index + 1] = i.item
    [] OTHER -> m.at = "open" /\ OpenItem(m, e) \in m.items

ItemRead(calls, e) ==
  CASE e.type = "item_added" /\ e.item # TheMessage ->
         Append(calls, [heard |-> <<>>, final |-> <<>>])
    [] e.type = "args_delta" -> [calls EXCEPT ![e.item].heard = @ \o e.tokens]
    [] e.type = "args_done"  -> [calls EXCEPT ![e.item].final = e.tokens]
    [] OTHER -> calls

ResponseRead(m, e) ==
  [at |-> CASE e.type = "created"   -> "open"
            [] e.type = "completed" -> "completed"
            [] OTHER -> m.at,
   items |-> CASE e.type = "item_added" -> m.items \cup {OpenItem(m, e)}
               [] e.type = "item_done"  ->
                    (m.items \ {OpenItem(m, e)}) \cup {[OpenItem(m, e) EXCEPT !.open = FALSE]}
               [] OTHER -> m.items,
   ends |-> IF e.type = "completed" THEN m.ends + 1 ELSE m.ends,
   confused |-> m.confused \/ ~RMakesSense(m, e),
   calls |-> ItemRead(m.calls, e),
   text |-> m.text
     + (IF e.type = "text_delta" THEN CountOf("text", e.tokens) ELSE 0)]

(*****************************************************************************)
(* The translator.                                                           *)
(*****************************************************************************)
NewResponses ==
  [started |-> FALSE, finished |-> FALSE, outputIndex |-> 0, contentIndex |-> 0,
   hasText |-> FALSE, inReasoning |-> FALSE, toolCalls |-> <<>>, client |-> NewResponseReader]

\* `part` is the content_index of an event about a part of the message, and
\* `output` what response.completed lists; 0 and <<>> in other events.
Full(type, index, item, part, tokens, output) ==
  [type |-> type, index |-> index, item |-> item, part |-> part,
   tokens |-> tokens, output |-> output]

RTold(r, e) == [r EXCEPT !.client = ResponseRead(@, e)]

Tell(r, type, index, item) == RTold(r, Full(type, index, item, 0, <<>>, <<>>))

\* An event about the part of the message that is being written.
TellPart(r, type, tokens) ==
  RTold(r, Full(type, r.outputIndex, TheMessage, r.contentIndex, tokens, <<>>))

\* output_item.added and content_part.added
AddMessage(r) ==
  TellPart(Tell(r, "item_added", r.outputIndex, TheMessage), "part_added", <<>>)

\* handleNormalizedReasoning, handleReasoning
RReasoning(r, tokens) ==
  LET open == IF r.inReasoning THEN r ELSE [AddMessage(r) EXCEPT !.inReasoning = TRUE]
  IN TellPart(open, "reasoning_delta", tokens)

\* handleNormalizedContent, handleText
RContent(r, tokens) ==
  LET ready == IF r.inReasoning
               THEN [TellPart(r, "reasoning_done", <<>>)
                       EXCEPT !.inReasoning = FALSE, !.contentIndex = @ + 1]
               ELSE r
      open  == IF ready.hasText THEN ready ELSE [AddMessage(ready) EXCEPT !.hasText = TRUE]
  IN TellPart(open, "text_delta", tokens)

RPiece(r, p) == IF p.kind = "content" THEN RContent(r, p.tokens) ELSE RReasoning(r, p.tokens)

\* Seeded fault: tool calls do not leave room for the message.
NoOffset(r) == 0

\* outputIndexOffset
OutputIndexOffset(r) == IF r.hasText THEN 1 ELSE 0

\* An event about call i.
TellCall(r, type, i, tokens) ==
  RTold(r, Full(type, (i - 1) + OutputIndexOffset(r), i, 0, tokens, <<>>))

NewCall(custom) == [custom |-> custom, arguments |-> <<>>, inputEmitted |-> 0]

\* extractCustomToolInput: what is in the wrapping, once it is complete.
Unwrapped(arguments) ==
  IF Len(arguments) > 1 /\ arguments[1] = "quote" /\ Last(arguments) = "quote"
  THEN SubSeq(arguments, 2, Len(arguments) - 1)
  ELSE arguments

Input(call) == IF call.custom THEN Unwrapped(call.arguments) ELSE call.arguments

\* The input of a custom call behind what its client has been sent already.
Unsent(call) == SubSeq(Input(call), call.inputEmitted + 1, Len(Input(call)))

\* Seeded fault: what has been sent is not counted.
SentUncounted(call) == call

Sent(call) == [call EXCEPT !.inputEmitted = @ + Len(Unsent(call))]

\* Arguments go to the last call, whichever they belong to, and nowhere if
\* there is none.
Argued(r, piece) ==
  LET last == Len(r.toolCalls)
      call == [r.toolCalls[last] EXCEPT !.arguments = @ \o piece]
      delta == IF call.custom THEN Unsent(call) ELSE piece
      kept == [r EXCEPT !.toolCalls[last] = IF call.custom THEN Sent(call) ELSE call]
  IN IF piece = <<>> \/ last = 0 THEN r
     ELSE IF delta = <<>> THEN kept
     ELSE TellCall(kept, "args_delta", last, delta)

\* handleToolCalls, an entry.
RToolDelta(r, tc) ==
  LET added == [r EXCEPT !.toolCalls = Append(@, NewCall(tc.custom))]
  IN Argued(IF tc.new THEN TellCall(added, "item_added", Len(added.toolCalls), <<>>) ELSE r,
            tc.piece)

RToolDeltas(r, toolCalls) ==
  IF toolCalls = <<>> THEN r
  ELSE FoldLeft(RToolDelta, [r EXCEPT !.inReasoning = FALSE], toolCalls)

\* buildOutput
BuildOutput(r) ==
  (IF r.hasText THEN <<TheMessage>> ELSE <<>>) \o [i \in DOMAIN r.toolCalls |-> i]

CloseCall(r, i) ==
  LET call == r.toolCalls[i]
      rest == IF call.custom THEN Unsent(call) ELSE <<>>
      told == IF rest = <<>> THEN r ELSE TellCall(r, "args_delta", i, rest)
  IN TellCall(TellCall(told, "args_done", i, Input(call)), "item_done", i, <<>>)

\* finish: outputIndex moves past the message before reasoning is closed.
RFinish(r) ==
  LET texted == IF r.hasText
                THEN [Tell(TellPart(TellPart(r, "text_done", <<>>), "part_done", <<>>),
                           "item_done", r.outputIndex, TheMessage)
                        EXCEPT !.outputIndex = @ + 1]
                ELSE r
      thought == IF r.inReasoning
                 THEN [TellPart(texted, "reasoning_done", <<>>) EXCEPT !.inReasoning = FALSE]
                 ELSE texted
      called == FoldLeft(CloseCall, thought, [i \in DOMAIN r.toolCalls |-> i])
  IN [RTold(called, Full("completed", 0, TheMessage, 0, <<>>, BuildOutput(r)))
        EXCEPT !.finished = TRUE]

\* ProcessChunk for a chunk with a choice.
ResponsesChunk(r, pieces, toolCalls, finish) ==
  LET begun == IF r.started THEN r
               ELSE Tell([r EXCEPT !.started = TRUE], "created", 0, TheMessage)
      told  == RToolDeltas(FoldLeft(RPiece, begun, pieces), toolCalls)
  IN IF finish /\ ~told.finished THEN RFinish(told) ELSE told

\* Flush
ResponsesFlush(r, pieces) ==
  LET told == FoldLeft(RPiece, r, pieces)
  IN IF told.finished THEN told ELSE RFinish(told)

===============================================================================
