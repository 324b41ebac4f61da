---------------------------- MODULE ResponsesItems ----------------------------
(*****************************************************************************)
(* Responses API items to Chat Completions messages and back:                *)
(* internal/translator/responses.go, with the output of a streamed response  *)
(* from responses_stream.go.                                                 *)
(*****************************************************************************)
EXTENDS ChatMessages

MessageItem(role, parts) ==
  [type |-> "message", role |-> role, parts |-> parts, custom |-> FALSE,
   call |-> Call(NoId, "", NoArgs)]
CallItem(custom, call) ==
  [type |-> "call", role |-> "assistant", parts |-> <<>>, custom |-> custom,
   call |-> call]
OutputItem(id, n) ==
  [type |-> "output", role |-> "tool", parts |-> <<Part("text", n)>>,
   custom |-> FALSE, call |-> Call(id, "", NoArgs)]

(*****************************************************************************)
(* Tools: declarations at the top level and embedded in the input (where     *)
(* additional_tools and namespaces are flattened), each a name and a kind.   *)
(*****************************************************************************)
Known(tools) == SelectSeq(tools, LAMBDA t : t.kind \in {"function", "custom"})

\* dedupeOpenAITools: the first tool of each name, top level first.
OfferedTools(top, embedded) ==
  FoldLeft(LAMBDA kept, t :
             IF \E i \in DOMAIN kept : kept[i].name = t.name THEN kept
             ELSE Append(kept, t),
           <<>>, Known(top) \o Known(embedded))

\* Seeded fault: the custom tools embedded in the input are forgotten.
CustomToolsTop(top, embedded, items) ==
  {t.name : t \in {u \in ToSet(top) : u.kind = "custom"}}

\* customTools: every name declared custom anywhere, or called as such before.
CustomTools(top, embedded, items) ==
  {t.name : t \in {u \in ToSet(top \o embedded) : u.kind = "custom"}}
  \cup {it.call.name : it \in {u \in ToSet(items) : u.type = "call" /\ u.custom}}

\* Seeded fault: the arguments are the input as they are.
ExtractedNever(args) == args

\* extractCustomToolInput: what a custom tool is called with.
Extracted(args) == IF args.wraps > 0 THEN [args EXCEPT !.wraps = @ - 1] ELSE args

\* The input of a custom call as arguments again; no input, no arguments.
Wrapped(args) == IF args.n = 0 THEN NoArgs ELSE [args EXCEPT !.wraps = @ + 1]

\* Seeded fault: the input goes back as it is, wrapped or not.
CallMessageUnwrapped(item) == Message("assistant", NoContent, <<item.call>>)

CallMessage(item) ==
  Message("assistant", NoContent,
    <<[item.call EXCEPT !.args = IF item.custom THEN Wrapped(@) ELSE @]>>)

(*****************************************************************************)
(* Input items to messages.                                                  *)
(*****************************************************************************)
\* translateMessageContentBlocks: one text part is a string, else a list.
Content(parts) ==
  CASE parts = <<>> -> NoContent
    [] Len(parts) = 1 /\ parts[1].kind = "text" -> Joined(parts)
    [] OTHER -> Listed(parts)

ItemMessage(item) ==
  CASE item.type = "message" -> Message(item.role, Content(item.parts), <<>>)
    [] item.type = "call"    -> CallMessage(item)
    [] item.type = "output"  -> ToolMessage(item.call.id, item.parts[1].n)

\* Seeded fault: every call stays a message of its own.
MergedNever(messages) == messages

\* mergeAssistantToolCalls: neighbouring assistant messages with calls are one.
Merged(messages) ==
  FoldLeft(LAMBDA out, m :
             IF m.calls # <<>> /\ out # <<>> /\ Last(out).calls # <<>>
             THEN Append(Front(out), [Last(out) EXCEPT !.calls = @ \o m.calls])
             ELSE Append(out, m),
           <<>>, messages)

TranslateInputItems(items) ==
  Merged([i \in DOMAIN items |-> ItemMessage(items[i])])

\* StoredResponseToMessages: the output of the previous response, unmerged.
StoredResponseToMessages(output) ==
  [i \in DOMAIN output |-> ItemMessage(output[i])]

\* TranslateResponsesRequest, as far as the messages go.
TranslateResponsesRequest(prevMessages, items) ==
  prevMessages \o TranslateInputItems(items)

(*****************************************************************************)
(* A reply to output items.                                                  *)
(*****************************************************************************)
CallItems(reply, customs) ==
  [i \in DOMAIN reply.calls |->
     LET call == reply.calls[i]
         custom == call.name \in customs
     IN CallItem(custom, IF custom THEN [call EXCEPT !.args = Extracted(@)] ELSE call)]

MessageItems(parts) ==
  IF parts = <<>> THEN <<>> ELSE <<MessageItem("assistant", parts)>>

\* TranslateResponsesResponse: the calls, their arguments as they are, then the
\* text; thoughts stand in for a missing text.
TranslateResponsesResponse(reply, customs) ==
  CallItems(reply, customs)
  \o MessageItems(IF reply.texts = <<>>
                  THEN [i \in DOMAIN reply.thoughts |->
                          Part("text", reply.thoughts[i].n)]
                  ELSE reply.texts)

\* buildOutput of a streamed response: the text, then the calls.
BuildOutput(reply, customs) ==
  MessageItems(reply.texts) \o CallItems(reply, customs)

===============================================================================
