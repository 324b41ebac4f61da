--------------------------- MODULE AnthropicMessages ---------------------------
(*****************************************************************************)
(* Anthropic messages to Chat Completions messages and back:                 *)
(* internal/translator/request.go and response.go.  A message is a role and  *)
(* a list of blocks; a string is the list of its one text block.             *)
(*****************************************************************************)
EXTENDS ChatMessages

Block(type, part)  == [type |-> type, part |-> part, call |-> Call(NoId, "", NoArgs)]
ToolUse(call)      == [type |-> "tool_use", part |-> Part("text", 0), call |-> call]
ToolResult(id, n)  == [type |-> "tool_result", part |-> Part("text", n),
                       call |-> Call(id, "", NoArgs)]

\* The content of a message whose translation panics.
Panicked == [form |-> "panic", parts |-> <<>>]

\* Seeded fault: a text block begins the string anew.
TextRestarted(content, part) == Joined(<<part>>)

\* A plain text block goes on with a string, and replaces anything else.
TextAdded(content, part) ==
  IF content.form = "string" THEN Joined(Append(content.parts, part))
  ELSE Joined(<<part>>)

\* A cached text block turns a string into a list first.
CachedAdded(content, part) == Listed(Append(content.parts, part))

\* An image or a file asserts that the content is a list already.
RichAdded(content, part) ==
  IF content.form = "string" THEN Panicked ELSE Listed(Append(content.parts, part))

PartAdded(content, part) ==
  CASE content.form = "panic" -> content
    [] content.form # "panic" /\ part.kind = "text"   -> TextAdded(content, part)
    [] content.form # "panic" /\ part.kind = "cached" -> CachedAdded(content, part)
    [] content.form # "panic" /\ part.kind \in {"image", "file"} ->
         RichAdded(content, part)

\* translateMessages: the message itself, without its thinking blocks, and the
\* results it holds as messages behind it.
Translated(message) ==
  LET ofType(type) == SelectSeq(message.blocks, LAMBDA b : b.type = type)
      parts   == ofType("part")
      uses    == ofType("tool_use")
      results == ofType("tool_result")
      content == FoldLeft(LAMBDA c, b : PartAdded(c, b.part), NoContent, parts)
  IN Present(Message(message.role, content, [i \in DOMAIN uses |-> uses[i].call]))
     \o [i \in DOMAIN results |->
           ToolMessage(results[i].call.id, results[i].part.n)]

\* translateSystem: without a cached block the texts are joined; with one, the
\* list begins there.
SystemMessage(parts) ==
  LET cached == {i \in DOMAIN parts : parts[i].kind = "cached"}
  IN IF cached = {} THEN Message("system", Joined(parts), <<>>)
     ELSE Message("system", Listed(SubSeq(parts, Min(cached), Len(parts))), <<>>)

\* TranslateRequest, as far as the messages go.
TranslateRequest(system, messages) ==
  (IF system = <<>> THEN <<>> ELSE <<SystemMessage(system)>>)
  \o FlattenSeq([i \in DOMAIN messages |-> Translated(messages[i])])

\* TranslateResponse: thinking, text, calls.  The input of a call is what its
\* arguments parse as: null if they do not parse, as if there were none.
TranslateResponse(reply) ==
  [role |-> "assistant", blocks |->
     [i \in DOMAIN reply.thoughts |-> Block("thinking", reply.thoughts[i])]
     \o [i \in DOMAIN reply.texts |-> Block("part", reply.texts[i])]
     \o [i \in DOMAIN reply.calls |-> ToolUse([reply.calls[i] EXCEPT !.args = Unmarshaled(@)])]]

===============================================================================
