---------------------------- MODULE GeminiContents ----------------------------
(*****************************************************************************)
(* Gemini contents to Chat Completions messages and back:                    *)
(* internal/translator/gemini_request.go and gemini_response.go.  Gemini has *)
(* no call ids: the proxy names a call, and the result of one, by the        *)
(* function and the position of the part in its content.                     *)
(*****************************************************************************)
EXTENDS ChatMessages

TextPart(part)           == [type |-> "text", part |-> part, name |-> "", args |-> NoArgs]
RichPart(part)           == [type |-> "rich", part |-> part, name |-> "", args |-> NoArgs]
FunctionCall(name, args) == [type |-> "call", part |-> Part("text", 0),
                             name |-> name, args |-> args]
FunctionResponse(name, n) == [type |-> "response", part |-> Part("text", n),
                              name |-> name, args |-> NoArgs]

CallId(name, i) == <<name, i>>

\* Seeded fault: results are counted from one, calls from zero.
ResponseIdLate(name, i) == CallId(name, i + 1)

\* The id that the result at position i is sent under.
ResponseId(name, i) == CallId(name, i)

GeminiRole(role) ==
  CASE role = "model" -> "assistant"
    [] role = "function" -> "tool"
    [] role \in {"user", "assistant", "system", "tool"} -> role
    [] OTHER -> "user"

\* translateGeminiContent.  The text of a thought is text; images and files
\* make the content a list, texts alone are joined.
TranslateGeminiContent(content) ==
  LET parts == content.parts
      at(type) == SetToSortSeq({i \in DOMAIN parts : parts[i].type = type}, <)
      calls == at("call")
      responses == at("response")
      shown == SelectSeq(parts, LAMBDA p : p.type \in {"text", "rich"})
      shownParts == [i \in DOMAIN shown |-> shown[i].part]
      body == CASE shown = <<>> -> NoContent
                [] \E i \in DOMAIN shown : shown[i].type = "rich" -> Listed(shownParts)
                [] OTHER -> Joined(shownParts)
  IN Present(Message(GeminiRole(content.role), body,
       [k \in DOMAIN calls |->
          Call(CallId(parts[calls[k]].name, calls[k]),
               parts[calls[k]].name, parts[calls[k]].args)]))
     \o [k \in DOMAIN responses |->
           ToolMessage(ResponseId(parts[responses[k]].name, responses[k]),
                       parts[responses[k]].part.n)]

\* TranslateGeminiRequest, as far as the messages go.
TranslateGeminiRequest(contents) ==
  FlattenSeq([i \in DOMAIN contents |-> TranslateGeminiContent(contents[i])])

\* TranslateGeminiResponse: text, thought, calls, without their ids.  Arguments
\* that do not parse, or parse as null, become {} (openAIToolCallToGemini).
TranslateGeminiResponse(reply) ==
  [role |-> "model", parts |->
     [i \in DOMAIN reply.texts |-> TextPart(reply.texts[i])]
     \o [i \in DOMAIN reply.thoughts |->
           TextPart(Part("text", reply.thoughts[i].n))]
     \o [i \in DOMAIN reply.calls |->
           FunctionCall(reply.calls[i].name, Unmarshaled(reply.calls[i].args))]]

===============================================================================
