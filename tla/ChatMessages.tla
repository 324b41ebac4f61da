----------------------------- MODULE ChatMessages -----------------------------
(*****************************************************************************)
(* Chat Completions messages, the one language all backends speak, and what  *)
(* a backend reads in a list of them (internal/types/openai.go).  A message  *)
(* keeps its content in one field and its tool calls in another.             *)
(*                                                                           *)
(* Data abstraction: texts, images, files and arguments are numbers that     *)
(* tell one from the other, all of them non-empty; an id is a tuple, because *)
(* the proxy makes up the ids of Gemini calls from a name and a position.    *)
(*****************************************************************************)
EXTENDS Naturals, Sequences, SequencesExt

\* Something a message contains: plain or cached text, an image, a file, a
\* thought.
Part(kind, n) == [kind |-> kind, n |-> n]

\* Arguments of a call: a string.  `wraps` counts how often a text is wrapped as
\* {"input": ...}, `json` tells whether the text inside parses as JSON other
\* than null.  n is 0 when there are none: "", or what stands for it, null and {}.
Args(n, wraps) == [n |-> n, wraps |-> wraps, json |-> TRUE]
NoArgs == Args(0, 0)
BrokenArgs(n) == [n |-> n, wraps |-> 0, json |-> FALSE]

\* json.Unmarshal with its error dropped, or answered with an empty object:
\* nothing is left of arguments that do not parse.
Unmarshaled(args) == IF args.json \/ args.wraps > 0 THEN args ELSE NoArgs

Call(id, name, args) == [id |-> id, name |-> name, args |-> args]
NoId == <<>>

\* The content field: absent, one string, or a list of parts.
NoContent       == [form |-> "none", parts |-> <<>>]
Joined(parts)   == [form |-> "string", parts |-> parts]
Listed(parts)   == [form |-> "list", parts |-> parts]

Message(role, content, calls) ==
  [role |-> role, content |-> content, calls |-> calls, answers |-> NoId]

ToolMessage(id, n) ==
  [role |-> "tool", content |-> Joined(<<Part("text", n)>>), calls |-> <<>>,
   answers |-> id]

\* A translated message is sent only if something is in it.
Present(message) ==
  IF message.content.form # "none" \/ message.calls # <<>>
  THEN <<message>> ELSE <<>>

\* What a backend answers: at most one text and one thought, and some calls.
Reply(texts, thoughts, calls) ==
  [texts |-> texts, thoughts |-> thoughts, calls |-> calls]

-------------------------------------------------------------------------------
\* One thing said, by whom: a part, a call, or the result of a call.
SaidPart(role, part)  == <<role, part.kind, part.n>>
SaidCall(call)        == <<"assistant", "call", call.id, call.name, call.args>>
SaidResult(id, n)     == <<"tool", "result", id, n>>

Parts(role, parts) == [i \in DOMAIN parts |-> SaidPart(role, parts[i])]
Calls(calls) == [i \in DOMAIN calls |-> SaidCall(calls[i])]

\* What a backend reads in a list of messages, in order.
Read(messages) ==
  FlattenSeq([i \in DOMAIN messages |->
    LET m == messages[i]
    IN IF m.role = "tool"
       THEN <<SaidResult(m.answers, m.content.parts[1].n)>>
       ELSE Parts(m.role, m.content.parts) \o Calls(m.calls)])

\* The message with calls that position i of a list answers to: the results of
\* k calls are the k messages right after it, in any order.
InPlace(messages) ==
  LET answered(i) == i + 1 .. i + Len(messages[i].calls)
  IN /\ \A i \in DOMAIN messages :
          /\ answered(i) \subseteq DOMAIN messages
          /\ {messages[j].answers : j \in answered(i)} =
               {messages[i].calls[k].id : k \in DOMAIN messages[i].calls}
     /\ \A j \in DOMAIN messages :
          messages[j].role = "tool" =>
            \E i \in 1 .. j - 1 : j \in answered(i)

===============================================================================
