------------------------------ MODULE ThinkTags ------------------------------
(*****************************************************************************)
(* StreamNormalizer of internal/translator/normalize.go: it takes the        *)
(* <think> ... </think> passages out of streamed content and hands them on   *)
(* as reasoning, chunk by chunk.                                             *)
(*                                                                           *)
(* A chunk's content is a sequence of tokens: runs of characters the model   *)
(* wrote outside and inside a passage, "text" and "thought", and its tags,   *)
(* "open" and "close", which a chunk boundary may cut in two: "open1" ends   *)
(* a chunk, and "open2" begins the next.  <thinking> is treated as <think>   *)
(* throughout and not told apart from it; a lone "<" at the end of a chunk   *)
(* is taken to be the start of an opening tag or of none.                    *)
(*                                                                           *)
(* A normalizer is a record; `out` is what its last call emitted, in order,  *)
(* and `remaining` what its loop has not looked at, empty between calls.     *)
(* contentBuffer is always empty in the code, and tagType and                *)
(* reasoningAccum are never read.                                            *)
(*****************************************************************************)
EXTENDS Naturals, SequencesExt, FiniteSets

Tokens == {"text", "thought", "open", "close", "open1", "open2", "close1", "close2"}

CountOf(token, tokens) == Cardinality({i \in DOMAIN tokens : tokens[i] = token})

NewStreamNormalizer ==
  [inThinkTag |-> FALSE, tagBuffer |-> <<>>, openTagBuffer |-> <<>>,
   hasReasoning |-> FALSE, out |-> <<>>, remaining |-> <<>>]

\* The characters of s and then those of t: the halves of an opening tag meet.
Joined(s, t) ==
  IF s # <<>> /\ t # <<>> /\ Last(s) = "open1" /\ Head(t) = "open2"
  THEN Front(s) \o <<"open">> \o Tail(t)
  ELSE s \o t

\* findOpeningTag, findClosingTag: the first place, 0 if there is none.
Find(tag, s) ==
  LET places == {i \in DOMAIN s : s[i] = tag} IN IF places = {} THEN 0 ELSE Min(places)

Before(s, i) == SubSeq(s, 1, i - 1)
After(s, i) == SubSeq(s, i + 1, Len(s))

\* isStandaloneClosingTag
StandaloneClosing(s) ==
  /\ Find("close", s) # 0
  /\ Find("open", s) \notin 1 .. Find("close", s)

\* Seeded fault: the start of a tag at the end of a chunk goes unnoticed.
NeverIncomplete(s) == FALSE

\* hasIncompleteOpenTag
IncompleteOpenTag(s) == Last(s) = "open1"

Emit(n, kind, tokens) ==
  IF tokens = <<>> THEN n
  ELSE [n EXCEPT !.out = Append(@, [kind |-> kind, tokens |-> tokens])]

\* Reasoning found in tags counts only if the backend sends none of its own.
EmitTagged(n, tokens) == IF n.hasReasoning THEN n ELSE Emit(n, "reasoning", tokens)

\* Seeded fault: the buffer of the passage that ends is kept.
LeaveTagKeepingBuffer(n, tokens) ==
  [EmitTagged(n, n.tagBuffer \o tokens) EXCEPT !.inThinkTag = FALSE]

\* The passage the normalizer is in ends after `tokens`.
LeaveTag(n, tokens) ==
  [EmitTagged(n, n.tagBuffer \o tokens) EXCEPT !.tagBuffer = <<>>, !.inThinkTag = FALSE]

\* The loop returns, or goes on with what remains.
Return(n) == [n EXCEPT !.remaining = <<>>]
Continue(n, tokens) == [n EXCEPT !.remaining = tokens]

(*****************************************************************************)
(* processContentChunk: one run of its loop, over what remains of the chunk. *)
(*****************************************************************************)
InsidePass(n) ==
  LET close == Find("close", n.remaining)
  IN IF close = 0 THEN Return([n EXCEPT !.tagBuffer = @ \o n.remaining])
     ELSE Continue(LeaveTag(n, Before(n.remaining, close)), After(n.remaining, close))

\* Outside a passage, where no tag opens one.
PlainPass(n) ==
  Return(IF IncompleteOpenTag(n.remaining) THEN [n EXCEPT !.openTagBuffer = n.remaining]
         ELSE Emit(n, "content", n.remaining))

\* Outside a passage, where the tag at the given place opens one.
OpeningPass(n, open) ==
  LET told   == Emit(n, "content", Before(n.remaining, open))
      inside == After(n.remaining, open)
      close  == Find("close", inside)
  IN IF close = 0 THEN Return([told EXCEPT !.inThinkTag = TRUE, !.tagBuffer = inside])
     ELSE Continue(EmitTagged(told, Before(inside, close)), After(inside, close))

Pass(n) ==
  LET open == Find("open", n.remaining)
  IN CASE n.remaining = <<>> -> n
       [] n.remaining # <<>> /\ n.inThinkTag -> InsidePass(n)
       [] n.remaining # <<>> /\ ~n.inThinkTag ->
            IF StandaloneClosing(n.remaining)
            THEN Continue(n, After(n.remaining, Find("close", n.remaining)))
            ELSE IF open = 0 THEN PlainPass(n) ELSE OpeningPass(n, open)

\* The loop: every run takes a token at least, so that there are no more runs
\* than tokens.
Parse(n, tokens) ==
  LET pass[i \in 0 .. Len(tokens)] ==
        IF i = 0 THEN Continue(n, tokens) ELSE Pass(pass[i - 1])
  IN pass[Len(tokens)]

\* StreamNormalizer.ProcessChunk: the backend's own reasoning first.
Normalized(n, content, reasoning) ==
  LET fresh == [n EXCEPT !.out = <<>>]
      told  == IF reasoning = <<>> THEN fresh
               ELSE Emit([fresh EXCEPT !.hasReasoning = TRUE], "reasoning", reasoning)
  IN IF content = <<>> THEN told
     ELSE Parse([told EXCEPT !.openTagBuffer = <<>>], Joined(n.openTagBuffer, content))

\* Seeded fault: what an unclosed passage holds is forgotten.
ForgottenAtFlush(n) == [n EXCEPT !.out = <<>>]

\* StreamNormalizer.Flush: a passage that was never closed ends here.
NormalizerFlushed(n) ==
  LET fresh == [n EXCEPT !.out = <<>>]
  IN IF n.inThinkTag /\ n.tagBuffer # <<>> THEN LeaveTag(fresh, <<>>) ELSE fresh

===============================================================================
