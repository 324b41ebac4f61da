----------------------------- MODULE ItemsProofs -----------------------------
(*****************************************************************************)
(* What holds of Streams beyond its text and thoughts, for any number of     *)
(* chunks of any length.                                                     *)
(* ResponseFollows: a client of the Responses API can follow the output      *)
(* items.  It rests on an invariant that says which items the client knows   *)
(* of while the translator follows the protocol, BareInv.  Before it: that a *)
(* normalizer that was given no tag tells text only, and what each event of  *)
(* the translator leaves of the client's items.                              *)
(* CallsIntact: each tool call reaches every client with its arguments.  It  *)
(* rests on an invariant that says what each client has of the calls and     *)
(* what its translator holds back, CallsTold.  Before it: what each step     *)
(* of the four translations leaves of the calls of its client, and what the  *)
(* input of a custom tool is, and how much of it is sent, as its arguments   *)
(* grow.                                                                     *)
(* WholeAnswerExact: a whole answer is what the model said.  It rests on an  *)
(* invariant that says what was put together so far, AnswerTold.  Before     *)
(* it: that halves of tags meet when a chunk is put behind the others, and   *)
(* that the places of passages are those the regular expression finds.       *)
(* All three rest on the invariant of StreamsProofs.                         *)
(*****************************************************************************)
EXTENDS StreamsProofs

-----------------------------------------------------------------------------
(*****************************************************************************)
(* Without tags the normalizer tells text only.                              *)
(*****************************************************************************)

OnlyText(pieces) == \A i \in 1 .. Len(pieces) : pieces[i].kind = "content"

Tagless(tokens) == \A i \in 1 .. Len(tokens) : tokens[i] # "open"

Untagged(n) ==
  /\ n \in Normalizers /\ ~n.inThinkTag
  /\ OnlyText(n.out) /\ Tagless(n.openTagBuffer) /\ Tagless(n.remaining)

LEMMA PartsTagless ==
  ASSUME NEW s \in Seq(Tokens), Tagless(s), NEW i \in 1 .. Len(s)
  PROVE  Tagless(After(s, i))
<1> DEFINE r == After(s, i)
<1>1. Len(r) = Len(s) - i /\ \A j \in 1 .. Len(s) - i : r[j] = s[i + j]
  BY PartsAre
<1> HIDE DEF r
<1>2. ASSUME NEW j \in 1 .. Len(r) PROVE r[j] # "open"
  <2>1. i + j \in 1 .. Len(s)
    BY <1>1
  <2>2. QED
    BY <1>1, <2>1 DEF Tagless
<1>3. QED
  BY <1>2 DEF Tagless, r

LEMMA EmitUntagged ==
  ASSUME NEW n, Untagged(n), NEW tokens \in Seq(Tokens)
  PROVE  Untagged(Emit(n, "content", tokens))
<1> DEFINE piece == [kind |-> "content", tokens |-> tokens]
           out == Append(n.out, piece)
           told == [n EXCEPT !.out = out]
           q == Emit(n, "content", tokens)
<1>1. q \in Normalizers /\ NormalizerSame(n, q)
  BY EmitIs DEF Untagged
<1>2. n \in Normalizers /\ n.out \in Seq(NormalizedPieces) /\ OnlyText(n.out)
  BY DEF Untagged, Normalizers
<1>3. piece \in NormalizedPieces /\ piece.kind = "content"
  BY DEF NormalizedPieces
<1>4. q = IF tokens = <<>> THEN n ELSE told
  BY DEF Emit
<1> HIDE DEF q, piece, NormalizedPieces
<1>5. OnlyText(out)
  <2> DEFINE k == Len(n.out)
  <2>1. /\ k \in Nat /\ Len(out) = k + 1 /\ out[k + 1] = piece
        /\ \A i \in 1 .. k : out[i] = n.out[i]
    BY <1>2, <1>3
  <2> HIDE DEF out
  <2>2. \A i \in 1 .. Len(out) : i \in 1 .. k \/ i = k + 1
    BY <2>1
  <2>3. QED
    BY <1>2, <1>3, <2>1, <2>2 DEF OnlyText
<1>6. told.out = out
  BY <1>2 DEF Normalizers
<1> HIDE DEF out, told
<1>7. OnlyText(q.out)
  BY <1>2, <1>4, <1>5, <1>6
<1>8. QED
  BY <1>1, <1>7 DEF Untagged, NormalizerSame, q

LEMMA PassUntagged ==
  ASSUME NEW n, Untagged(n)
  PROVE  Untagged(Pass(n))
<1> DEFINE r == n.remaining
           close == Find("close", r)
           q == Pass(n)
           kept == [n EXCEPT !.openTagBuffer = r]
           told == Emit(n, "content", r)
<1>1. /\ n \in Normalizers /\ ~n.inThinkTag /\ r \in Seq(Tokens) /\ Tagless(r)
      /\ OnlyText(n.out)
  BY DEF Untagged, Normalizers
<1>2. close \in 0 .. Len(r) /\ Find("open", r) = 0
  BY <1>1, FindIs, FirstFound DEF Tagless
<1>3. r # <<>> => q = IF close # 0 THEN Continue(n, After(r, close))
                      ELSE Return(IF IncompleteOpenTag(r) THEN kept ELSE told)
  BY <1>1, <1>2 DEF Pass, StandaloneClosing, PlainPass
<1> HIDE DEF q, close
<1>4. CASE r = <<>>
  <2>1. q = n
    BY <1>4 DEF Pass, q
  <2>2. QED
    BY <2>1 DEF q
<1>5. CASE r # <<>> /\ close # 0
  <2>1. close \in 1 .. Len(r)
    BY <1>2, <1>5
  <2> DEFINE rest == After(r, close)
  <2>2. rest \in Seq(Tokens) /\ Tagless(rest)
    BY <1>1, <2>1, PartsAre, PartsTagless
  <2> HIDE DEF rest
  <2>3. q = Continue(n, rest)
    BY <1>3, <1>5 DEF rest
  <2>4. /\ q \in Normalizers /\ q.remaining = rest /\ q.inThinkTag = n.inThinkTag
        /\ q.openTagBuffer = n.openTagBuffer /\ q.out = n.out
    BY <1>1, <2>2, <2>3, ContinueIs, ContinueMute
  <2>5. Untagged(q)
    BY <2>2, <2>4 DEF Untagged
  <2>6. QED
    BY <2>5 DEF q
<1>6. CASE r # <<>> /\ close = 0
  <2>1. Untagged(told)
    BY <1>1, EmitUntagged
  <2>2. /\ kept \in Normalizers /\ kept.inThinkTag = n.inThinkTag /\ kept.out = n.out
        /\ kept.openTagBuffer = r /\ kept.remaining = r
    <3> HIDE DEF NormalizedPieces
    <3>1. QED
      BY <1>1 DEF Normalizers
  <2>3. Untagged(kept)
    BY <1>1, <2>2 DEF Untagged
  <2> HIDE DEF kept, told
  <2>4. PICK x \in {kept, told} : q = Return(x)
    BY <1>3, <1>6
  <2>5. Untagged(x) /\ x \in Normalizers
    BY <2>1, <2>3 DEF Untagged
  <2>6. <<>> \in Seq(Tokens) /\ Tagless(<<>>)
    BY DEF Tagless
  <2>7. /\ q \in Normalizers /\ q.remaining = <<>> /\ q.inThinkTag = x.inThinkTag
        /\ q.openTagBuffer = x.openTagBuffer /\ q.out = x.out
    BY <2>4, <2>5, <2>6, ReturnIs, ContinueMute
  <2>8. Untagged(q)
    BY <2>5, <2>6, <2>7 DEF Untagged
  <2>9. QED
    BY <2>8 DEF q
<1>7. QED
  BY <1>4, <1>5, <1>6

\* A chunk of such a stream.
LEMMA NormalizedUntagged ==
  ASSUME NEW n, Untagged(n), n.remaining = <<>>, n.out = <<>>,
         NEW content \in Seq(Tokens),
         \A i \in 1 .. Len(content) : content[i] \notin {"open", "open2"}
  PROVE  Untagged(Normalized(n, content, <<>>))
<1> DEFINE none == <<>>
           fresh == [n EXCEPT !.out = none]
           cleared == [fresh EXCEPT !.openTagBuffer = none]
           joined == Joined(n.openTagBuffer, content)
           q == Normalized(n, content, <<>>)
<1>1. /\ n \in Normalizers /\ ~n.inThinkTag /\ n.openTagBuffer \in Seq(Tokens)
      /\ Tagless(n.openTagBuffer)
  BY DEF Untagged, Normalizers
<1>2. none \in Seq(Tokens) /\ none \in Seq(NormalizedPieces) /\ OnlyText(none) /\ Tagless(none)
  BY DEF OnlyText, Tagless
<1>3. q = IF content = <<>> THEN fresh ELSE Parse(cleared, joined)
  BY DEF Normalized
<1> HIDE DEF none, q, NormalizedPieces
<1>4. Untagged(fresh) /\ Untagged(cleared)
  <2>1. /\ fresh \in Normalizers /\ fresh.inThinkTag = n.inThinkTag /\ fresh.out = none
        /\ fresh.openTagBuffer = n.openTagBuffer /\ fresh.remaining = n.remaining
    BY <1>1, <1>2 DEF Normalizers
  <2> HIDE DEF fresh
  <2>2. /\ cleared \in Normalizers /\ cleared.inThinkTag = n.inThinkTag /\ cleared.out = none
        /\ cleared.openTagBuffer = none /\ cleared.remaining = n.remaining
    BY <1>2, <2>1 DEF Normalizers
  <2>3. QED
    BY <1>2, <2>1, <2>2 DEF Untagged
<1>5. CASE content = <<>>
  BY <1>3, <1>4, <1>5 DEF q
<1>6. CASE content # <<>>
  <2>1. 1 \in 1 .. Len(content) /\ Head(content) = content[1]
    BY <1>6
  <2>2. joined = n.openTagBuffer \o content
    BY <2>1 DEF Joined
  <2>3. joined \in Seq(Tokens) /\ Tagless(joined)
    <3> DEFINE b == n.openTagBuffer
               k == Len(b)
    <3>1. /\ k \in Nat /\ Len(b \o content) = k + Len(content)
          /\ \A i \in 1 .. k : (b \o content)[i] = b[i]
          /\ \A i \in 1 .. Len(content) : (b \o content)[k + i] = content[i]
          /\ b \o content \in Seq(Tokens)
      BY <1>1
    <3>2. ASSUME NEW i \in 1 .. Len(b \o content) PROVE (b \o content)[i] # "open"
      <4>1. i \in 1 .. k \/ (i - k \in 1 .. Len(content) /\ k + (i - k) = i)
        BY <3>1
      <4>2. QED
        BY <1>1, <3>1, <4>1 DEF Tagless
    <3>3. QED
      BY <2>2, <3>1, <3>2 DEF Tagless
  <2> HIDE DEF joined, cleared, fresh
  <2> DEFINE b == Continue(cleared, joined)
             S == {x \in Normalizers : Untagged(x)}
  <2>4. b \in S
    <3>1. /\ b \in Normalizers /\ b.remaining = joined /\ b.inThinkTag = cleared.inThinkTag
          /\ b.openTagBuffer = cleared.openTagBuffer /\ b.out = cleared.out
      BY <1>4, <2>3, ContinueIs, ContinueMute DEF Untagged
    <3> HIDE DEF b
    <3>2. QED
      BY <1>4, <2>3, <3>1 DEF Untagged
  <2>5. \A x \in S : Pass(x) \in S
    BY PassUntagged DEF Untagged
  <2> HIDE DEF S
  <2>6. Parse(cleared, joined) \in S
    <3>1. PICK g \in [0 .. Len(joined) -> S] : Parse(cleared, joined) = g[Len(joined)]
      BY <2>3, <2>4, <2>5, ParseRuns
    <3>2. Len(joined) \in 0 .. Len(joined)
      BY <2>3
    <3>3. QED
      BY <3>1, <3>2
  <2>7. QED
    BY <1>3, <1>6, <2>6 DEF S, q
<1>7. QED
  BY <1>5, <1>6

-----------------------------------------------------------------------------
(*****************************************************************************)
(* The Responses client: the items it knows of while the translator follows  *)
(* the protocol.                                                             *)
(*****************************************************************************)

\* The first item of an answer: the message, or the first call.
First(t) == IF t THEN TheMessage ELSE TheMessage + 1

\* Items up to k, each under an index of its own; those up to c are done.
Listed(t, k, c) ==
  {[index |-> i - First(t), item |-> i, open |-> i > c] : i \in First(t) .. k}

Knows(m, t, k, c) ==
  m \in ResponseReaders /\ m.at = "open" /\ ~m.confused /\ m.items = Listed(t, k, c)

Tracks(r, t, k, c) == r \in ResponsesTranslators /\ Knows(r.client, t, k, c)

\* An event about an item that is open, and leaves it so.
SteadyTypes == EventTypes \ {"created", "item_added", "item_done", "completed"}

About(e, t) == e \in ResponseEvents /\ e.index = e.item - First(t) /\ e.item >= First(t)

LEMMA SteadyRead ==
  ASSUME NEW m, NEW t \in BOOLEAN, NEW k \in Nat, NEW c \in Int, Knows(m, t, k, c),
         NEW e \in ResponseEvents, About(e, t), e.type \in SteadyTypes,
         e.item <= k, e.item > c
  PROVE  Knows(ResponseRead(m, e), t, k, c)
<1>1. /\ m \in ResponseReaders /\ m.at = "open" /\ ~m.confused
      /\ m.items = Listed(t, k, c) /\ e.item \in Nat
  BY DEF Knows, ResponseEvents
<1>2. ResponseRead(m, e) \in ResponseReaders
  BY <1>1, ResponseReadType
<1>3. First(t) \in Nat
  BY DEF First, TheMessage
<1>4. OpenItem(m, e) \in m.items
  <2>1. e.item \in First(t) .. k /\ (e.item > c) = TRUE
    BY <1>1, <1>3 DEF About
  <2>2. OpenItem(m, e) = [index |-> e.item - First(t), item |-> e.item, open |-> e.item > c]
    BY <2>1 DEF About, OpenItem
  <2>3. QED
    BY <1>1, <2>1, <2>2 DEF Listed
<1>5. e.type \notin {"created", "item_added", "item_done", "completed"}
  BY DEF SteadyTypes
<1>6. RMakesSense(m, e)
  BY <1>1, <1>4, <1>5 DEF RMakesSense
<1> DEFINE q == ResponseRead(m, e)
<1>7. /\ q.at = m.at /\ q.items = m.items
      /\ q.confused = (m.confused \/ ~RMakesSense(m, e))
  BY <1>5 DEF ResponseRead
<1> HIDE DEF q
<1>8. q.at = "open" /\ q.items = Listed(t, k, c) /\ ~q.confused
  BY <1>1, <1>6, <1>7
<1>9. QED
  BY <1>2, <1>8 DEF Knows, q

\* An item is added: the message, before any call, or the next call.
LEMMA AddedRead ==
  ASSUME NEW m, NEW t \in BOOLEAN, NEW u \in BOOLEAN, NEW k \in Nat, Knows(m, t, k, -1),
         NEW e \in ResponseEvents, About(e, u), e.type = "item_added",
         \/ e.item = k + 1 /\ u = t
         \/ ~t /\ u /\ k = 0 /\ e.item = TheMessage
  PROVE  Knows(ResponseRead(m, e), u, e.item, -1)
<1>1. /\ m \in ResponseReaders /\ m.at = "open" /\ ~m.confused
      /\ m.items = Listed(t, k, -1) /\ e.item \in Nat
  BY DEF Knows, ResponseEvents
<1>2. ResponseRead(m, e) \in ResponseReaders
  BY <1>1, ResponseReadType
<1>3. First(t) \in Nat /\ First(u) \in Nat
  BY DEF First, TheMessage
<1> DEFINE entry(i) == [index |-> i - First(u), item |-> i, open |-> i > -1]
<1>4. OpenItem(m, e) = entry(e.item)
  <2>1. (e.item > -1) = TRUE
    BY <1>1
  <2>2. QED
    BY <2>1 DEF About, OpenItem
<1>5. /\ First(u) .. e.item = (First(t) .. k) \cup {e.item} /\ e.item \notin First(t) .. k
      /\ \A i \in First(t) .. k : i - First(t) # e.item - First(u)
      /\ \A i \in First(t) .. k : u = t
  <2>1. CASE e.item = k + 1 /\ u = t
    <3> DEFINE f == First(t)
    <3>1. k + 1 >= f /\ f \in Nat /\ First(u) = f
      BY <1>3, <2>1 DEF About
    <3> HIDE DEF f
    <3>2. f .. k + 1 = (f .. k) \cup {k + 1} /\ k + 1 \notin f .. k
      BY <3>1
    <3>3. \A i \in f .. k : i - f # (k + 1) - f
      BY <3>1
    <3>4. e.item = k + 1 /\ First(u) = f /\ First(t) = f /\ u = t
      BY <2>1, <3>1 DEF f
    <3>5. QED
      BY <3>2, <3>3, <3>4, Zenon
  <2>2. CASE ~t /\ u /\ k = 0 /\ e.item = TheMessage
    <3>1. First(t) = 1 /\ First(u) = 0 /\ e.item = 0 /\ k = 0
      BY <2>2 DEF First, TheMessage
    <3>2. 0 .. 0 = {0} /\ 1 .. 0 = {}
      OBVIOUS
    <3>3. First(u) .. e.item = {e.item} /\ First(t) .. k = {}
      BY <3>1, <3>2, Zenon
    <3>4. QED
      BY <3>3
  <2>3. QED
    BY <2>1, <2>2
<1>6. m.items \cup {OpenItem(m, e)} = Listed(u, e.item, -1)
  <2>1. m.items = {entry(i) : i \in First(t) .. k}
    BY <1>1, <1>5 DEF Listed
  <2>2. Listed(u, e.item, -1) = {entry(i) : i \in First(u) .. e.item}
    BY DEF Listed
  <2> HIDE DEF entry
  <2>3. QED
    BY <1>4, <1>5, <2>1, <2>2
<1>7. \A i \in m.items : i.index # e.index /\ i.item # e.item
  <2>1. ASSUME NEW x \in m.items PROVE x.index # e.index /\ x.item # e.item
    <3>1. PICK i \in First(t) .. k : x.index = i - First(t) /\ x.item = i
      BY <1>1 DEF Listed
    <3>2. QED
      BY <1>5, <3>1 DEF About
  <2>2. QED
    BY <2>1
<1>8. RMakesSense(m, e)
  BY <1>1, <1>7 DEF RMakesSense
<1> DEFINE q == ResponseRead(m, e)
<1>9. /\ q.at = m.at /\ q.items = m.items \cup {OpenItem(m, e)}
      /\ q.confused = (m.confused \/ ~RMakesSense(m, e))
  BY DEF ResponseRead
<1> HIDE DEF q
<1>10. q.at = "open" /\ q.items = Listed(u, e.item, -1) /\ ~q.confused
  BY <1>1, <1>6, <1>8, <1>9
<1>11. QED
  BY <1>2, <1>10 DEF Knows, q

\* Items are done one after the other.
LEMMA DoneRead ==
  ASSUME NEW m, NEW t \in BOOLEAN, NEW k \in Nat, NEW c \in Int, Knows(m, t, k, c),
         NEW e \in ResponseEvents, About(e, t), e.type = "item_done",
         e.item = c + 1, e.item <= k
  PROVE  Knows(ResponseRead(m, e), t, k, e.item)
<1>1. /\ m \in ResponseReaders /\ m.at = "open" /\ ~m.confused
      /\ m.items = Listed(t, k, c) /\ e.item \in Nat
  BY DEF Knows, ResponseEvents
<1>2. ResponseRead(m, e) \in ResponseReaders
  BY <1>1, ResponseReadType
<1>3. First(t) \in Nat
  BY DEF First, TheMessage
<1> DEFINE entry(i) == [index |-> i - First(t), item |-> i, open |-> i > c]
           later(i) == [index |-> i - First(t), item |-> i, open |-> i > e.item]
           done == [OpenItem(m, e) EXCEPT !.open = FALSE]
           I == First(t) .. k
<1>4. e.item \in I /\ e.item > c
  BY <1>1, <1>3 DEF About
<1>5. OpenItem(m, e) = entry(e.item)
  BY <1>4 DEF About, OpenItem
<1>6. done = later(e.item)
  <2>1. ~(e.item > e.item)
    BY <1>1
  <2>2. (e.item > e.item) = FALSE
    BY <2>1
  <2>3. done = [index |-> e.index, item |-> e.item, open |-> FALSE]
    <3> DEFINE i == e.index
               j == e.item
               o == OpenItem(m, e)
    <3>1. i \in Nat /\ j \in Nat
      BY DEF ResponseEvents
    <3>2. o = [index |-> i, item |-> j, open |-> TRUE]
      BY DEF OpenItem
    <3> HIDE DEF i, j, o
    <3>3. o \in [index : Nat, item : Nat, open : BOOLEAN]
      BY <3>1, <3>2
    <3> DEFINE d == [o EXCEPT !.open = FALSE]
    <3>4. o.index = i /\ o.item = j
      BY <3>2
    <3>5. /\ d \in [index : Nat, item : Nat, open : BOOLEAN]
          /\ d.index = o.index /\ d.item = o.item /\ d.open = FALSE
      BY <3>3
    <3> HIDE DEF d
    <3>6. d = [index |-> i, item |-> j, open |-> FALSE]
      BY <3>4, <3>5
    <3>7. QED
      BY <3>6 DEF d, i, j, o
  <2>4. QED
    BY <2>2, <2>3 DEF About
<1>7. \A i \in I : i # e.item => entry(i) = later(i)
  <2>1. ASSUME NEW i \in I, i # e.item PROVE (i > c) = (i > e.item)
    BY <1>1, <1>3, <2>1
  <2> HIDE DEF I
  <2>2. QED
    BY <2>1
<1>8. \A i \in I : entry(i).item = i
  OBVIOUS
<1>9. m.items = {entry(i) : i \in I} /\ Listed(t, k, e.item) = {later(i) : i \in I}
  BY <1>1 DEF Listed
<1> HIDE DEF entry, later, done, I
<1>10. OpenItem(m, e) \in m.items
  BY <1>4, <1>5, <1>9
<1>11. (m.items \ {OpenItem(m, e)}) \cup {done} = Listed(t, k, e.item)
  <2>1. \A i \in I : entry(i) # OpenItem(m, e) <=> i # e.item
    BY <1>4, <1>5, <1>8
  <2>2. QED
    BY <1>4, <1>6, <1>7, <1>9, <2>1
<1>12. RMakesSense(m, e)
  BY <1>1, <1>10 DEF RMakesSense
<1> DEFINE q == ResponseRead(m, e)
<1>13. /\ q.at = m.at /\ q.items = (m.items \ {OpenItem(m, e)}) \cup {done}
       /\ q.confused = (m.confused \/ ~RMakesSense(m, e))
  BY DEF ResponseRead, done
<1> HIDE DEF q
<1>14. q.at = "open" /\ q.items = Listed(t, k, e.item) /\ ~q.confused
  BY <1>1, <1>11, <1>12, <1>13
<1>15. QED
  BY <1>2, <1>14 DEF Knows, q

\* What response.completed has to list: the items in their places.
Ordered(output, t, k) ==
  /\ output \in Seq(Nat) /\ Len(output) = (k + 1) - First(t)
  /\ \A i \in First(t) .. k : output[(i - First(t)) + 1] = i

LEMMA ListedCount ==
  ASSUME NEW t \in BOOLEAN, NEW k \in Nat, NEW c \in Int
  PROVE  Cardinality(Listed(t, k, c)) = (k + 1) - First(t)
<1> DEFINE f == First(t)
           n == (k + 1) - f
           entry(i) == [index |-> i - f, item |-> i, open |-> i > c]
           L == Listed(t, k, c)
           g == [j \in 1 .. n |-> entry((j - 1) + f)]
<1>1. f \in {0, 1} /\ n \in Nat
  BY DEF First, TheMessage
<1>2. L = {entry(i) : i \in f .. k}
  BY DEF Listed
<1>3. \A j \in 1 .. n : (j - 1) + f \in f .. k
  BY <1>1
<1>4. \A i \in f .. k : (i - f) + 1 \in 1 .. n /\ (((i - f) + 1) - 1) + f = i
  BY <1>1
<1>5. \A i : entry(i).item = i
  OBVIOUS
<1>6. \A j, l \in 1 .. n : (j - 1) + f = (l - 1) + f => j = l
  BY <1>1
<1>7. \A j \in 1 .. n : g[j] = entry((j - 1) + f)
  OBVIOUS
<1>8. g \in [1 .. n -> L]
  BY <1>2, <1>3
<1> HIDE DEF g, entry, L, n, f
<1>9. \A j, l \in 1 .. n : g[j] = g[l] => j = l
  BY <1>5, <1>6, <1>7
<1>10. \A x \in L : \E j \in 1 .. n : g[j] = x
  <2>1. ASSUME NEW x \in L PROVE \E j \in 1 .. n : g[j] = x
    <3>1. PICK i \in f .. k : x = entry(i)
      BY <1>2
    <3>2. (i - f) + 1 \in 1 .. n /\ g[(i - f) + 1] = entry(i)
      BY <1>4, <1>7
    <3>3. QED
      BY <3>1, <3>2
  <2>2. QED
    BY <2>1
<1>11. g \in Bijection(1 .. n, L)
  BY <1>8, <1>9, <1>10 DEF Bijection, Injection, Surjection, IsInjective
<1>12. ExistsBijection(1 .. n, L)
  BY <1>11 DEF ExistsBijection
<1>13. QED
  BY <1>1, <1>12, FS_CountingElements DEF n, f, L

\* Everything is done: the answer can be completed.
LEMMA CompletedRead ==
  ASSUME NEW m, NEW t \in BOOLEAN, NEW k \in Nat, Knows(m, t, k, k),
         NEW e \in ResponseEvents, e.type = "completed", Ordered(e.output, t, k)
  PROVE  ~ResponseRead(m, e).confused
<1> DEFINE f == First(t)
           output == e.output
<1>1. /\ m.at = "open" /\ ~m.confused /\ m.items = Listed(t, k, k)
  BY DEF Knows
<1>2. f \in {0, 1} /\ output \in Seq(Nat) /\ Len(output) = (k + 1) - f
      /\ \A i \in f .. k : output[(i - f) + 1] = i
  BY DEF First, TheMessage, Ordered
<1>3. Cardinality(m.items) = Len(output)
  BY <1>1, <1>2, ListedCount
<1>4. ASSUME NEW x \in m.items
      PROVE  ~x.open /\ x.index < Len(output) /\ output[x.index + 1] = x.item
  <2>1. PICK i \in f .. k : x = [index |-> i - f, item |-> i, open |-> i > k]
    BY <1>1 DEF Listed
  <2>2. x.index = i - f /\ x.item = i /\ x.open = (i > k)
    BY <2>1
  <2>3. ~(i > k) /\ i - f < Len(output)
    BY <1>2
  <2>4. output[(i - f) + 1] = i
    BY <1>2
  <2> HIDE DEF output, f
  <2>5. QED
    BY <2>2, <2>3, <2>4
<1>5. RMakesSense(m, e)
  BY <1>1, <1>3, <1>4 DEF RMakesSense
<1>6. ResponseRead(m, e).confused = (m.confused \/ ~RMakesSense(m, e))
  BY DEF ResponseRead
<1>7. QED
  BY <1>1, <1>5, <1>6

LEMMA BuildOutputIs ==
  ASSUME NEW r \in ResponsesTranslators
  PROVE  Ordered(BuildOutput(r), r.hasText, Len(r.toolCalls))
<1> DEFINE k == Len(r.toolCalls)
           t == r.hasText
           places == [i \in DOMAIN r.toolCalls |-> i]
           first == IF t THEN <<TheMessage>> ELSE <<>>
           output == first \o places
<1>1. k \in Nat /\ DOMAIN r.toolCalls = 1 .. k /\ t \in BOOLEAN
  BY DEF ResponsesTranslators
<1>2. places \in Seq(Nat) /\ Len(places) = k /\ \A i \in 1 .. k : places[i] = i
  BY <1>1
<1>3. first \in Seq(Nat) /\ Len(first) = 1 - First(t)
      /\ \A i \in 1 .. Len(first) : first[i] = 0
  <2>1. CASE t
    <3>1. first = <<0>> /\ First(t) = 0
      BY <2>1 DEF First, TheMessage
    <3> HIDE DEF first, t
    <3>2. QED
      BY <3>1
  <2>2. CASE ~t
    <3>1. first = <<>> /\ First(t) = 1
      BY <2>2 DEF First, TheMessage
    <3> HIDE DEF first, t
    <3>2. QED
      BY <3>1
  <2>3. QED
    BY <2>1, <2>2
<1>4. BuildOutput(r) = output
  BY DEF BuildOutput
<1>5. First(t) \in {0, 1}
  BY DEF First, TheMessage
<1> DEFINE n == Len(first)
<1> HIDE DEF places, first, k, t
<1>6. /\ n \in Nat /\ output \in Seq(Nat) /\ Len(output) = n + k
      /\ \A i \in 1 .. n : output[i] = first[i]
      /\ \A i \in 1 .. k : output[n + i] = places[i]
  <2>1. n \in Nat /\ output \in Seq(Nat) /\ Len(output) = n + k
    <3>1. first \in Seq(Nat) /\ places \in Seq(Nat) /\ Len(places) = k
      BY <1>2, <1>3
    <3>2. n \in Nat
      BY <3>1
    <3>3. output \in Seq(Nat) /\ Len(output) = n + Len(places)
      BY <3>1, ConcatProperties
    <3>4. QED
      BY <3>1, <3>2, <3>3
  <2>2. \A i \in 1 .. n : output[i] = first[i]
    BY <1>2, <1>3
  <2>3. \A i \in 1 .. k : output[n + i] = places[i]
    BY <1>2, <1>3
  <2>4. QED
    BY <2>1, <2>2, <2>3
<1> HIDE DEF output, n
<1>7. n = 1 - First(t)
  BY <1>3 DEF n
<1>8. Len(output) = (k + 1) - First(t)
  BY <1>1, <1>5, <1>6, <1>7
<1>9. ASSUME NEW i \in First(t) .. k PROVE output[(i - First(t)) + 1] = i
  <2>1. CASE i = 0
    <3>1. First(t) = 0 /\ n = 1 /\ (i - First(t)) + 1 = 1
      BY <1>5, <1>7, <2>1
    <3>2. output[1] = 0
      BY <1>3, <1>6, <3>1 DEF n
    <3>3. QED
      BY <2>1, <3>1, <3>2
  <2>2. CASE i # 0
    <3>1. i \in 1 .. k /\ (i - First(t)) + 1 = n + i
      BY <1>1, <1>5, <1>7, <2>2
    <3>2. QED
      BY <1>2, <1>6, <3>1
  <2>3. QED
    BY <2>1, <2>2
<1>10. QED
  BY <1>4, <1>6, <1>8, <1>9 DEF Ordered, k, t

(*****************************************************************************)
(* The translator's events, and what its client knows after each.            *)
(*****************************************************************************)

Untouched(r, q) ==
  /\ q \in ResponsesTranslators
  /\ q.started = r.started /\ q.finished = r.finished /\ q.outputIndex = r.outputIndex
  /\ q.hasText = r.hasText /\ q.inReasoning = r.inReasoning /\ q.toolCalls = r.toolCalls

\* q is r after an event of some type about an item, which is the first one if
\* the answer has a message and it is the message.
Says(r, q, t, type, item) ==
  \E e \in ResponseEvents :
    About(e, t) /\ e.type = type /\ e.item = item /\ q = RTold(r, e)

LEMMA SaysUntouched ==
  ASSUME NEW r \in ResponsesTranslators, NEW q, NEW t, NEW type, NEW item,
         Says(r, q, t, type, item)
  PROVE  Untouched(r, q)
<1>1. PICK e \in ResponseEvents : q = RTold(r, e)
  BY DEF Says
<1>2. QED
  BY <1>1, RToldIs DEF Untouched

LEMMA SaysSteady ==
  ASSUME NEW r, NEW q, NEW t \in BOOLEAN, NEW k \in Nat, NEW c \in Int,
         Tracks(r, t, k, c), NEW type \in SteadyTypes, NEW item \in Nat,
         item <= k, item > c, Says(r, q, t, type, item)
  PROVE  Tracks(q, t, k, c) /\ Untouched(r, q)
<1>1. r \in ResponsesTranslators /\ Knows(r.client, t, k, c)
  BY DEF Tracks
<1>2. PICK e \in ResponseEvents :
        About(e, t) /\ e.type = type /\ e.item = item /\ q = RTold(r, e)
  BY DEF Says
<1>3. Knows(ResponseRead(r.client, e), t, k, c)
  BY <1>1, <1>2, SteadyRead
<1>4. q \in ResponsesTranslators /\ q.client = ResponseRead(r.client, e)
  BY <1>1, <1>2, RToldIs
<1>5. QED
  BY <1>1, <1>3, <1>4, SaysUntouched DEF Tracks

LEMMA SaysAdded ==
  ASSUME NEW r, NEW q, NEW t \in BOOLEAN, NEW u \in BOOLEAN, NEW k \in Nat,
         Tracks(r, t, k, -1), NEW item \in Nat,
         \/ item = k + 1 /\ u = t
         \/ ~t /\ u /\ k = 0 /\ item = TheMessage,
         Says(r, q, u, "item_added", item)
  PROVE  Tracks(q, u, item, -1) /\ Untouched(r, q)
<1>1. r \in ResponsesTranslators /\ Knows(r.client, t, k, -1)
  BY DEF Tracks
<1>2. PICK e \in ResponseEvents :
        About(e, u) /\ e.type = "item_added" /\ e.item = item /\ q = RTold(r, e)
  BY DEF Says
<1>3. Knows(ResponseRead(r.client, e), u, e.item, -1)
  BY <1>1, <1>2, AddedRead
<1>4. q \in ResponsesTranslators /\ q.client = ResponseRead(r.client, e)
  BY <1>1, <1>2, RToldIs
<1>5. QED
  BY <1>1, <1>2, <1>3, <1>4, SaysUntouched DEF Tracks

LEMMA SaysDone ==
  ASSUME NEW r, NEW q, NEW t \in BOOLEAN, NEW k \in Nat, NEW c \in Int,
         Tracks(r, t, k, c), NEW item \in Nat, item = c + 1, item <= k,
         Says(r, q, t, "item_done", item)
  PROVE  Tracks(q, t, k, item) /\ Untouched(r, q)
<1>1. r \in ResponsesTranslators /\ Knows(r.client, t, k, c)
  BY DEF Tracks
<1>2. PICK e \in ResponseEvents :
        About(e, t) /\ e.type = "item_done" /\ e.item = item /\ q = RTold(r, e)
  BY DEF Says
<1>3. Knows(ResponseRead(r.client, e), t, k, e.item)
  BY <1>1, <1>2, DoneRead
<1>4. q \in ResponsesTranslators /\ q.client = ResponseRead(r.client, e)
  BY <1>1, <1>2, RToldIs
<1>5. QED
  BY <1>1, <1>2, <1>3, <1>4, SaysUntouched DEF Tracks

LEMMA CallSays ==
  ASSUME NEW r \in ResponsesTranslators, NEW type \in EventTypes, NEW i \in Nat \ {0},
         NEW tokens \in Seq(ArgumentTokens)
  PROVE  Says(r, TellCall(r, type, i, tokens), r.hasText, type, i)
<1> DEFINE index == (i - 1) + OutputIndexOffset(r)
           none == <<>>
           e == Full(type, index, i, 0, tokens, none)
<1>1. r.hasText \in BOOLEAN
  BY DEF ResponsesTranslators
<1>2. index = i - First(r.hasText) /\ index \in Nat /\ i >= First(r.hasText)
  <2>1. CASE r.hasText
    <3>1. OutputIndexOffset(r) = 1 /\ First(r.hasText) = 0
      BY <2>1 DEF OutputIndexOffset, First, TheMessage
    <3>2. QED
      BY <3>1
  <2>2. CASE ~r.hasText
    <3>1. OutputIndexOffset(r) = 0 /\ First(r.hasText) = 1
      BY <2>2 DEF OutputIndexOffset, First, TheMessage
    <3>2. QED
      BY <3>1
  <2>3. QED
    BY <2>1, <2>2
<1>3. none \in Seq(Nat) /\ tokens \in Seq(AllTokens)
  BY DEF AllTokens
<1>4. TellCall(r, type, i, tokens) = RTold(r, e)
  BY DEF TellCall
<1> HIDE DEF index, none
<1>5. e.index = index /\ e.item = i /\ e.type = type /\ e \in ResponseEvents
  BY <1>2, <1>3 DEF Full, ResponseEvents
<1> HIDE DEF e
<1>6. About(e, r.hasText)
  BY <1>2, <1>5 DEF About
<1>7. QED
  BY <1>4, <1>5, <1>6 DEF Says

LEMMA MessageSays ==
  ASSUME NEW r \in ResponsesTranslators, r.outputIndex = 0, NEW type \in EventTypes,
         NEW tokens \in Seq(Tokens)
  PROVE  /\ Says(r, TellPart(r, type, tokens), TRUE, type, TheMessage)
         /\ Says(r, Tell(r, type, r.outputIndex, TheMessage), TRUE, type, TheMessage)
<1> DEFINE none == <<>>
           part == r.contentIndex
           e == Full(type, 0, TheMessage, part, tokens, none)
           d == Full(type, 0, TheMessage, 0, none, none)
<1>1. /\ none \in Seq(Nat) /\ none \in Seq(AllTokens) /\ tokens \in Seq(AllTokens)
      /\ part \in Nat /\ TheMessage = 0 /\ First(TRUE) = 0
  BY DEF AllTokens, ResponsesTranslators, First, TheMessage
<1>2. /\ TellPart(r, type, tokens) = RTold(r, e)
      /\ Tell(r, type, r.outputIndex, TheMessage) = RTold(r, d)
  BY DEF TellPart, Tell
<1> HIDE DEF none, part
<1>3. /\ e.index = 0 /\ e.item = TheMessage /\ e.type = type /\ e \in ResponseEvents
      /\ d.index = 0 /\ d.item = TheMessage /\ d.type = type /\ d \in ResponseEvents
  BY <1>1 DEF Full, ResponseEvents
<1> HIDE DEF e, d
<1>4. About(e, TRUE) /\ About(d, TRUE)
  <2> DEFINE f == First(TRUE)
  <2>1. f = 0
    BY <1>1
  <2> HIDE DEF f
  <2>2. 0 = TheMessage - f /\ TheMessage >= f
    BY <1>1, <2>1
  <2>3. /\ e.index = TheMessage - f /\ e.item = TheMessage
        /\ d.index = TheMessage - f /\ d.item = TheMessage
    BY <1>3, <2>2
  <2>4. /\ e.index = e.item - f /\ e.item >= f /\ d.index = d.item - f /\ d.item >= f
    BY <2>2, <2>3
  <2>5. QED
    BY <1>3, <2>4 DEF f, About
<1>5. QED
  BY <1>2, <1>3, <1>4 DEF Says

\* The translator in an answer without reasoning, until it finishes.
Orderly(r) ==
  /\ r.outputIndex = 0 /\ ~r.inReasoning
  /\ Tracks(r, r.hasText, Len(r.toolCalls), -1)

LEMMA UntouchedOrderly ==
  ASSUME NEW r, Orderly(r), NEW q, Untouched(r, q),
         Tracks(q, r.hasText, Len(r.toolCalls), -1)
  PROVE  Orderly(q)
BY DEF Orderly, Untouched

\* Text, before any call.
LEMMA RContentOrderly ==
  ASSUME NEW r, Orderly(r), r.toolCalls = <<>>, NEW tokens \in Seq(Tokens)
  PROVE  LET q == RContent(r, tokens)
         IN /\ Orderly(q) /\ q.toolCalls = <<>>
            /\ q.started = r.started /\ q.finished = r.finished
<1> DEFINE item == Tell(r, "item_added", r.outputIndex, TheMessage)
           none == <<>>
           added == TellPart(item, "part_added", none)
           lit == [added EXCEPT !.hasText = TRUE]
           open == IF r.hasText THEN r ELSE lit
           q == RContent(r, tokens)
           Good(x) == /\ Orderly(x) /\ x.toolCalls = <<>>
                      /\ x.started = r.started /\ x.finished = r.finished
<1>1. /\ r \in ResponsesTranslators /\ r.outputIndex = 0 /\ ~r.inReasoning
      /\ r.hasText \in BOOLEAN
  BY DEF Orderly, Tracks, ResponsesTranslators
<1>2. Len(r.toolCalls) = 0
  BY EmptySeq
<1>3. /\ {"item_added", "part_added", "text_delta"} \subseteq EventTypes
      /\ {"part_added", "text_delta"} \subseteq SteadyTypes
      /\ none \in Seq(Tokens) /\ TheMessage = 0 /\ First(TRUE) = 0
  BY DEF EventTypes, SteadyTypes, First, TheMessage
<1>4. q = TellPart(open, "text_delta", tokens)
  BY <1>1 DEF RContent, AddMessage
<1> HIDE DEF q, none
<1>5. ASSUME ~r.hasText PROVE Good(lit) /\ lit.hasText
  <2>1. Tracks(r, FALSE, 0, -1)
    BY <1>1, <1>2, <1>5 DEF Orderly
  <2>2. Says(r, item, TRUE, "item_added", TheMessage)
    BY <1>1, <1>3, MessageSays
  <2> HIDE DEF item
  <2>3. Tracks(item, TRUE, 0, -1) /\ Untouched(r, item)
    <3>1. \/ TheMessage = 0 + 1 /\ TRUE = FALSE
          \/ ~FALSE /\ TRUE /\ 0 = 0 /\ TheMessage = TheMessage
      OBVIOUS
    <3>2. TheMessage \in Nat /\ TRUE \in BOOLEAN /\ FALSE \in BOOLEAN /\ 0 \in Nat
      BY <1>3
    <3>3. Tracks(item, TRUE, TheMessage, -1) /\ Untouched(r, item)
      BY <2>1, <2>2, <3>1, <3>2, SaysAdded
    <3>4. QED
      BY <1>3, <3>3
  <2>4. item \in ResponsesTranslators /\ item.outputIndex = 0
    BY <1>1, <2>3 DEF Untouched
  <2>5. Says(item, added, TRUE, "part_added", TheMessage)
    BY <1>3, <2>4, MessageSays
  <2> HIDE DEF added
  <2>6. Tracks(added, TRUE, 0, -1) /\ Untouched(item, added)
    <3>1. "part_added" \in SteadyTypes /\ TheMessage \in Nat /\ TheMessage <= 0
          /\ TheMessage > -1 /\ TRUE \in BOOLEAN /\ 0 \in Nat /\ -1 \in Int
      BY <1>3
    <3>2. QED
      BY <2>3, <2>5, <3>1, SaysSteady
  <2>7. /\ added \in ResponsesTranslators /\ added.toolCalls = <<>>
        /\ added.outputIndex = 0 /\ ~added.inReasoning
        /\ added.started = r.started /\ added.finished = r.finished
    BY <1>1, <2>3, <2>6 DEF Untouched
  <2>8. /\ lit \in ResponsesTranslators /\ lit.hasText /\ lit.client = added.client
        /\ lit.toolCalls = added.toolCalls /\ lit.outputIndex = added.outputIndex
        /\ lit.inReasoning = added.inReasoning /\ lit.started = added.started
        /\ lit.finished = added.finished
    <3> HIDE DEF CallStates, ResponseReaders
    <3>1. QED
      BY <2>7 DEF ResponsesTranslators
  <2> HIDE DEF lit
  <2>9. Len(lit.toolCalls) = 0
    BY <2>7, <2>8, EmptySeq
  <2>10. lit.hasText = TRUE
    BY <2>8 DEF ResponsesTranslators
  <2>11. Tracks(lit, lit.hasText, Len(lit.toolCalls), -1)
    BY <2>6, <2>8, <2>9, <2>10 DEF Tracks
  <2>12. QED
    BY <2>7, <2>8, <2>11 DEF Orderly
<1> HIDE DEF lit
<1>6. Good(open) /\ open.hasText
  BY <1>5
<1> HIDE DEF open
<1>7. /\ open \in ResponsesTranslators /\ open.outputIndex = 0
      /\ Tracks(open, open.hasText, Len(open.toolCalls), -1)
  BY <1>6 DEF Orderly, Tracks
<1>8. open.hasText = TRUE /\ Len(open.toolCalls) = 0
  BY <1>6, <1>7, EmptySeq DEF ResponsesTranslators
<1>9. Says(open, q, TRUE, "text_delta", TheMessage)
  BY <1>3, <1>4, <1>7, MessageSays
<1>10. Tracks(q, TRUE, 0, -1) /\ Untouched(open, q)
  <2>1. "text_delta" \in SteadyTypes /\ TheMessage \in Nat /\ TheMessage <= 0
        /\ TheMessage > -1 /\ TRUE \in BOOLEAN /\ 0 \in Nat /\ -1 \in Int
    BY <1>3
  <2>2. Tracks(open, TRUE, 0, -1)
    BY <1>7, <1>8
  <2>3. QED
    BY <1>9, <2>1, <2>2, SaysSteady
<1>11. Orderly(q)
  BY <1>6, <1>8, <1>10, UntouchedOrderly
<1>12. QED
  BY <1>6, <1>10, <1>11 DEF Untouched, q

\* Arguments of the last call.
LEMMA ArguedOrderly ==
  ASSUME NEW r, Orderly(r), NEW piece \in Seq(ArgumentTokens)
  PROVE  LET q == Argued(r, piece)
         IN /\ Orderly(q) /\ Len(q.toolCalls) = Len(r.toolCalls)
            /\ q.started = r.started /\ q.finished = r.finished
<1> DEFINE last == Len(r.toolCalls)
           q == Argued(r, piece)
           call == [r.toolCalls[last] EXCEPT !.arguments = @ \o piece]
           delta == IF call.custom THEN Unsent(call) ELSE piece
           state == IF call.custom THEN Sent(call) ELSE call
           kept == [r EXCEPT !.toolCalls[last] = state]
           states == [r.toolCalls EXCEPT ![last] = state]
<1>1. /\ r \in ResponsesTranslators /\ last \in Nat /\ r.toolCalls \in Seq(CallStates)
      /\ r.hasText \in BOOLEAN
  BY DEF Orderly, Tracks, ResponsesTranslators
<1>2. CASE piece = <<>> \/ last = 0
  <2>1. q = r
    BY <1>2 DEF Argued
  <2>2. QED
    BY <2>1 DEF q
<1>3. CASE piece # <<>> /\ last # 0
  <2>1. call \in CallStates
    <3> DEFINE old == r.toolCalls[last]
               args == old.arguments \o piece
    <3>1. old \in CallStates
      BY <1>1, <1>3
    <3>2. old.arguments \in Seq(ArgumentTokens) /\ Len(old.arguments) \in Nat
      BY <3>1 DEF CallStates
    <3>3. args \in Seq(ArgumentTokens) /\ Len(args) = Len(old.arguments) + Len(piece)
          /\ Len(piece) \in Nat
      BY <3>2
    <3>4. call = [old EXCEPT !.arguments = args]
      OBVIOUS
    <3> HIDE DEF args, old
    <3>5. old.inputEmitted \in Nat /\ old.inputEmitted <= Len(args)
      BY <3>1, <3>2, <3>3 DEF CallStates
    <3>6. [old EXCEPT !.arguments = args] \in CallStates
      BY <3>1, <3>3, <3>5 DEF CallStates
    <3>7. QED
      BY <3>4, <3>6
  <2> HIDE DEF call
  <2>2. /\ Unsent(call) \in Seq(ArgumentTokens) /\ Sent(call) \in CallStates
    BY <2>1, InputIs
  <2>3. delta \in Seq(ArgumentTokens) /\ state \in CallStates
    BY <2>1, <2>2
  <2>4. q = IF delta = <<>> THEN kept ELSE TellCall(kept, "args_delta", last, delta)
    BY <1>3 DEF Argued, call
  <2> HIDE DEF delta, state, q
  <2>5. states \in Seq(CallStates) /\ Len(states) = last
    <3> HIDE DEF CallStates
    <3>1. QED
      BY <1>1, <1>3, <2>3
  <2>6. kept = [r EXCEPT !.toolCalls = states]
    BY <1>1 DEF ResponsesTranslators
  <2> HIDE DEF states, kept
  <2>7. /\ kept \in ResponsesTranslators /\ kept.client = r.client
        /\ kept.toolCalls = states /\ kept.hasText = r.hasText
        /\ kept.outputIndex = r.outputIndex /\ kept.inReasoning = r.inReasoning
        /\ kept.started = r.started /\ kept.finished = r.finished
    <3> HIDE DEF CallStates, ResponseReaders
    <3>1. QED
      BY <1>1, <2>5, <2>6 DEF ResponsesTranslators
  <2>8. Orderly(kept) /\ Len(kept.toolCalls) = last
    BY <2>5, <2>7 DEF Orderly, Tracks
  <2>9. CASE delta = <<>>
    BY <2>4, <2>7, <2>8, <2>9 DEF q
  <2>10. CASE delta # <<>>
    <3>1. last \in Nat \ {0} /\ "args_delta" \in EventTypes /\ "args_delta" \in SteadyTypes
      BY <1>1, <1>3 DEF SteadyTypes, EventTypes
    <3>2. Says(kept, q, kept.hasText, "args_delta", last)
      BY <2>3, <2>4, <2>7, <2>10, <3>1, CallSays
    <3>3. Tracks(kept, kept.hasText, last, -1) /\ kept.hasText \in BOOLEAN
      BY <1>1, <2>7, <2>8 DEF Orderly
    <3>4. last \in Nat /\ last <= last /\ last > -1 /\ -1 \in Int
      BY <1>1
    <3> HIDE DEF last
    <3>5. Tracks(q, kept.hasText, last, -1) /\ Untouched(kept, q)
      BY <3>1, <3>2, <3>3, <3>4, SaysSteady
    <3>6. Orderly(q)
      BY <2>8, <3>5, UntouchedOrderly
    <3>7. QED
      BY <2>7, <2>8, <3>5, <3>6 DEF Untouched, last, q
  <2>11. QED
    BY <2>9, <2>10
<1>4. QED
  BY <1>2, <1>3

\* An entry of a chunk's calls.
LEMMA RToolDeltaOrderly ==
  ASSUME NEW r, Orderly(r), NEW tc \in ToolCalls
  PROVE  LET q == RToolDelta(r, tc)
         IN /\ Orderly(q)
            /\ Len(q.toolCalls) = Len(r.toolCalls) + (IF tc.new THEN 1 ELSE 0)
            /\ q.started = r.started /\ q.finished = r.finished
<1> DEFINE k == Len(r.toolCalls)
           states == Append(r.toolCalls, NewCall(tc.custom))
           added == [r EXCEPT !.toolCalls = states]
           none == <<>>
           told == TellCall(added, "item_added", Len(states), none)
           open == IF tc.new THEN told ELSE r
           q == RToolDelta(r, tc)
<1>1. tc.piece \in Seq(ArgumentTokens) /\ tc.custom \in BOOLEAN /\ tc.new \in BOOLEAN
  BY DEF ToolCalls
<1>2. /\ r \in ResponsesTranslators /\ r.toolCalls \in Seq(CallStates) /\ k \in Nat
      /\ r.hasText \in BOOLEAN
  BY DEF Orderly, Tracks, ResponsesTranslators
<1>3. NewCall(tc.custom) \in CallStates
  BY <1>1 DEF NewCall, CallStates
<1>4. states \in Seq(CallStates) /\ Len(states) = k + 1
  <2> HIDE DEF CallStates
  <2>1. QED
    BY <1>2, <1>3
<1>5. q = Argued(open, tc.piece)
  BY DEF RToolDelta
<1> HIDE DEF states, q
<1>6. /\ added \in ResponsesTranslators /\ added.client = r.client
      /\ added.toolCalls = states /\ added.hasText = r.hasText
      /\ added.outputIndex = r.outputIndex /\ added.inReasoning = r.inReasoning
      /\ added.started = r.started /\ added.finished = r.finished
  <2> HIDE DEF CallStates, ResponseReaders
  <2>1. QED
    BY <1>2, <1>4 DEF ResponsesTranslators
<1> HIDE DEF added, none
<1>7. Tracks(told, r.hasText, k + 1, -1) /\ Untouched(added, told)
  <2> DEFINE t == r.hasText
             n == k + 1
  <2>1. n \in Nat \ {0} /\ "item_added" \in EventTypes /\ none \in Seq(ArgumentTokens)
    BY <1>2 DEF EventTypes, none
  <2>2. Says(added, told, t, "item_added", n)
    BY <1>4, <1>6, <2>1, CallSays
  <2>3. Tracks(added, t, k, -1) /\ t \in BOOLEAN /\ n = k + 1
    BY <1>2, <1>6 DEF Orderly, Tracks
  <2> HIDE DEF t, n, k, told
  <2>4. Tracks(told, t, n, -1) /\ Untouched(added, told)
    BY <1>2, <2>1, <2>2, <2>3, SaysAdded
  <2>5. QED
    BY <2>4 DEF t, n
<1> HIDE DEF told
<1>8. /\ Orderly(open) /\ open.started = r.started /\ open.finished = r.finished
      /\ Len(open.toolCalls) = k + (IF tc.new THEN 1 ELSE 0)
  <2>1. CASE tc.new
    <3>1. /\ told.outputIndex = 0 /\ ~told.inReasoning /\ told.hasText = r.hasText
          /\ told.toolCalls = states /\ told.started = r.started
          /\ told.finished = r.finished
      BY <1>6, <1>7 DEF Untouched, Orderly
    <3>2. Orderly(told)
      BY <1>4, <1>7, <3>1 DEF Orderly
    <3>3. QED
      BY <1>4, <2>1, <3>1, <3>2
  <2>2. CASE ~tc.new
    BY <1>2, <2>2
  <2>3. QED
    BY <2>1, <2>2
<1> HIDE DEF open, k
<1>9. /\ Orderly(q) /\ Len(q.toolCalls) = Len(open.toolCalls)
      /\ q.started = open.started /\ q.finished = open.finished
  BY <1>1, <1>5, <1>8, ArguedOrderly
<1>10. QED
  BY <1>8, <1>9 DEF q, k

LEMMA RToolDeltasOrderly ==
  ASSUME NEW r, Orderly(r), NEW calls \in Seq(ToolCalls)
  PROVE  LET q == RToolDeltas(r, calls)
         IN /\ Orderly(q) /\ q.started = r.started /\ q.finished = r.finished
            /\ (\A i \in 1 .. Len(calls) : ~calls[i].new) =>
                 Len(q.toolCalls) = Len(r.toolCalls)
<1> DEFINE quiet == [r EXCEPT !.inReasoning = FALSE]
           told == FoldLeft(RToolDelta, quiet, calls)
           E == {calls[i] : i \in 1 .. Len(calls)}
           Like(x) == /\ Orderly(x) /\ x.started = r.started /\ x.finished = r.finished
                      /\ (\A e \in E : ~e.new) => Len(x.toolCalls) = Len(r.toolCalls)
           S == {x \in ResponsesTranslators : Like(x)}
<1>1. r \in ResponsesTranslators /\ r.inReasoning = FALSE /\ Like(r)
  BY DEF Orderly, Tracks, ResponsesTranslators
<1>2. quiet = r
  <2> HIDE DEF CallStates, ResponseReaders
  <2>1. QED
    BY <1>1 DEF ResponsesTranslators
<1>3. E \in SUBSET ToolCalls /\ calls \in Seq(E)
  <2>1. \A i \in 1 .. Len(calls) : calls[i] \in ToolCalls
    OBVIOUS
  <2>2. E \in SUBSET ToolCalls
    BY <2>1
  <2>3. \A i \in 1 .. Len(calls) : calls[i] \in E
    OBVIOUS
  <2> HIDE DEF E
  <2>4. QED
    BY <2>2, <2>3
<1>4. RToolDeltas(r, calls) = IF calls = <<>> THEN r ELSE told
  BY DEF RToolDeltas
<1>5. ASSUME NEW x \in S, NEW e \in E PROVE RToolDelta(x, e) \in S
  <2> DEFINE y == RToolDelta(x, e)
  <2>1. Like(x) /\ e \in ToolCalls
    BY <1>3
  <2> HIDE DEF E
  <2>2. /\ Orderly(y) /\ y.started = x.started /\ y.finished = x.finished
        /\ Len(y.toolCalls) = Len(x.toolCalls) + (IF e.new THEN 1 ELSE 0)
    BY <2>1, RToolDeltaOrderly
  <2>3. Len(x.toolCalls) \in Nat /\ y \in ResponsesTranslators
    BY <2>1, <2>2 DEF Orderly, Tracks, ResponsesTranslators
  <2> HIDE DEF y
  <2>4. ~e.new => Len(y.toolCalls) = Len(x.toolCalls)
    BY <2>2, <2>3
  <2>5. QED
    BY <2>1, <2>2, <2>3, <2>4 DEF y
<1>6. r \in S
  BY <1>1
<1> HIDE DEF S, quiet
<1>7. told \in S
  <2> HIDE DEF E
  <2>1. QED
    BY <1>2, <1>3, <1>5, <1>6, RToolDeltaFold
<1> HIDE DEF told
<1>8. RToolDeltas(r, calls) \in S
  BY <1>4, <1>6, <1>7
<1>9. (\A i \in 1 .. Len(calls) : ~calls[i].new) => \A e \in E : ~e.new
  OBVIOUS
<1> HIDE DEF E
<1>10. QED
  BY <1>8, <1>9 DEF S

\* A chunk's text, before any call.
LEMMA RPiecesOrderly ==
  ASSUME NEW r, Orderly(r), NEW pieces \in Seq(NormalizedPieces), OnlyText(pieces),
         pieces # <<>> => r.toolCalls = <<>>
  PROVE  LET q == FoldLeft(RPiece, r, pieces)
         IN /\ Orderly(q) /\ q.toolCalls = r.toolCalls
            /\ q.started = r.started /\ q.finished = r.finished
<1> DEFINE q == FoldLeft(RPiece, r, pieces)
<1>1. CASE pieces = <<>>
  <2>1. q = r
    BY <1>1, EmptyFolds
  <2>2. QED
    BY <2>1 DEF q
<1>2. CASE pieces # <<>>
  <2> DEFINE E == {p \in NormalizedPieces : p.kind = "content"}
             none == <<>>
             S == {x \in ResponsesTranslators :
                     /\ Orderly(x) /\ x.toolCalls = none
                     /\ x.started = r.started /\ x.finished = r.finished}
  <2>1. r \in S
    BY <1>2 DEF Orderly, Tracks
  <2>2. pieces \in Seq(E)
    <3>1. \A i \in 1 .. Len(pieces) : pieces[i] \in E
      <4> HIDE DEF NormalizedPieces
      <4>1. QED
        BY DEF OnlyText
    <3> HIDE DEF E, NormalizedPieces
    <3>2. QED
      BY <3>1
  <2>3. ASSUME NEW x \in S, NEW p \in E PROVE RPiece(x, p) \in S
    <3>1. p.tokens \in Seq(Tokens) /\ p.kind = "content"
      BY DEF NormalizedPieces
    <3>2. RPiece(x, p) = RContent(x, p.tokens)
      BY <3>1 DEF RPiece
    <3>3. QED
      BY <3>1, <3>2, RContentOrderly DEF Orderly, Tracks
  <2> HIDE DEF S, E
  <2>4. q \in S
    BY <2>1, <2>2, <2>3, RPieceFold
  <2>5. QED
    BY <1>2, <2>4 DEF S, q
<1>3. QED
  BY <1>1, <1>2

\* The finish says of a call what it has, and changes nothing else.
LEMMA CloseCallUntouched ==
  ASSUME NEW x \in ResponsesTranslators, NEW i \in DOMAIN x.toolCalls
  PROVE  Untouched(x, CloseCall(x, i))
<1> DEFINE call == x.toolCalls[i]
           none == <<>>
           rest == IF call.custom THEN Unsent(call) ELSE none
           delta == TellCall(x, "args_delta", i, rest)
           told == IF rest = none THEN x ELSE delta
           done == TellCall(told, "args_done", i, Input(call))
           y == TellCall(done, "item_done", i, none)
<1>1. CloseCall(x, i) = y
  BY DEF CloseCall
<1>2. call \in CallStates /\ i \in Nat \ {0}
  <2>1. x.toolCalls \in Seq(CallStates)
    BY DEF ResponsesTranslators
  <2> HIDE DEF CallStates
  <2>2. QED
    BY <2>1
<1> HIDE DEF call
<1>3. Input(call) \in Seq(ArgumentTokens) /\ Unsent(call) \in Seq(ArgumentTokens)
  BY <1>2, InputIs
<1>4. rest \in Seq(ArgumentTokens) /\ none \in Seq(ArgumentTokens)
  BY <1>3
<1>5. /\ "args_delta" \in EventTypes /\ "args_done" \in EventTypes
      /\ "item_done" \in EventTypes
  BY DEF EventTypes
<1> HIDE DEF rest, none
<1>6. Untouched(x, delta)
  BY <1>2, <1>4, <1>5, CallSays, SaysUntouched
<1> HIDE DEF delta
<1>7. Untouched(x, told) /\ told \in ResponsesTranslators
  BY <1>6 DEF Untouched
<1> HIDE DEF told
<1>8. Untouched(told, done) /\ done \in ResponsesTranslators
  <2>1. Untouched(told, done)
    BY <1>2, <1>3, <1>5, <1>7, CallSays, SaysUntouched
  <2>2. QED
    BY <2>1 DEF Untouched
<1> HIDE DEF done
<1>9. Untouched(done, y)
  BY <1>2, <1>4, <1>5, <1>8, CallSays, SaysUntouched
<1> HIDE DEF y
<1>10. Untouched(x, y)
  BY <1>7, <1>8, <1>9 DEF Untouched
<1>11. QED
  BY <1>1, <1>10 DEF Untouched

\* What the finish says of a call.
LEMMA CloseCallTracks ==
  ASSUME NEW r, NEW n \in Nat, NEW c \in Nat, Tracks(r, r.hasText, n, c),
         n = Len(r.toolCalls), c + 1 <= n
  PROVE  Tracks(CloseCall(r, c + 1), r.hasText, n, c + 1)
<1> DEFINE i == c + 1
           t == r.hasText
           none == <<>>
           call == r.toolCalls[i]
           rest == IF call.custom THEN Unsent(call) ELSE none
           delta == TellCall(r, "args_delta", i, rest)
           told == IF rest = none THEN r ELSE delta
           done == TellCall(told, "args_done", i, Input(call))
           q == CloseCall(r, i)
<1>1. /\ r \in ResponsesTranslators /\ r.toolCalls \in Seq(CallStates) /\ t \in BOOLEAN
      /\ i \in Nat \ {0} /\ i \in 1 .. Len(r.toolCalls) /\ i <= n /\ i > c
      /\ i \in Nat /\ c \in Int
  BY DEF Tracks, ResponsesTranslators
<1>2. call \in CallStates
  <2> HIDE DEF CallStates, i
  <2>1. QED
    BY <1>1
<1>3. q = TellCall(done, "item_done", i, none)
  BY DEF CloseCall
<1>4. i = c + 1
  OBVIOUS
<1> HIDE DEF call, q, i
<1>5. Input(call) \in Seq(ArgumentTokens) /\ Unsent(call) \in Seq(ArgumentTokens)
  BY <1>2, InputIs
<1>6. rest \in Seq(ArgumentTokens) /\ none \in Seq(ArgumentTokens)
  BY <1>5
<1>7. /\ "args_delta" \in EventTypes /\ "args_done" \in EventTypes
      /\ "item_done" \in EventTypes /\ "args_delta" \in SteadyTypes
      /\ "args_done" \in SteadyTypes
  BY DEF SteadyTypes, EventTypes
<1> HIDE DEF rest, none
<1>8. Says(r, delta, t, "args_delta", i)
  BY <1>1, <1>6, <1>7, CallSays
<1>9. Tracks(r, t, n, c)
  OBVIOUS
<1> HIDE DEF delta
<1>10. Tracks(delta, t, n, c) /\ Untouched(r, delta)
  <2> HIDE DEF t
  <2>1. QED
    BY <1>1, <1>7, <1>8, <1>9, SaysSteady
<1>11. Tracks(told, t, n, c) /\ Untouched(r, told)
  BY <1>1, <1>9, <1>10 DEF Untouched
<1> HIDE DEF told
<1>12. told \in ResponsesTranslators /\ told.hasText = t
  BY <1>11 DEF Untouched
<1>13. Says(told, done, t, "args_done", i)
  <2> HIDE DEF t
  <2>1. QED
    BY <1>1, <1>5, <1>7, <1>12, CallSays
<1> HIDE DEF done
<1>14. Tracks(done, t, n, c) /\ Untouched(told, done)
  <2> HIDE DEF t
  <2>1. QED
    BY <1>1, <1>7, <1>11, <1>13, SaysSteady
<1>15. done \in ResponsesTranslators /\ done.hasText = t
  BY <1>12, <1>14 DEF Untouched
<1>16. Says(done, q, t, "item_done", i)
  <2> HIDE DEF t
  <2>1. QED
    BY <1>1, <1>3, <1>6, <1>7, <1>15, CallSays
<1>17. Tracks(q, t, n, i) /\ Untouched(done, q)
  <2> HIDE DEF t
  <2>1. QED
    BY <1>1, <1>4, <1>14, <1>16, SaysDone
<1>18. QED
  BY <1>17 DEF q, t, i

CloseCallRuns(S, h, b, s) ==
  /\ h \in [0 .. Len(s) -> S] /\ h[0] = b /\ h[Len(s)] = FoldLeft(CloseCall, b, s)
  /\ \A i \in 1 .. Len(s) : h[i] = CloseCall(h[i - 1], s[i])

LEMMA CloseCallRunsAre ==
  ASSUME NEW S, NEW E, NEW b \in S, NEW s \in Seq(E),
         \A x \in S, e \in E : CloseCall(x, e) \in S
  PROVE  \E h : CloseCallRuns(S, h, b, s)
<1> DEFINE n == Len(s)
           F == [p \in S \X (1 .. n) |-> CloseCall(p[1], s[p[2]])]
           G(it) == it = [T \in SUBSET (1 .. n) |->
                            IF T = {} THEN b ELSE CloseCall(it[T \ {Max(T)}], s[Max(T)])]
           c == CHOOSE it : G(it)
           h == [i \in 0 .. n |-> c[1 .. i]]
<1>1. n \in Nat /\ DOMAIN s = 1 .. n /\ \A i \in 1 .. n : s[i] \in E
  OBVIOUS
<1>2. F \in [S \X (1 .. n) -> S]
  BY <1>1
<1>3. \A x \in S, i \in 1 .. n : F[<<x, i>>] = CloseCall(x, s[i])
  OBVIOUS
<1> HIDE DEF F
<1>4. PICK it \in [SUBSET (1 .. n) -> S] : FoldOf(it, F, b, n)
  BY <1>1, <1>2, FoldExists
<1>5. ASSUME NEW T \in SUBSET (1 .. n)
      PROVE  it[T] = IF T = {} THEN b ELSE CloseCall(it[T \ {Max(T)}], s[Max(T)])
  <2>1. T # {} => Max(T) \in T
    BY <1>1, LastOf
  <2>2. QED
    BY <1>3, <1>4, <2>1 DEF FoldOf
<1>6. G(c)
  BY <1>5
<1>7. FoldLeft(CloseCall, b, s) = c[1 .. n]
  BY <1>1 DEF FoldLeft, MapThenFoldSet
<1> HIDE DEF c
<1>8. ASSUME NEW k \in 1 .. n PROVE c[1 .. k] = CloseCall(c[1 .. (k - 1)], s[k])
  <2>1. Max(1 .. k) = k /\ (1 .. k) \ {k} = 1 .. (k - 1) /\ 1 .. k # {}
    BY <1>1, LastPlace
  <2>2. 1 .. k \in SUBSET (1 .. n)
    BY <1>1
  <2>3. QED
    BY <1>6, <2>1, <2>2
<1>9. c[{}] = b
  BY <1>6
<1>10. ASSUME NEW m \in 0 .. n PROVE c[1 .. m] \in S
  <2>1. \A k \in 1 .. m : c[1 .. (k - 1)] \in S => c[1 .. k] \in S
    BY <1>1, <1>8
  <2>2. QED
    BY <1>1, <1>9, <2>1, FoldKeeps
<1>11. 1 .. 0 = {} /\ 0 \in 0 .. n /\ n \in 0 .. n
  BY <1>1
<1>12. \A k \in 1 .. n : k \in 0 .. n /\ k - 1 \in 0 .. n
  BY <1>1
<1> HIDE DEF n
<1>13. h \in [0 .. n -> S] /\ h[0] = b /\ h[n] = FoldLeft(CloseCall, b, s)
  BY <1>7, <1>9, <1>10, <1>11
<1>14. \A k \in 1 .. n : h[k] = CloseCall(h[k - 1], s[k])
  BY <1>8, <1>12
<1> HIDE DEF h
<1>15. QED
  BY <1>13, <1>14 DEF n, CloseCallRuns

\* One call after the other.
LEMMA CallsClosed ==
  ASSUME NEW r, NEW n \in Nat, Tracks(r, r.hasText, n, 0), n = Len(r.toolCalls)
  PROVE  LET q == FoldLeft(CloseCall, r, [i \in DOMAIN r.toolCalls |-> i])
         IN Tracks(q, r.hasText, n, n) /\ Untouched(r, q)
<1> DEFINE places == [i \in DOMAIN r.toolCalls |-> i]
           q == FoldLeft(CloseCall, r, places)
           E == 1 .. n
           S == {x \in ResponsesTranslators : Untouched(r, x)}
           t == r.hasText
           Closed(x, i) == Tracks(x, t, n, i)
<1>1. r \in S /\ DOMAIN r.toolCalls = 1 .. n
  BY DEF Tracks, Untouched, ResponsesTranslators
<1>2. places \in Seq(E) /\ Len(places) = n /\ \A i \in 1 .. n : places[i] = i
  BY <1>1
<1>3. \A x \in S, i \in E : CloseCall(x, i) \in S
  <2>1. ASSUME NEW x \in S, NEW i \in E PROVE CloseCall(x, i) \in S
    <3>1. x \in ResponsesTranslators /\ i \in DOMAIN x.toolCalls
      BY <1>1 DEF Untouched
    <3>2. Untouched(x, CloseCall(x, i))
      BY <3>1, CloseCallUntouched
    <3>3. QED
      BY <3>2 DEF Untouched
  <2>2. QED
    BY <2>1
<1>4. Closed(r, 0)
  OBVIOUS
<1>5. \A x \in S, c \in 0 .. n : c + 1 <= n /\ Closed(x, c) => Closed(CloseCall(x, c + 1), c + 1)
  <2>1. ASSUME NEW x \in S, NEW c \in 0 .. n, c + 1 <= n, Closed(x, c)
        PROVE  Closed(CloseCall(x, c + 1), c + 1)
    <3>1. x.hasText = t /\ n = Len(x.toolCalls)
      BY DEF Untouched
    <3> HIDE DEF t
    <3>2. Tracks(x, x.hasText, n, c) /\ c \in Nat
      BY <2>1, <3>1
    <3>3. Tracks(CloseCall(x, c + 1), x.hasText, n, c + 1)
      BY <2>1, <3>1, <3>2, CloseCallTracks
    <3>4. QED
      BY <3>1, <3>3
  <2>2. QED
    BY <2>1
<1> HIDE DEF S, E, Closed, places
<1>6. PICK h : CloseCallRuns(S, h, r, places)
  BY <1>1, <1>2, <1>3, CloseCallRunsAre
<1>7. /\ h \in [0 .. n -> S] /\ h[0] = r /\ h[n] = q
      /\ \A i \in 1 .. n : h[i] = CloseCall(h[i - 1], places[i])
  BY <1>2, <1>6 DEF CloseCallRuns
<1> DEFINE U == {i \in Nat : i <= n => Closed(h[i], i)}
<1>8. 0 \in U
  BY <1>4, <1>7
<1>9. ASSUME NEW i \in U PROVE i + 1 \in U
  <2> SUFFICES ASSUME i + 1 <= n PROVE Closed(h[i + 1], i + 1)
    OBVIOUS
  <2>1. i + 1 \in 1 .. n /\ (i + 1) - 1 = i /\ i <= n /\ i \in 0 .. n
    OBVIOUS
  <2>2. h[i + 1] = CloseCall(h[i], i + 1)
    BY <1>2, <1>7, <2>1
  <2>3. h[i] \in S /\ Closed(h[i], i)
    BY <1>7, <2>1
  <2>4. QED
    BY <1>5, <2>1, <2>2, <2>3
<1>10. U = Nat
  <2> HIDE DEF U
  <2>1. U \in SUBSET Nat
    BY DEF U
  <2>2. QED
    BY <1>8, <1>9, <2>1, NumbersByInduction
<1>11. n \in 0 .. n /\ n \in U
  BY <1>10
<1>12. q \in S /\ Closed(q, n)
  BY <1>7, <1>11
<1>13. QED
  BY <1>12 DEF S, Closed, places

\* The finish leaves a client that can follow.
LEMMA RFinishTracks ==
  ASSUME NEW r, Orderly(r)
  PROVE  ~RFinish(r).client.confused
<1> DEFINE n == Len(r.toolCalls)
           t == r.hasText
           none == <<>>
           t1 == TellPart(r, "text_done", none)
           t2 == TellPart(t1, "part_done", none)
           t3 == Tell(t2, "item_done", t2.outputIndex, TheMessage)
           one == t3.outputIndex + 1
           moved == [t3 EXCEPT !.outputIndex = one]
           texted == IF t THEN moved ELSE r
           called == FoldLeft(CloseCall, texted, [i \in DOMAIN r.toolCalls |-> i])
           output == BuildOutput(r)
           e == Full("completed", 0, TheMessage, 0, none, output)
           told == RTold(called, e)
           q == [told EXCEPT !.finished = TRUE]
<1>1. /\ r \in ResponsesTranslators /\ r.outputIndex = 0 /\ ~r.inReasoning
      /\ t \in BOOLEAN /\ n \in Nat /\ Tracks(r, t, n, -1)
  BY DEF Orderly, Tracks, ResponsesTranslators
<1>2. /\ "text_done" \in EventTypes /\ "part_done" \in EventTypes
      /\ "item_done" \in EventTypes /\ "completed" \in EventTypes
      /\ "text_done" \in SteadyTypes /\ "part_done" \in SteadyTypes
      /\ none \in Seq(Tokens) /\ none \in Seq(AllTokens)
      /\ TheMessage = 0 /\ First(TRUE) = 0 /\ First(FALSE) = 1
  BY DEF SteadyTypes, EventTypes, First, TheMessage
<1>3. Ordered(output, t, n)
  BY <1>1, BuildOutputIs
<1> HIDE DEF none, output
<1>4. ASSUME t
      PROVE  /\ Tracks(moved, t, n, 0) /\ moved.toolCalls = r.toolCalls
             /\ moved.hasText = t /\ t2.outputIndex = r.outputIndex
  <2>1. t = TRUE
    BY <1>1, <1>4
  <2>2. /\ TheMessage \in Nat /\ TheMessage <= n /\ TheMessage > -1 /\ TRUE \in BOOLEAN
        /\ -1 \in Int /\ TheMessage = -1 + 1
    BY <1>1, <1>2
  <2>3. Says(r, t1, TRUE, "text_done", TheMessage)
    BY <1>1, <1>2, MessageSays
  <2>4. Tracks(r, TRUE, n, -1)
    BY <1>1, <2>1
  <2> HIDE DEF n, t1
  <2>5. Tracks(t1, TRUE, n, -1) /\ Untouched(r, t1)
    BY <1>1, <1>2, <2>2, <2>3, <2>4, SaysSteady
  <2>6. t1 \in ResponsesTranslators /\ t1.outputIndex = 0
    BY <1>1, <2>5 DEF Untouched
  <2>7. Says(t1, t2, TRUE, "part_done", TheMessage)
    BY <1>2, <2>6, MessageSays
  <2> HIDE DEF t2
  <2>8. Tracks(t2, TRUE, n, -1) /\ Untouched(t1, t2)
    BY <1>1, <1>2, <2>2, <2>5, <2>7, SaysSteady
  <2>9. t2 \in ResponsesTranslators /\ t2.outputIndex = 0
    BY <2>6, <2>8 DEF Untouched
  <2>10. Says(t2, t3, TRUE, "item_done", TheMessage)
    BY <1>2, <2>9, MessageSays
  <2> HIDE DEF t3
  <2>11. Tracks(t3, TRUE, n, TheMessage) /\ Untouched(t2, t3)
    BY <1>1, <2>2, <2>8, <2>10, SaysDone
  <2>12. /\ t3 \in ResponsesTranslators /\ t3.outputIndex = 0 /\ t3.hasText = t
         /\ t3.toolCalls = r.toolCalls
    BY <2>5, <2>8, <2>9, <2>11 DEF Untouched
  <2>13. one \in 0 .. 1
    BY <2>12
  <2> HIDE DEF one
  <2>14. /\ moved \in ResponsesTranslators /\ moved.client = t3.client
         /\ moved.hasText = t /\ moved.toolCalls = r.toolCalls
    <3> HIDE DEF CallStates, ResponseReaders
    <3>1. QED
      BY <2>12, <2>13 DEF ResponsesTranslators
  <2> HIDE DEF moved
  <2>15. Tracks(moved, t, n, 0)
    BY <1>2, <2>1, <2>11, <2>14 DEF Tracks
  <2>16. QED
    BY <1>1, <2>9, <2>14, <2>15
<1>5. ASSUME ~t PROVE Tracks(r, t, n, 0)
  <2>1. t = FALSE
    BY <1>1, <1>5
  <2>2. Listed(FALSE, n, -1) = Listed(FALSE, n, 0)
    <3>1. \A i \in 1 .. n : (i > -1) = (i > 0)
      OBVIOUS
    <3> HIDE DEF n
    <3>2. QED
      BY <1>2, <3>1 DEF Listed
  <2>3. QED
    BY <1>1, <2>1, <2>2 DEF Tracks, Knows
<1>6. RFinish(r) = q
  <2>1. RFinish(r) =
          LET u == IF t THEN [Tell(t2, "item_done", r.outputIndex, TheMessage)
                                EXCEPT !.outputIndex = @ + 1]
                   ELSE r
              c == FoldLeft(CloseCall, u, [i \in DOMAIN r.toolCalls |-> i])
          IN [RTold(c, e) EXCEPT !.finished = TRUE]
    BY <1>1 DEF RFinish, none, output
  <2>2. t => t2.outputIndex = r.outputIndex
    BY <1>4
  <2>3. CASE t
    BY <2>1, <2>2, <2>3
  <2>4. CASE ~t
    BY <2>1, <2>4
  <2>5. QED
    BY <2>3, <2>4
<1> HIDE DEF moved
<1>7. /\ Tracks(texted, t, n, 0) /\ texted.toolCalls = r.toolCalls /\ texted.hasText = t
  BY <1>4, <1>5
<1> HIDE DEF texted
<1>8. Tracks(called, t, n, n)
  <2>1. n = Len(texted.toolCalls) /\ Tracks(texted, texted.hasText, n, 0)
    BY <1>7
  <2>2. called = FoldLeft(CloseCall, texted, [i \in DOMAIN texted.toolCalls |-> i])
    BY <1>7
  <2> HIDE DEF called, n
  <2>3. Tracks(called, texted.hasText, n, n)
    BY <1>1, <2>1, <2>2, CallsClosed
  <2>4. QED
    BY <1>7, <2>3
<1> HIDE DEF called
<1>9. called \in ResponsesTranslators /\ Knows(called.client, t, n, n)
  BY <1>8 DEF Tracks
<1>10. e \in ResponseEvents /\ e.type = "completed" /\ e.output = output
  BY <1>2, <1>3 DEF Full, ResponseEvents, Ordered
<1> HIDE DEF e
<1>11. ~ResponseRead(called.client, e).confused
  <2> HIDE DEF t, n
  <2>1. QED
    BY <1>1, <1>3, <1>9, <1>10, CompletedRead
<1>12. told \in ResponsesTranslators /\ told.client = ResponseRead(called.client, e)
  BY <1>9, <1>10, RToldIs
<1> HIDE DEF told
<1>13. q.client = told.client
  <2> HIDE DEF CallStates, ResponseReaders
  <2>1. QED
    BY <1>12 DEF ResponsesTranslators
<1>14. QED
  BY <1>6, <1>11, <1>12, <1>13

\* The translator between two chunks, before the finish.
Ready(r) ==
  /\ r \in ResponsesTranslators
  /\ IF r.started THEN Orderly(r)
     ELSE /\ r.outputIndex = 0 /\ ~r.inReasoning /\ ~r.hasText /\ r.toolCalls = <<>>
          /\ r.client.at = "none" /\ r.client.items = {} /\ ~r.client.confused

LEMMA CreatedOrderly ==
  ASSUME NEW r, Ready(r), ~r.started
  PROVE  LET q == Tell([r EXCEPT !.started = TRUE], "created", 0, TheMessage)
         IN /\ Orderly(q) /\ q.toolCalls = r.toolCalls
            /\ q.started /\ q.finished = r.finished
<1> DEFINE lit == [r EXCEPT !.started = TRUE]
           none == <<>>
           e == Full("created", 0, TheMessage, 0, none, none)
           q == RTold(lit, e)
           m == lit.client
           x == ResponseRead(m, e)
<1>1. /\ r \in ResponsesTranslators /\ r.outputIndex = 0 /\ ~r.inReasoning /\ ~r.hasText
      /\ r.toolCalls = <<>> /\ r.client.at = "none" /\ r.client.items = {}
      /\ ~r.client.confused
  BY DEF Ready
<1>2. /\ lit \in ResponsesTranslators /\ lit.started /\ lit.client = r.client
      /\ lit.finished = r.finished /\ lit.outputIndex = 0 /\ ~lit.inReasoning
      /\ ~lit.hasText /\ lit.toolCalls = r.toolCalls
  <2> HIDE DEF CallStates, ResponseReaders
  <2>1. QED
    BY <1>1 DEF ResponsesTranslators
<1>3. e \in ResponseEvents /\ e.type = "created"
  <2>1. none \in Seq(Nat) /\ none \in Seq(AllTokens) /\ TheMessage \in Nat
        /\ "created" \in EventTypes
    BY DEF TheMessage, EventTypes
  <2> HIDE DEF none
  <2>2. QED
    BY <2>1 DEF Full, ResponseEvents
<1>4. Tell(lit, "created", 0, TheMessage) = q
  BY DEF Tell
<1> HIDE DEF e, lit
<1>5. /\ q \in ResponsesTranslators /\ q.client = x /\ q.started /\ q.finished = r.finished
      /\ q.outputIndex = 0 /\ ~q.inReasoning /\ ~q.hasText /\ q.toolCalls = <<>>
  BY <1>1, <1>2, <1>3, RToldIs
<1>6. m.at = "none" /\ m.items = {} /\ ~m.confused /\ m \in ResponseReaders
  BY <1>1, <1>2 DEF ResponsesTranslators
<1> HIDE DEF m
<1>7. x.at = "open" /\ x.items = {} /\ x.confused = (m.confused \/ ~RMakesSense(m, e))
  BY <1>3, <1>6 DEF ResponseRead
<1>8. RMakesSense(m, e) /\ x \in ResponseReaders
  BY <1>3, <1>6, ResponseReadType DEF RMakesSense
<1> HIDE DEF q, x
<1>9. q.hasText = FALSE /\ Len(q.toolCalls) = 0
  BY <1>5, EmptySeq DEF ResponsesTranslators
<1>10. Listed(FALSE, 0, -1) = {}
  <2>1. First(FALSE) = 1 /\ 1 .. 0 = {}
    BY DEF First, TheMessage
  <2>2. QED
    BY <2>1 DEF Listed
<1>11. Knows(x, FALSE, 0, -1)
  BY <1>6, <1>7, <1>8, <1>10 DEF Knows
<1>12. Orderly(q)
  BY <1>5, <1>9, <1>11 DEF Orderly, Tracks
<1>13. QED
  BY <1>1, <1>4, <1>5, <1>12 DEF lit

\* A chunk of an answer without reasoning.
LEMMA ResponsesChunkFollows ==
  ASSUME NEW r, Ready(r), NEW pieces \in Seq(NormalizedPieces), OnlyText(pieces),
         pieces # <<>> => r.toolCalls = <<>>, NEW calls \in Seq(ToolCalls),
         NEW finish \in BOOLEAN, ~r.finished
  PROVE  LET q == ResponsesChunk(r, pieces, calls, finish)
         IN /\ ~q.client.confused
            /\ ~q.finished =>
                 /\ q.started /\ Orderly(q)
                 /\ (\A i \in 1 .. Len(calls) : ~calls[i].new) =>
                      Len(q.toolCalls) = Len(r.toolCalls)
<1> DEFINE created == Tell([r EXCEPT !.started = TRUE], "created", 0, TheMessage)
           begun == IF r.started THEN r ELSE created
           said == FoldLeft(RPiece, begun, pieces)
           told == RToolDeltas(said, calls)
           q == ResponsesChunk(r, pieces, calls, finish)
<1>1. q = IF finish /\ ~told.finished THEN RFinish(told) ELSE told
  BY DEF ResponsesChunk
<1>2. ASSUME ~r.started
      PROVE  Orderly(created) /\ created.toolCalls = r.toolCalls /\ created.started
             /\ created.finished = r.finished
  BY <1>2, CreatedOrderly
<1> HIDE DEF created
<1>3. /\ Orderly(begun) /\ begun.toolCalls = r.toolCalls /\ begun.started
      /\ begun.finished = r.finished
  BY <1>2 DEF Ready
<1> HIDE DEF begun
<1>4. /\ Orderly(said) /\ said.toolCalls = r.toolCalls /\ said.started
      /\ said.finished = r.finished
  BY <1>3, RPiecesOrderly
<1> HIDE DEF said
<1>5. /\ Orderly(told) /\ told.started /\ told.finished = r.finished
      /\ (\A i \in 1 .. Len(calls) : ~calls[i].new) =>
           Len(told.toolCalls) = Len(r.toolCalls)
  BY <1>4, RToolDeltasOrderly
<1> HIDE DEF told, q
<1>6. CASE finish
  <2>1. q = RFinish(told)
    BY <1>1, <1>5, <1>6
  <2>2. told \in ResponsesTranslators /\ told.outputIndex = 0
    BY <1>5 DEF Orderly, Tracks
  <2>3. q.finished
    BY <2>1, <2>2, RFinishIs
  <2>4. ~q.client.confused
    BY <1>5, <2>1, RFinishTracks
  <2>5. QED
    BY <2>3, <2>4 DEF q
<1>7. CASE ~finish
  <2>1. q = told
    BY <1>1, <1>7
  <2>2. ~q.client.confused
    BY <1>5, <2>1 DEF Orderly, Tracks, Knows
  <2>3. QED
    BY <1>5, <2>1, <2>2 DEF q
<1>8. QED
  BY <1>6, <1>7

\* After the finish nothing is said, if nothing comes.
LEMMA ResponsesChunkSilent ==
  ASSUME NEW r, r.finished, r.started, NEW finish \in BOOLEAN
  PROVE  ResponsesChunk(r, <<>>, <<>>, finish) = r
<1>1. FoldLeft(RPiece, r, <<>>) = r
  BY EmptyFolds
<1>2. RToolDeltas(r, <<>>) = r
  BY DEF RToolDeltas
<1>3. QED
  BY <1>1, <1>2 DEF ResponsesChunk

LEMMA ResponsesFlushFollows ==
  ASSUME NEW r, ~r.client.confused, ~r.finished => Orderly(r)
  PROVE  ~ResponsesFlush(r, <<>>).client.confused
<1>1. FoldLeft(RPiece, r, <<>>) = r
  BY EmptyFolds
<1>2. ResponsesFlush(r, <<>>) = IF r.finished THEN r ELSE RFinish(r)
  BY <1>1 DEF ResponsesFlush
<1>3. QED
  BY <1>2, RFinishTracks

-----------------------------------------------------------------------------
(*****************************************************************************)
(* The third invariant: an answer without reasoning.                         *)
(*****************************************************************************)

\* No reasoning so far, of either kind.
Bare == ~sent.field /\ ~sent.tags

\* What the normalizer holds back then, it does not take for a thought.
BareTold ==
  Bare => place \in {"text", "opening"} /\ Untagged(normalizer) /\ normalizer.out = <<>>

\* The client can follow, and what it knows of fits the translator's calls;
\* there is none of these before the backend's first.
BareFollows ==
  Bare /\ odd \cap {"late", "empty"} = {} =>
    /\ ~response.confused
    /\ ~responses.finished =>
         Ready(responses) /\ (sent.calls = <<>> => responses.toolCalls = <<>>)

BareInv == BareTold /\ BareFollows

LEMMA BareAtFirst == Init => BareInv
<1> SUFFICES ASSUME Init PROVE BareInv
  OBVIOUS
<1> DEFINE none == <<>>
<1>1. StreamsInv
  BY InitHolds
<1>2. responses \in ResponsesTranslators /\ normalizer \in Normalizers
  BY <1>1 DEF StreamsInv, Typed
<1>3. /\ normalizer.out = none /\ normalizer.openTagBuffer = none
      /\ normalizer.remaining = none /\ ~normalizer.inThinkTag
  BY DEF Init, NewStreamNormalizer
<1>4. OnlyText(none) /\ Tagless(none)
  BY DEF OnlyText, Tagless
<1>5. BareTold
  <2>1. place \in {"text", "opening"}
    BY DEF Init
  <2>2. Untagged(normalizer)
    BY <1>2, <1>3, <1>4 DEF Untagged
  <2>3. QED
    BY <1>3, <2>1, <2>2 DEF BareTold
<1>6. /\ responses.outputIndex = 0 /\ ~responses.inReasoning /\ ~responses.hasText
      /\ responses.toolCalls = <<>> /\ ~responses.started
      /\ responses.client = NewResponseReader
  BY DEF Init, NewResponses
<1>7. /\ responses.client.at = "none" /\ responses.client.items = {}
      /\ ~responses.client.confused
  BY <1>6 DEF NewResponseReader
<1>8. BareFollows
  BY <1>2, <1>6, <1>7 DEF BareFollows, Ready, response
<1>9. QED
  BY <1>5, <1>8 DEF BareInv

\* A chunk that leads through no thought has no opening tag, nor half of one
\* that another half came before.
LEMMA BareContent ==
  ASSUME NEW p \in {"text", "opening"}, NEW s \in Seq(Tokens), NEW g, Passes(g, p, s),
         \A i \in 0 .. Len(s) : g[i] # "thought"
  PROVE  /\ g[Len(s)] \in {"text", "opening"}
         /\ \A i \in 1 .. Len(s) : s[i] \notin {"open", "open2"}
<1> DEFINE n == Len(s)
<1>1. /\ n \in Nat /\ g \in [0 .. n -> ModelPlaces] /\ g[0] = p
      /\ \A i \in 1 .. n : <<g[i - 1], s[i], g[i]>> \in Moves
  BY DEF Passes
<1>2. \A i \in 1 .. n : i \in 0 .. n /\ i - 1 \in 0 .. n
  BY <1>1
<1>3. \A x, y, z : <<x, y, z>> \in Moves /\ x # "thought" /\ z # "thought" =>
        y \notin {"open", "open2"} /\ (x \in ModelPlaces => z # "closing")
  BY DEF Moves
<1>4. ASSUME NEW i \in 1 .. n
      PROVE  s[i] \notin {"open", "open2"} /\ g[i] # "closing"
  BY <1>1, <1>2, <1>3
<1>5. g[n] \in {"text", "opening"}
  <2>1. CASE n = 0
    BY <1>1, <2>1
  <2>2. CASE n # 0
    <3>1. n \in 1 .. n /\ n \in 0 .. n
      BY <1>1, <2>2
    <3>2. g[n] \in ModelPlaces /\ g[n] # "thought" /\ g[n] # "closing"
      BY <1>1, <1>4, <3>1
    <3>3. QED
      BY <3>2 DEF ModelPlaces
  <2>3. QED
    BY <2>1, <2>2
<1>6. QED
  BY <1>4, <1>5

LEMMA ReceiveKeepsBare == StreamsInv /\ BareInv /\ Receive => BareInv'
<1> SUFFICES ASSUME StreamsInv, BareInv, Receive, Bare' PROVE BareInv'
  BY DEF BareInv, BareTold, BareFollows
<1>1. PICK chunk \in Chunks(place, sent.inputs) :
        LET path == Path(place, chunk.content)
            n == Normalized(normalizer, chunk.content, chunk.reasoning)
        IN /\ place' = Last(path)
           /\ Written(chunk, path)
           /\ odd' = odd \cup Oddities(chunk, path)
           /\ normalizer' = [n EXCEPT !.out = <<>>]
           /\ responses' = ResponsesChunk(responses, n.out, chunk.toolCalls, chunk.finish)
  BY DEF Receive
<1> DEFINE content == chunk.content
           reasoning == chunk.reasoning
           calls == chunk.toolCalls
           finish == chunk.finish
           path == Path(place, content)
           n == Normalized(normalizer, content, reasoning)
           pieces == n.out
           found == Oddities(chunk, path)
           r == responses
           q == responses'
<1>2. /\ ~ended /\ place' = Last(path) /\ odd' = odd \cup found
      /\ Written(chunk, path)
      /\ normalizer' = [n EXCEPT !.out = <<>>]
      /\ q = ResponsesChunk(r, pieces, calls, finish)
  BY <1>1 DEF Receive
<1>3. Typed /\ Ends /\ Placed /\ Follows
  BY DEF StreamsInv
<1>4. /\ place \in ModelPlaces /\ sent \in Sents /\ DOMAIN sent.inputs = DOMAIN sent.calls
      /\ normalizer \in Normalizers /\ Buffered(normalizer) /\ normalizer.remaining = <<>>
      /\ r \in ResponsesTranslators /\ anthropic \in Translators
      /\ anthropic.started = r.started /\ anthropic.finished = r.finished
  BY <1>3 DEF Typed
<1>5. sent.inputs \in Seq(CallStates)
  BY <1>4 DEF Sents
<1>6. /\ content \in Seq(Tokens) /\ OneChunk(content) /\ "nowhere" \notin ToSet(path)
      /\ reasoning \in Seq(Tokens) /\ calls \in Seq(ToolCalls) /\ Len(calls) <= 1
      /\ finish \in BOOLEAN
  BY <1>4, <1>5, ChunkIs
<1>7. PICK g : /\ Passes(g, place, content) /\ Last(path) = g[Len(content)]
               /\ \A i \in 0 .. Len(content) : g[i] \in ToSet(path)
  BY <1>4, <1>6, PathIs
<1>8. /\ sent'.field = (sent.field \/ reasoning # <<>>)
      /\ sent'.tags = (sent.tags \/ "thought" \in ToSet(path))
      /\ sent'.calls = FoldLeft(Called, sent.calls, calls)
      /\ sent'.inputs = FoldLeft(Argument, sent.inputs, calls)
  BY <1>2 DEF Written
<1>9. Bare /\ reasoning = <<>> /\ "thought" \notin ToSet(path)
  BY <1>8 DEF Bare
<1>10. /\ "late" \notin found /\ content # <<>> => sent.calls = <<>> /\ ~anthropic.finished
       /\ "late" \notin found /\ calls # <<>> => ~anthropic.finished
  BY <1>6, OdditiesAre
<1> HIDE DEF path, found
<1>11. place \in {"text", "opening"} /\ Untagged(normalizer) /\ normalizer.out = <<>>
  BY <1>9 DEF BareInv, BareTold
<1>12. /\ place' \in {"text", "opening"}
       /\ \A i \in 1 .. Len(content) : content[i] \notin {"open", "open2"}
  <2>1. \A i \in 0 .. Len(content) : g[i] # "thought"
    BY <1>7, <1>9
  <2> HIDE DEF content
  <2>2. QED
    BY <1>2, <1>6, <1>7, <1>11, <2>1, BareContent
<1>13. Untagged(n) /\ n \in Normalizers
  <2>1. n = Normalized(normalizer, content, <<>>)
    BY <1>9
  <2> HIDE DEF n, content
  <2>2. QED
    BY <1>4, <1>6, <1>11, <1>12, <2>1, NormalizedUntagged DEF Untagged
<1>14. content = <<>> => pieces = <<>>
  <2> HIDE DEF content, reasoning
  <2>1. QED
    BY <1>4, <1>6, <1>9, NormalizedIs
<1> HIDE DEF n
<1>15. OnlyText(pieces) /\ pieces \in Seq(NormalizedPieces)
  BY <1>13 DEF Untagged, Normalizers
<1>16. BareTold'
  <2>1. /\ normalizer' \in Normalizers /\ normalizer'.out = <<>>
        /\ normalizer'.inThinkTag = n.inThinkTag
        /\ normalizer'.openTagBuffer = n.openTagBuffer
        /\ normalizer'.remaining = n.remaining
    BY <1>2, <1>13, NormalizerOut
  <2>2. OnlyText(normalizer'.out)
    BY <2>1 DEF OnlyText
  <2>3. Untagged(normalizer')
    BY <1>13, <2>1, <2>2 DEF Untagged
  <2>4. QED
    BY <1>12, <2>1, <2>3 DEF BareTold
<1>17. ASSUME odd' \cap {"late", "empty"} = {}
       PROVE  /\ ~q.client.confused
              /\ ~q.finished => Ready(q) /\ (sent'.calls = <<>> => q.toolCalls = <<>>)
  <2>1. odd \cap {"late", "empty"} = {} /\ "late" \notin found
    BY <1>2, <1>17
  <2>2. /\ ~r.client.confused
        /\ ~r.finished => Ready(r) /\ (sent.calls = <<>> => r.toolCalls = <<>>)
    BY <1>9, <2>1 DEF BareInv, BareFollows, response
  <2>3. /\ content # <<>> => sent.calls = <<>> /\ ~r.finished
        /\ calls # <<>> => ~r.finished
    BY <1>4, <1>10, <2>1
  <2>4. CASE r.finished
    <3>1. content = <<>> /\ calls = <<>> /\ pieces = <<>>
      BY <1>14, <2>3, <2>4
    <3>2. r.started
      <4>1. ~anthropic.started => anthropic \in Fresh
        BY <1>2, <1>3 DEF Follows
      <4>2. anthropic.finished
        BY <1>4, <2>4
      <4>3. anthropic.started
        BY <4>1, <4>2 DEF Fresh
      <4>4. QED
        BY <1>4, <4>3
    <3>3. q = ResponsesChunk(r, <<>>, <<>>, finish)
      BY <1>2, <3>1
    <3> HIDE DEF q
    <3>4. q = r
      BY <1>6, <2>4, <3>2, <3>3, ResponsesChunkSilent
    <3>5. QED
      BY <2>2, <2>4, <3>4
  <2>5. CASE ~r.finished
    <3>1. Ready(r) /\ (pieces # <<>> => r.toolCalls = <<>>)
      BY <1>14, <2>2, <2>3, <2>5
    <3> HIDE DEF q, pieces, calls, finish
    <3>2. /\ ~q.client.confused
          /\ ~q.finished =>
               /\ q.started /\ Orderly(q)
               /\ (\A i \in 1 .. Len(calls) : ~calls[i].new) =>
                    Len(q.toolCalls) = Len(r.toolCalls)
      BY <1>2, <1>6, <1>15, <2>5, <3>1, ResponsesChunkFollows
    <3>3. ASSUME ~q.finished, sent'.calls = <<>> PROVE q.toolCalls = <<>>
      <4>1. /\ calls = <<>> => sent'.calls = sent.calls
            /\ calls # <<>> /\ (sent.calls # <<>> \/ \A i \in DOMAIN calls : calls[i].new)
                 => sent'.calls # <<>>
        BY <1>4, <1>6, <1>8, SentKept
      <4>2. sent.calls = <<>> /\ (calls # <<>> => \E i \in DOMAIN calls : ~calls[i].new)
        BY <3>3, <4>1
      <4>3. \A i \in 1 .. Len(calls) : ~calls[i].new
        <5> DEFINE k == Len(calls)
        <5>1. DOMAIN calls = 1 .. k /\ k \in Nat /\ k <= 1 /\ (calls = <<>> => k = 0)
          BY <1>6
        <5> HIDE DEF k
        <5>2. \A i, j \in 1 .. k : i = j
          BY <5>1
        <5>3. CASE calls = <<>>
          <6>1. 1 .. k = {}
            BY <5>1, <5>3
          <6>2. QED
            BY <6>1 DEF k
        <5>4. CASE calls # <<>>
          BY <4>2, <5>1, <5>2, <5>4 DEF k
        <5>5. QED
          BY <5>3, <5>4
      <4>4. r.toolCalls = <<>>
        BY <2>2, <2>5, <4>2
      <4>5. Len(q.toolCalls) = 0
        BY <3>2, <3>3, <4>3, <4>4, EmptySeq
      <4>6. q.toolCalls \in Seq(CallStates)
        BY <3>2, <3>3 DEF Orderly, Tracks, ResponsesTranslators
      <4> HIDE DEF CallStates
      <4>7. QED
        BY <4>5, <4>6, EmptySeq
    <3>4. ~q.finished => Ready(q)
      BY <3>2 DEF Ready, Orderly, Tracks
    <3>5. QED
      BY <3>2, <3>3, <3>4 DEF q
  <2>6. QED
    BY <2>4, <2>5
<1>18. BareFollows'
  BY <1>17 DEF BareFollows, response
<1>19. QED
  BY <1>16, <1>18 DEF BareInv

LEMMA EndStreamKeepsBare == StreamsInv /\ BareInv /\ EndStream => BareInv'
<1> SUFFICES ASSUME StreamsInv, BareInv, EndStream, Bare' PROVE BareInv'
  BY DEF BareInv, BareTold, BareFollows
<1> DEFINE fresh == [normalizer EXCEPT !.out = <<>>]
           n == NormalizerFlushed(normalizer)
           r == responses
           q == responses'
<1>1. /\ ~ended /\ odd' = odd \cup OddIf("empty", chunks = 0)
                              \cup OddIf("openAtEnd", place = "opening")
      /\ normalizer' = [n EXCEPT !.out = <<>>]
      /\ q = ResponsesFlush(r, n.out)
      /\ place' = place /\ sent' = sent
  BY DEF EndStream
<1>2. Typed /\ Ends /\ Follows
  BY DEF StreamsInv
<1>3. /\ normalizer \in Normalizers /\ r \in ResponsesTranslators
      /\ anthropic.started = r.started
      /\ ~r.finished => r.outputIndex = 0
  BY <1>2 DEF Typed, Ends
<1>4. Bare
  BY <1>1 DEF Bare
<1>5. /\ place \in {"text", "opening"} /\ Untagged(normalizer) /\ normalizer.out = <<>>
      /\ ~normalizer.inThinkTag
  BY <1>4 DEF BareInv, BareTold, Untagged
<1>6. n = fresh
  BY <1>5 DEF NormalizerFlushed
<1>7. /\ fresh \in Normalizers /\ fresh.out = <<>> /\ [fresh EXCEPT !.out = <<>>] = fresh
      /\ fresh.inThinkTag = normalizer.inThinkTag
      /\ fresh.openTagBuffer = normalizer.openTagBuffer
      /\ fresh.remaining = normalizer.remaining
  BY <1>3, NormalizerOut
<1> HIDE DEF n, fresh
<1>8. BareTold'
  <2>1. normalizer' = fresh
    BY <1>1, <1>6, <1>7
  <2>2. Untagged(fresh)
    BY <1>5, <1>7 DEF Untagged
  <2>3. QED
    BY <1>1, <1>5, <1>7, <2>1, <2>2 DEF BareTold
<1>9. ASSUME odd' \cap {"late", "empty"} = {}
      PROVE  ~q.client.confused /\ q.finished
  <2>1. odd \cap {"late", "empty"} = {} /\ chunks # 0
    BY <1>1, <1>9 DEF OddIf
  <2>2. ~r.client.confused /\ (~r.finished => Ready(r))
    BY <1>4, <2>1 DEF BareInv, BareFollows, response
  <2>3. r.started
    BY <1>1, <1>2, <1>3, <2>1 DEF Follows
  <2>4. q = ResponsesFlush(r, <<>>)
    BY <1>1, <1>6, <1>7
  <2> HIDE DEF q
  <2>5. ~q.client.confused
    BY <2>2, <2>3, <2>4, ResponsesFlushFollows DEF Ready
  <2>6. q.finished
    <3>1. <<>> \in Seq(NormalizedPieces)
      OBVIOUS
    <3> HIDE DEF NormalizedPieces
    <3>2. QED
      BY <1>3, <2>4, <3>1, ResponsesFlushIs
  <2>7. QED
    BY <2>5, <2>6
<1>10. BareFollows'
  BY <1>9 DEF BareFollows, response
<1>11. QED
  BY <1>8, <1>10 DEF BareInv

LEMMA StutterKeepsBare == BareInv /\ UNCHANGED vars => BareInv'
  BY DEF BareInv, BareTold, BareFollows, Bare, response, vars, backendVars

(*****************************************************************************)
(* In an answer without reasoning, as far as it has come, the Responses      *)
(* client knows of just the items the translator has begun, under the        *)
(* indexes outputIndex and outputIndexOffset give them (responses_stream.go),*)
(* and the normalizer holds nothing that it would take for a thought.  The   *)
(* inductive invariant of the next theorem, beside StreamsInv.               *)
(*****************************************************************************)
THEOREM ItemsAreTracked == Spec => []BareInv
<1>1. StreamsInv /\ BareInv /\ [Next]_vars => BareInv'
  BY ReceiveKeepsBare, EndStreamKeepsBare, StutterKeepsBare DEF Next
<1>2. QED
  BY BareAtFirst, StreamsHangTogether, <1>1, PTL DEF Spec

(*****************************************************************************)
(* A client of the Responses API can follow every stream without reasoning,  *)
(* however it is cut and wherever it breaks off: each output item is added   *)
(* once and under an index of its own before anything else is said of it,    *)
(* is done before response.completed, and is listed there in its place:      *)
(* ProcessChunk, Flush, finish and buildOutput of responses_stream.go.       *)
(*****************************************************************************)
THEOREM ResponseCanBeFollowed == Spec => []ResponseFollows
<1>1. BareInv => ResponseFollows
  BY DEF BareInv, BareFollows, Bare, ResponseFollows
<1>2. QED
  BY ItemsAreTracked, <1>1, PTL

-----------------------------------------------------------------------------
(*****************************************************************************)
(* The calls of the Messages client.                                         *)
(*****************************************************************************)

LEMMA EmittedCalls ==
  ASSUME NEW a \in Translators, NEW e \in MessageEvents
  PROVE  Emitted(a, e).client.calls = ToolRead(a.client.calls, e)
<1>1. Emitted(a, e).client = MessageRead(a.client, e)
  BY EmittedIs
<1>2. MessageRead(a.client, e).calls = ToolRead(a.client.calls, e)
  BY DEF MessageRead
<1>3. QED
  BY <1>1, <1>2

\* What is not about a call leaves them alone; a call is added where its block
\* opens, and a piece counted for the last.
LEMMA CallSteps ==
  ASSUME NEW a \in Translators
  PROVE  LET calls == a.client.calls
         IN /\ calls \in Seq(Nat)
            /\ \A t \in {"message_start", "message_delta", "message_stop"} :
                 Signal(a, t).client.calls = calls
            /\ \A block \in {"text", "thinking"} : OpenBlock(a, block).client.calls = calls
            /\ \A block \in {"text", "thinking"}, tokens \in Seq(Tokens) :
                 Delta(a, block, tokens).client.calls = calls
            /\ CloseBlock(a).client.calls = calls
            /\ ClosedIfOpen(a).client.calls = calls
            /\ OpenBlock(a, "tool_use").client.calls = Append(calls, 0)
            /\ Delta(a, "tool_use", <<>>).client.calls
                 = IF calls = <<>> THEN calls ELSE [calls EXCEPT ![Len(calls)] = @ + 1]
<1> DEFINE calls == a.client.calls
<1>1. a.blockIndex \in Nat /\ a.client \in MessageReaders /\ <<>> \in Seq(Tokens)
  BY DEF Translators
<1>2. calls \in Seq(Nat)
  BY <1>1 DEF MessageReaders
<1>3. ASSUME NEW t \in {"message_start", "message_delta", "message_stop"}
      PROVE  Signal(a, t).client.calls = calls
  <2> DEFINE e == Event(t, 0, "", <<>>)
  <2>1. e \in MessageEvents /\ e.block = ""
    BY DEF Event, MessageEvents
  <2>2. Signal(a, t) = Emitted(a, e)
    BY DEF Signal
  <2> HIDE DEF e
  <2>3. QED
    BY <2>1, <2>2, EmittedCalls DEF ToolRead
<1>4. ASSUME NEW block \in Blocks
      PROVE  OpenBlock(a, block).client.calls
               = IF block = "tool_use" THEN Append(calls, 0) ELSE calls
  <2> DEFINE none == <<>>
             e == Event("block_start", a.blockIndex, block, none)
             o == Emitted(a, e)
             b == [o EXCEPT !.blockOpen = TRUE]
  <2>0. none \in Seq(Tokens)
    OBVIOUS
  <2> HIDE DEF none
  <2>1. e \in MessageEvents /\ e.block = block /\ e.type = "block_start"
    BY <1>1, <2>0 DEF Event, MessageEvents, Blocks, none
  <2>2. OpenBlock(a, block) = b
    BY DEF OpenBlock, none
  <2> HIDE DEF e
  <2>3. o.client.calls = ToolRead(calls, e) /\ o \in Translators
    BY <2>1, EmittedCalls, EmittedIs
  <2> HIDE DEF o, MessageReaders
  <2>4. b.client = o.client
    BY <2>3 DEF Translators
  <2> HIDE DEF b
  <2>5. QED
    BY <2>1, <2>2, <2>3, <2>4 DEF ToolRead
<1>5. ASSUME NEW block \in Blocks, NEW tokens \in Seq(Tokens)
      PROVE  Delta(a, block, tokens).client.calls
               = IF block # "tool_use" \/ calls = <<>> THEN calls
                 ELSE [calls EXCEPT ![Len(calls)] = @ + 1]
  <2> DEFINE e == Event("block_delta", a.blockIndex, block, tokens)
  <2>1. e \in MessageEvents /\ e.block = block /\ e.type = "block_delta"
    BY <1>1 DEF Event, MessageEvents, Blocks
  <2>2. Delta(a, block, tokens) = Emitted(a, e)
    BY DEF Delta
  <2> HIDE DEF e
  <2>3. Delta(a, block, tokens).client.calls = ToolRead(calls, e)
    BY <2>1, <2>2, EmittedCalls
  <2> HIDE DEF calls
  <2>4. QED
    BY <2>1, <2>3 DEF ToolRead
<1>6. CloseBlock(a).client.calls = calls
  <2> DEFINE e == Event("block_stop", a.blockIndex, "", <<>>)
             o == Emitted(a, e)
             i == o.blockIndex + 1
             b == [o EXCEPT !.blockIndex = i, !.blockOpen = FALSE]
  <2>1. e \in MessageEvents /\ e.block = ""
    BY <1>1 DEF Event, MessageEvents
  <2>2. CloseBlock(a) = b
    BY DEF CloseBlock
  <2> HIDE DEF e
  <2>3. o.client.calls = ToolRead(calls, e) /\ o \in Translators
    BY <2>1, EmittedCalls, EmittedIs
  <2> HIDE DEF o, i, MessageReaders
  <2>4. b.client = o.client
    BY <2>3 DEF Translators
  <2> HIDE DEF b
  <2>5. ToolRead(calls, e) = calls
    BY <2>1 DEF ToolRead
  <2>6. QED
    BY <2>2, <2>3, <2>4, <2>5
<1>7. ClosedIfOpen(a).client.calls = calls
  BY <1>6 DEF ClosedIfOpen
<1>8. /\ \A block \in {"text", "thinking"} : OpenBlock(a, block).client.calls = calls
      /\ OpenBlock(a, "tool_use").client.calls = Append(calls, 0)
  <2> HIDE DEF calls
  <2>1. QED
    BY <1>4 DEF Blocks
<1>9. /\ \A block \in {"text", "thinking"}, tokens \in Seq(Tokens) :
           Delta(a, block, tokens).client.calls = calls
      /\ Delta(a, "tool_use", <<>>).client.calls
           = IF calls = <<>> THEN calls ELSE [calls EXCEPT ![Len(calls)] = @ + 1]
  <2> HIDE DEF calls
  <2>1. QED
    BY <1>1, <1>5 DEF Blocks
<1>10. QED
  BY <1>2, <1>3, <1>6, <1>7, <1>8, <1>9

\* Text and thoughts leave the calls alone, also when it has to end a block
\* for them.
LEMMA PieceCalls ==
  ASSUME NEW a \in Translators, NEW p \in NormalizedPieces
  PROVE  Piece(a, p) \in Translators /\ Piece(a, p).client.calls = a.client.calls
<1> DEFINE tokens == p.tokens
           closed == ClosedIfOpen(a)
           calm == [closed EXCEPT !.inThinking = FALSE]
           ready == IF a.inThinking THEN calm ELSE a
           open == IF ready.blockOpen THEN ready ELSE OpenBlock(ready, "text")
           mind == OpenBlock(closed, "thinking")
           marked == [mind EXCEPT !.inThinking = TRUE]
           deep == IF a.inThinking THEN a ELSE marked
           Same(x) == x \in Translators /\ x.client.calls = a.client.calls
<1>1. tokens \in Seq(Tokens)
  BY DEF NormalizedPieces
<1>2. /\ Content(a, tokens) = Delta(open, "text", tokens)
      /\ Reasoning(a, tokens) = IF a.skipThinking THEN a ELSE Delta(deep, "thinking", tokens)
  BY DEF Content, Reasoning
<1>3. Same(a) /\ Same(closed)
  BY ClosedIfOpenIs, CallSteps
<1> HIDE DEF closed
<1>4. Same(calm)
  BY <1>3, ThinkingSet
<1> HIDE DEF calm
<1>5. Same(ready)
  BY <1>3, <1>4
<1> HIDE DEF ready
<1>6. Same(open)
  BY <1>5, OpenBlockIs, CallSteps DEF Blocks
<1> HIDE DEF open
<1>7. Same(Delta(open, "text", tokens))
  BY <1>1, <1>6, DeltaIs, CallSteps DEF Blocks
<1>8. Same(mind)
  BY <1>3, OpenBlockIs, CallSteps DEF Blocks
<1> HIDE DEF mind
<1>9. Same(marked)
  BY <1>8, ThinkingSet
<1> HIDE DEF marked
<1>10. Same(deep)
  BY <1>3, <1>9
<1> HIDE DEF deep
<1>11. Same(Delta(deep, "thinking", tokens))
  BY <1>1, <1>10, DeltaIs, CallSteps DEF Blocks
<1>12. Same(Content(a, tokens)) /\ Same(Reasoning(a, tokens))
  BY <1>2, <1>3, <1>7, <1>11
<1>13. QED
  BY <1>12 DEF Piece

LEMMA PiecesCalls ==
  ASSUME NEW a \in Translators, NEW pieces \in Seq(NormalizedPieces)
  PROVE  LET b == FoldLeft(Piece, a, pieces)
         IN b \in Translators /\ b.client.calls = a.client.calls
<1> DEFINE S == {x \in Translators : x.client.calls = a.client.calls}
           E == NormalizedPieces
<1>1. a \in S /\ pieces \in Seq(E)
  OBVIOUS
<1>2. \A x \in S, p \in E : Piece(x, p) \in S
  BY PieceCalls
<1> HIDE DEF S, E
<1>3. FoldLeft(Piece, a, pieces) \in S
  BY <1>1, <1>2, PieceFold
<1>4. QED
  BY <1>3 DEF S

LEMMA FinishCalls ==
  ASSUME NEW a \in Translators
  PROVE  Finish(a).client.calls = a.client.calls
<1> DEFINE c == ClosedIfOpen(a)
           d == Signal(c, "message_delta")
           s == Signal(d, "message_stop")
           f == [s EXCEPT !.finished = TRUE]
<1>1. c \in Translators /\ c.client.calls = a.client.calls
  BY ClosedIfOpenIs, CallSteps
<1>2. Finish(a) = f
  BY DEF Finish
<1> HIDE DEF c
<1>3. d \in Translators /\ d.client.calls = c.client.calls
  BY <1>1, SignalIs, CallSteps
<1> HIDE DEF d
<1>4. s \in Translators /\ s.client.calls = d.client.calls
  BY <1>3, SignalIs, CallSteps
<1> HIDE DEF s, MessageReaders
<1>5. f.client = s.client
  BY <1>4 DEF Translators
<1>6. QED
  BY <1>1, <1>2, <1>3, <1>4, <1>5

\* An entry: the call it begins, and a piece for the call that came last.
Counted(calls, tc) ==
  LET begun == IF tc.new THEN Append(calls, 0) ELSE calls
  IN IF tc.piece = <<>> \/ begun = <<>> THEN begun
     ELSE [begun EXCEPT ![Len(begun)] = @ + 1]

LEMMA ToolDeltaCalls ==
  ASSUME NEW a \in Translators, NEW tc \in ToolCalls
  PROVE  ToolDelta(a, tc).client.calls = Counted(a.client.calls, tc)
<1> DEFINE closed == ClosedIfOpen(a)
           opened == OpenBlock(closed, "tool_use")
           open == IF tc.new THEN opened ELSE a
           d == Delta(open, "tool_use", <<>>)
           calls == a.client.calls
           begun == IF tc.new THEN Append(calls, 0) ELSE calls
<1>1. closed \in Translators /\ closed.client.calls = calls
  BY ClosedIfOpenIs, CallSteps
<1>2. ToolDelta(a, tc) = IF tc.piece # <<>> THEN d ELSE open
  BY DEF ToolDelta
<1> HIDE DEF closed
<1>3. opened \in Translators /\ opened.client.calls = Append(calls, 0)
  <2>1. opened.client.calls = Append(closed.client.calls, 0)
    BY <1>1, CallSteps
  <2>2. opened \in Translators
    BY <1>1, OpenBlockIs DEF Blocks
  <2>3. QED
    BY <1>1, <2>1, <2>2
<1> HIDE DEF opened
<1>4. open \in Translators /\ open.client.calls = begun
  BY <1>3
<1> HIDE DEF open
<1>5. d.client.calls = IF begun = <<>> THEN begun ELSE [begun EXCEPT ![Len(begun)] = @ + 1]
  BY <1>4, CallSteps
<1> HIDE DEF d
<1>6. Counted(calls, tc) = IF tc.piece = <<>> \/ begun = <<>> THEN begun
                           ELSE [begun EXCEPT ![Len(begun)] = @ + 1]
  BY DEF Counted
<1> HIDE DEF begun, calls
<1>7. QED
  BY <1>2, <1>4, <1>5, <1>6 DEF calls

LEMMA ToolDeltaOnce ==
  ASSUME NEW a \in Translators, NEW calls \in Seq(ToolCalls)
  PROVE  Len(calls) = 1 => FoldLeft(ToolDelta, a, calls) = ToolDelta(a, calls[1])
<1> DEFINE S == Translators
           E == ToolCalls
<1>1. a \in S /\ calls \in Seq(E)
  OBVIOUS
<1>2. \A x \in S, e \in E : ToolDelta(x, e) \in S
  BY ToolDeltaIs
<1> HIDE DEF S, E
<1>3. QED
  BY <1>1, <1>2, ToolDeltaFold, ZenonT(60)

LEMMA AnthropicChunkCalls ==
  ASSUME NEW a \in Translators, NEW pieces \in Seq(NormalizedPieces),
         NEW calls \in Seq(ToolCalls), Len(calls) <= 1, NEW finish \in BOOLEAN
  PROVE  LET b == AnthropicChunk(a, pieces, calls, finish)
         IN b.client.calls = IF calls = <<>> THEN a.client.calls
                             ELSE Counted(a.client.calls, calls[1])
<1> DEFINE lit == [a EXCEPT !.started = TRUE]
           begun == IF a.started THEN a ELSE Signal(lit, "message_start")
           said == FoldLeft(Piece, begun, pieces)
           told == FoldLeft(ToolDelta, said, calls)
           b == AnthropicChunk(a, pieces, calls, finish)
<1>1. lit \in Translators /\ lit.client = a.client
  <2> HIDE DEF MessageReaders
  <2>1. QED
    BY DEF Translators
<1>2. b = IF finish /\ ~told.finished THEN Finish(told) ELSE told
  BY DEF AnthropicChunk
<1> HIDE DEF lit
<1>3. begun \in Translators /\ begun.client.calls = a.client.calls
  <2> DEFINE created == Signal(lit, "message_start")
  <2>1. created \in Translators
    BY <1>1, SignalIs
  <2>2. created.client.calls = lit.client.calls
    BY <1>1, CallSteps
  <2> HIDE DEF created
  <2>3. begun = IF a.started THEN a ELSE created
    BY DEF created
  <2>4. QED
    BY <1>1, <2>1, <2>2, <2>3
<1> HIDE DEF begun
<1>4. said \in Translators /\ said.client.calls = a.client.calls
  BY <1>3, PiecesCalls
<1> HIDE DEF said
<1>5. told \in Translators
  BY <1>4, ToolDeltasAre
<1>6. calls = <<>> => told = said
  BY EmptyFolds
<1>7. ASSUME calls # <<>>
      PROVE  calls[1] \in ToolCalls /\ told = ToolDelta(said, calls[1])
  <2> DEFINE n == Len(calls)
  <2>1. n \in Nat /\ n # 0 /\ n <= 1
    BY <1>7, EmptySeq
  <2> HIDE DEF n
  <2>2. n = 1
    BY <2>1
  <2>3. Len(calls) = 1
    BY <2>2 DEF n
  <2>4. calls[1] \in ToolCalls
    <3> HIDE DEF ToolCalls
    <3>1. 1 \in DOMAIN calls
      BY <2>3
    <3>2. QED
      BY <3>1
  <2> HIDE DEF told
  <2>5. FoldLeft(ToolDelta, said, calls) = ToolDelta(said, calls[1])
    BY <1>4, <2>3, ToolDeltaOnce
  <2>6. QED
    BY <2>4, <2>5 DEF told
<1> HIDE DEF told
<1>8. told.client.calls = IF calls = <<>> THEN a.client.calls
                          ELSE Counted(a.client.calls, calls[1])
  BY <1>4, <1>6, <1>7, ToolDeltaCalls
<1>9. Finish(told).client.calls = told.client.calls
  BY <1>5, FinishCalls
<1>10. QED
  BY <1>2, <1>8, <1>9

LEMMA AnthropicFlushCalls ==
  ASSUME NEW a \in Translators, NEW pieces \in Seq(NormalizedPieces)
  PROVE  AnthropicFlush(a, pieces).client.calls = a.client.calls
<1> DEFINE told == FoldLeft(Piece, a, pieces)
<1>1. told \in Translators /\ told.client.calls = a.client.calls
  BY PiecesCalls
<1>2. AnthropicFlush(a, pieces) = IF told.finished THEN told ELSE Finish(told)
  BY DEF AnthropicFlush
<1> HIDE DEF told
<1>3. QED
  BY <1>1, <1>2, FinishCalls

-----------------------------------------------------------------------------
(*****************************************************************************)
(* The calls of the Responses client.                                        *)
(*****************************************************************************)

SameCalls(r, q) ==
  /\ q \in ResponsesTranslators /\ q.toolCalls = r.toolCalls
  /\ q.client.calls = r.client.calls

LEMMA SameCallsOn ==
  ASSUME NEW r, NEW q, SameCalls(r, q)
  PROVE  q \in ResponsesTranslators /\ \A x : SameCalls(q, x) => SameCalls(r, x)
BY DEF SameCalls

HeardCalls == [heard : Seq(AllTokens), final : Seq(AllTokens)]

LEMMA ToldCalls ==
  ASSUME NEW r \in ResponsesTranslators, NEW e \in ResponseEvents
  PROVE  /\ RTold(r, e) \in ResponsesTranslators /\ RTold(r, e).toolCalls = r.toolCalls
         /\ RTold(r, e).client.calls = ItemRead(r.client.calls, e)
<1>1. /\ RTold(r, e) \in ResponsesTranslators /\ RTold(r, e).toolCalls = r.toolCalls
      /\ RTold(r, e).client = ResponseRead(r.client, e)
  BY RToldIs
<1>2. ResponseRead(r.client, e).calls = ItemRead(r.client.calls, e)
  BY DEF ResponseRead
<1>3. QED
  BY <1>1, <1>2

\* What is said of the message and of the whole leaves the calls alone.
MessageTypes == EventTypes \ {"args_delta", "args_done"}

LEMMA ToldOfMessage ==
  ASSUME NEW r \in ResponsesTranslators, NEW e \in ResponseEvents,
         e.type \in MessageTypes, e.type = "item_added" => e.item = TheMessage
  PROVE  SameCalls(r, RTold(r, e))
<1>1. ItemRead(r.client.calls, e) = r.client.calls
  BY DEF ItemRead, MessageTypes
<1>2. QED
  BY <1>1, ToldCalls DEF SameCalls

LEMMA MessageTold ==
  ASSUME NEW r \in ResponsesTranslators, NEW t \in MessageTypes
  PROVE  /\ \A index \in Nat : SameCalls(r, Tell(r, t, index, TheMessage))
         /\ \A tokens \in Seq(Tokens) : SameCalls(r, TellPart(r, t, tokens))
<1>1. ASSUME NEW index \in Nat PROVE SameCalls(r, Tell(r, t, index, TheMessage))
  <2> DEFINE e == Full(t, index, TheMessage, 0, <<>>, <<>>)
  <2>1. e \in ResponseEvents /\ e.type = t /\ e.item = TheMessage
    <3>1. <<>> \in Seq(AllTokens) /\ <<>> \in Seq(Nat) /\ TheMessage \in Nat
      BY DEF TheMessage
    <3>2. QED
      BY <3>1 DEF Full, ResponseEvents, MessageTypes
  <2>2. Tell(r, t, index, TheMessage) = RTold(r, e)
    BY DEF Tell
  <2> HIDE DEF e
  <2>3. QED
    BY <2>1, <2>2, ToldOfMessage
<1>2. ASSUME NEW tokens \in Seq(Tokens) PROVE SameCalls(r, TellPart(r, t, tokens))
  <2> DEFINE e == Full(t, r.outputIndex, TheMessage, r.contentIndex, tokens, <<>>)
  <2>1. e \in ResponseEvents /\ e.type = t /\ e.item = TheMessage
    <3>1. <<>> \in Seq(Nat) /\ TheMessage \in Nat
      BY DEF TheMessage
    <3>2. r.outputIndex \in Nat /\ r.contentIndex \in Nat
      BY DEF ResponsesTranslators
    <3>3. tokens \in Seq(AllTokens)
      BY DEF AllTokens
    <3>4. QED
      BY <3>1, <3>2, <3>3 DEF Full, ResponseEvents, MessageTypes
  <2>2. TellPart(r, t, tokens) = RTold(r, e)
    BY DEF TellPart
  <2> HIDE DEF e
  <2>3. QED
    BY <2>1, <2>2, ToldOfMessage
<1>3. QED
  BY <1>1, <1>2

LEMMA FieldsOfMessage ==
  ASSUME NEW r \in ResponsesTranslators, NEW v \in BOOLEAN
  PROVE  /\ SameCalls(r, [r EXCEPT !.started = v])
         /\ SameCalls(r, [r EXCEPT !.finished = v])
         /\ SameCalls(r, [r EXCEPT !.hasText = v])
         /\ SameCalls(r, [r EXCEPT !.inReasoning = v])
         /\ SameCalls(r, [r EXCEPT !.inReasoning = v, !.contentIndex = @ + 1])
         /\ r.outputIndex = 0 => SameCalls(r, [r EXCEPT !.outputIndex = @ + 1])
<1> HIDE DEF ResponseReaders, CallStates
<1>1. /\ SameCalls(r, [r EXCEPT !.started = v])
      /\ SameCalls(r, [r EXCEPT !.finished = v])
      /\ SameCalls(r, [r EXCEPT !.hasText = v])
      /\ SameCalls(r, [r EXCEPT !.inReasoning = v])
  BY DEF ResponsesTranslators, SameCalls
<1>2. ASSUME NEW index \in Nat
      PROVE  SameCalls(r, [r EXCEPT !.inReasoning = v, !.contentIndex = index])
  BY DEF ResponsesTranslators, SameCalls
<1>3. r.contentIndex + 1 \in Nat
  BY DEF ResponsesTranslators
<1>4. SameCalls(r, [r EXCEPT !.inReasoning = v, !.contentIndex = @ + 1])
  BY <1>2, <1>3
<1>5. SameCalls(r, [r EXCEPT !.outputIndex = 1])
  BY DEF ResponsesTranslators, SameCalls
<1>6. r.outputIndex = 0 => [r EXCEPT !.outputIndex = @ + 1] = [r EXCEPT !.outputIndex = 1]
  OBVIOUS
<1>7. QED
  BY <1>1, <1>4, <1>5, <1>6

LEMMA RPieceCalls ==
  ASSUME NEW r \in ResponsesTranslators, NEW p \in NormalizedPieces
  PROVE  SameCalls(r, RPiece(r, p))
<1> DEFINE tokens == p.tokens
           done == TellPart(r, "reasoning_done", <<>>)
           quiet == [done EXCEPT !.inReasoning = FALSE, !.contentIndex = @ + 1]
           ready == IF r.inReasoning THEN quiet ELSE r
           texted == [AddMessage(ready) EXCEPT !.hasText = TRUE]
           open == IF ready.hasText THEN ready ELSE texted
           minded == [AddMessage(r) EXCEPT !.inReasoning = TRUE]
           deep == IF r.inReasoning THEN r ELSE minded
<1>1. tokens \in Seq(Tokens) /\ <<>> \in Seq(Tokens)
  BY DEF NormalizedPieces
<1>2. {"reasoning_done", "reasoning_delta", "text_delta", "item_added", "part_added"}
        \subseteq MessageTypes
  BY DEF MessageTypes, EventTypes
<1>3. ASSUME NEW x, SameCalls(r, x) PROVE SameCalls(r, AddMessage(x))
  <2> DEFINE y == Tell(x, "item_added", x.outputIndex, TheMessage)
  <2>1. x \in ResponsesTranslators
    BY <1>3, SameCallsOn
  <2>2. x.outputIndex \in Nat
    BY <2>1 DEF ResponsesTranslators
  <2>3. SameCalls(x, y)
    BY <1>2, <2>1, <2>2, MessageTold
  <2>4. AddMessage(x) = TellPart(y, "part_added", <<>>)
    BY DEF AddMessage
  <2> HIDE DEF y
  <2>5. y \in ResponsesTranslators
    BY <2>3, SameCallsOn
  <2>6. SameCalls(y, AddMessage(x))
    BY <1>1, <1>2, <2>4, <2>5, MessageTold
  <2>7. QED
    BY <1>3, <2>3, <2>6, SameCallsOn
<1>4. ASSUME NEW x, SameCalls(r, x),
             NEW t \in {"reasoning_done", "reasoning_delta", "text_delta"},
             NEW s \in Seq(Tokens)
      PROVE  SameCalls(r, TellPart(x, t, s))
  <2>1. x \in ResponsesTranslators
    BY <1>4, SameCallsOn
  <2>2. SameCalls(x, TellPart(x, t, s))
    BY <1>2, <2>1, MessageTold
  <2>3. QED
    BY <1>4, <2>2, SameCallsOn
<1>5. SameCalls(r, r)
  BY DEF SameCalls
<1>6. RContent(r, tokens) = TellPart(open, "text_delta", tokens)
  BY DEF RContent
<1>7. RReasoning(r, tokens) = TellPart(deep, "reasoning_delta", tokens)
  BY DEF RReasoning
<1>8. SameCalls(r, done)
  BY <1>1, <1>4, <1>5
<1> HIDE DEF done
<1>9. SameCalls(r, quiet)
  <2>1. SameCalls(done, quiet)
    BY <1>8, SameCallsOn, FieldsOfMessage
  <2>2. QED
    BY <1>8, <2>1, SameCallsOn
<1> HIDE DEF quiet
<1>10. SameCalls(r, ready)
  BY <1>5, <1>9
<1> HIDE DEF ready
<1>11. ASSUME NEW x, SameCalls(r, x)
       PROVE  /\ SameCalls(r, [AddMessage(x) EXCEPT !.hasText = TRUE])
              /\ SameCalls(r, [AddMessage(x) EXCEPT !.inReasoning = TRUE])
  <2> DEFINE y == AddMessage(x)
  <2>1. SameCalls(r, y)
    BY <1>3, <1>11
  <2> HIDE DEF y
  <2>2. SameCalls(y, [y EXCEPT !.hasText = TRUE]) /\ SameCalls(y, [y EXCEPT !.inReasoning = TRUE])
    BY <2>1, SameCallsOn, FieldsOfMessage
  <2>3. SameCalls(r, [y EXCEPT !.hasText = TRUE]) /\ SameCalls(r, [y EXCEPT !.inReasoning = TRUE])
    BY <2>1, <2>2, SameCallsOn
  <2>4. QED
    BY <2>3 DEF y
<1>12. SameCalls(r, texted) /\ SameCalls(r, minded)
  BY <1>5, <1>10, <1>11
<1> HIDE DEF texted, minded
<1>13. SameCalls(r, open) /\ SameCalls(r, deep)
  BY <1>5, <1>10, <1>12
<1> HIDE DEF open, deep
<1>14. SameCalls(r, RContent(r, tokens)) /\ SameCalls(r, RReasoning(r, tokens))
  BY <1>1, <1>4, <1>6, <1>7, <1>13
<1>15. QED
  BY <1>14 DEF RPiece

LEMMA RPiecesCalls ==
  ASSUME NEW r \in ResponsesTranslators, NEW pieces \in Seq(NormalizedPieces)
  PROVE  SameCalls(r, FoldLeft(RPiece, r, pieces))
<1> DEFINE S == {x \in ResponsesTranslators : SameCalls(r, x)}
           E == NormalizedPieces
<1>1. r \in S /\ pieces \in Seq(E)
  BY DEF SameCalls
<1>2. \A x \in S, p \in E : RPiece(x, p) \in S
  BY RPieceCalls DEF SameCalls
<1> HIDE DEF S, E
<1>3. FoldLeft(RPiece, r, pieces) \in S
  BY <1>1, <1>2, RPieceFold
<1>4. QED
  BY <1>3 DEF S

\* A call of which more was heard, and of which all was.
HeardFurther(calls, i, tokens) == [calls EXCEPT ![i].heard = @ \o tokens]
HeardAll(calls, i, tokens) == [calls EXCEPT ![i].final = tokens]

LEMMA HeardOn ==
  ASSUME NEW calls \in Seq(HeardCalls), NEW i \in 1 .. Len(calls),
         NEW tokens \in Seq(ArgumentTokens)
  PROVE  /\ HeardFurther(calls, i, tokens) \in Seq(HeardCalls)
         /\ Len(HeardFurther(calls, i, tokens)) = Len(calls)
         /\ \A j \in 1 .. Len(calls) :
              HeardFurther(calls, i, tokens)[j]
                = IF j = i THEN [calls[j] EXCEPT !.heard = @ \o tokens] ELSE calls[j]
         /\ HeardAll(calls, i, tokens) \in Seq(HeardCalls)
         /\ Len(HeardAll(calls, i, tokens)) = Len(calls)
         /\ \A j \in 1 .. Len(calls) :
              HeardAll(calls, i, tokens)[j]
                = IF j = i THEN [calls[j] EXCEPT !.final = tokens] ELSE calls[j]
<1> DEFINE c == calls[i]
           more == [c EXCEPT !.heard = @ \o tokens]
           all == [c EXCEPT !.final = tokens]
<1>1. c \in HeardCalls
  <2> HIDE DEF HeardCalls
  <2>1. QED
    BY ElementOfSeq
<1> HIDE DEF c
<1>2. more \in HeardCalls /\ all \in HeardCalls
  <2> DEFINE said == c.heard \o tokens
  <2>1. c.heard \in Seq(AllTokens) /\ tokens \in Seq(AllTokens)
    BY <1>1 DEF HeardCalls, AllTokens
  <2>2. said \in Seq(AllTokens)
    BY <2>1, ConcatProperties
  <2>3. more = [c EXCEPT !.heard = said]
    BY <1>1 DEF HeardCalls
  <2> HIDE DEF said, more
  <2>4. QED
    BY <1>1, <2>1, <2>2, <2>3 DEF HeardCalls
<1>3. HeardFurther(calls, i, tokens) = [calls EXCEPT ![i] = more]
  BY DEF HeardFurther, c
<1>4. HeardAll(calls, i, tokens) = [calls EXCEPT ![i] = all]
  BY DEF HeardAll, c
<1> HIDE DEF more, all, HeardCalls
<1>5. \A x \in {more, all} : LET q == [calls EXCEPT ![i] = x]
                           IN /\ q \in Seq(HeardCalls) /\ Len(q) = Len(calls)
                              /\ \A j \in 1 .. Len(calls) :
                                   q[j] = IF j = i THEN x ELSE calls[j]
  BY <1>2, ExceptSeq
<1>6. QED
  BY <1>3, <1>4, <1>5 DEF more, all, c

\* What is said of a call.
LEMMA CallTold ==
  ASSUME NEW r \in ResponsesTranslators, NEW i \in Nat \ {0}, NEW tokens \in Seq(ArgumentTokens)
  PROVE  /\ \A t \in {"item_added", "args_delta", "args_done", "item_done"} :
              /\ TellCall(r, t, i, tokens) \in ResponsesTranslators
              /\ TellCall(r, t, i, tokens).toolCalls = r.toolCalls
         /\ TellCall(r, "item_added", i, tokens).client.calls
              = Append(r.client.calls, [heard |-> <<>>, final |-> <<>>])
         /\ TellCall(r, "args_delta", i, tokens).client.calls
              = HeardFurther(r.client.calls, i, tokens)
         /\ TellCall(r, "args_done", i, tokens).client.calls
              = HeardAll(r.client.calls, i, tokens)
         /\ TellCall(r, "item_done", i, tokens).client.calls = r.client.calls
<1> DEFINE calls == r.client.calls
           E(t) == Full(t, (i - 1) + OutputIndexOffset(r), i, 0, tokens, <<>>)
<1>1. ASSUME NEW t \in EventTypes
      PROVE  /\ TellCall(r, t, i, tokens) \in ResponsesTranslators
             /\ TellCall(r, t, i, tokens).toolCalls = r.toolCalls
             /\ TellCall(r, t, i, tokens).client.calls = ItemRead(calls, E(t))
  <2>1. E(t) \in ResponseEvents
    <3>1. <<>> \in Seq(Nat) /\ (i - 1) + OutputIndexOffset(r) \in Nat
      BY DEF OutputIndexOffset
    <3>2. tokens \in Seq(AllTokens)
      BY DEF AllTokens
    <3>3. QED
      BY <3>1, <3>2 DEF Full, ResponseEvents
  <2>2. TellCall(r, t, i, tokens) = RTold(r, E(t))
    BY DEF TellCall
  <2> HIDE DEF E
  <2>3. QED
    BY <2>1, <2>2, ToldCalls
<1>2. \A t : E(t).type = t /\ E(t).item = i /\ E(t).tokens = tokens
  BY DEF Full
<1>3. i # TheMessage
  BY DEF TheMessage
<1> HIDE DEF E, calls
<1>4. /\ ItemRead(calls, E("item_added")) = Append(calls, [heard |-> <<>>, final |-> <<>>])
      /\ ItemRead(calls, E("args_delta")) = HeardFurther(calls, i, tokens)
      /\ ItemRead(calls, E("args_done")) = HeardAll(calls, i, tokens)
      /\ ItemRead(calls, E("item_done")) = calls
  <2>1. ItemRead(calls, E("item_added")) = Append(calls, [heard |-> <<>>, final |-> <<>>])
    BY <1>2, <1>3 DEF ItemRead
  <2>2. ItemRead(calls, E("args_delta")) = HeardFurther(calls, i, tokens)
    <3> DEFINE e == E("args_delta")
    <3>1. e.type = "args_delta" /\ e.item = i /\ e.tokens = tokens
      BY <1>2
    <3> HIDE DEF e
    <3>2. ItemRead(calls, e) = [calls EXCEPT ![e.item].heard = @ \o e.tokens]
      BY <3>1 DEF ItemRead
    <3>3. QED
      BY <3>1, <3>2 DEF e, HeardFurther
  <2>3. ItemRead(calls, E("args_done")) = HeardAll(calls, i, tokens)
    <3> DEFINE e == E("args_done")
    <3>1. e.type = "args_done" /\ e.item = i /\ e.tokens = tokens
      BY <1>2
    <3> HIDE DEF e
    <3>2. ItemRead(calls, e) = [calls EXCEPT ![e.item].final = e.tokens]
      BY <3>1 DEF ItemRead
    <3>3. QED
      BY <3>1, <3>2 DEF e, HeardAll
  <2>4. ItemRead(calls, E("item_done")) = calls
    BY <1>2 DEF ItemRead
  <2>5. QED
    BY <2>1, <2>2, <2>3, <2>4
<1>5. {"item_added", "args_delta", "args_done", "item_done"} \subseteq EventTypes
  BY DEF EventTypes
<1>6. QED
  BY <1>1, <1>4, <1>5 DEF calls

\* What the backend may have sent of a call's arguments: words, or for a custom
\* tool its input in a wrapping that may not be complete.
AllWords(a) == \A i \in 1 .. Len(a) : a[i] = "word"

Wrapping(a) ==
  /\ Len(a) > 1 /\ a[1] = "quote"
  /\ \A i \in 2 .. Len(a) - 1 : a[i] = "word"
  /\ a[Len(a)] \in {"word", "quote"}

Shaped(c) == AllWords(c.arguments) \/ (c.custom /\ Wrapping(c.arguments))

LEMMA InputShape ==
  ASSUME NEW c \in CallStates
  PROVE  LET a == c.arguments
             n == Len(a)
         IN /\ ~c.custom => Input(c) = a
            /\ AllWords(a) => Input(c) = a /\ ~BreaksOff(a)
            /\ Wrapping(a) => (BreaksOff(a) <=> a[n] # "quote")
            /\ Wrapping(a) /\ a[n] # "quote" => Input(c) = a
            /\ Wrapping(a) /\ c.custom /\ a[n] = "quote" => Input(c) = SubSeq(a, 2, n - 1)
<1> DEFINE a == c.arguments
           n == Len(a)
           inner == SubSeq(a, 2, n - 1)
<1>1. a \in Seq(ArgumentTokens)
  BY DEF CallStates
<1>2. n \in Nat /\ (n = 0 <=> a = <<>>)
  BY <1>1, EmptySeq
<1>3. Input(c) = IF c.custom /\ n > 1 /\ a[1] = "quote" /\ a[n] = "quote" THEN inner ELSE a
  BY DEF Input, Unwrapped, Last
<1>4. BreaksOff(a) <=> a # <<>> /\ a[1] = "quote" /\ (n = 1 \/ a[n] # "quote")
  BY <1>2 DEF BreaksOff, Last
<1> HIDE DEF inner, a, n
<1>5. ASSUME a = c.arguments, n = Len(a), AllWords(a)
      PROVE  Input(c) = a /\ ~BreaksOff(a)
  <2>1. n # 0 => a[1] = "word"
    BY <1>2, <1>5 DEF AllWords
  <2>2. QED
    BY <1>2, <1>3, <1>4, <2>1
<1>6. ASSUME a = c.arguments, n = Len(a), Wrapping(a)
      PROVE  /\ BreaksOff(a) <=> a[n] # "quote"
             /\ a[n] # "quote" => Input(c) = a
             /\ c.custom /\ a[n] = "quote" => Input(c) = inner
  BY <1>2, <1>3, <1>4, <1>6 DEF Wrapping
<1>7. QED
  BY <1>3, <1>5, <1>6 DEF a, n, inner

\* How they may go on.
NextOf(c, piece) ==
  \/ piece = <<"word">> /\ (~c.custom \/ c.arguments = <<>> \/ c.arguments[1] = "word")
  \/ /\ c.custom /\ c.arguments = <<>>
     /\ piece = <<"quote", "word">> \/ piece = <<"quote", "word", "quote">>
  \/ /\ c.custom /\ c.arguments # <<>> /\ Last(c.arguments) # "quote"
     /\ c.arguments[1] = "quote"
     /\ piece = <<"word">> \/ piece = <<"word", "quote">>

LEMMA NextPieceIs ==
  ASSUME NEW inputs \in Seq(CallStates), NEW i \in DOMAIN inputs,
         NEW piece \in NextPieces(inputs, i)
  PROVE  NextOf(inputs[i], piece)
<1> DEFINE custom == i \in DOMAIN inputs /\ inputs[i].custom
           so_far == IF custom THEN inputs[i].arguments ELSE <<>>
           args == inputs[i].arguments
<1>1. inputs[i] \in CallStates
  OBVIOUS
<1>2. args \in Seq(ArgumentTokens) /\ inputs[i].custom \in BOOLEAN
  BY <1>1 DEF CallStates
<1>3. (custom <=> inputs[i].custom) /\ (custom => so_far = args)
  OBVIOUS
<1>4. NextPieces(inputs, i) =
        CASE ~custom -> {<<"word">>}
          [] custom /\ so_far = <<>> ->
               {<<"word">>, <<"quote", "word">>, <<"quote", "word", "quote">>}
          [] custom /\ so_far # <<>> /\ so_far[1] = "word" -> {<<"word">>}
          [] custom /\ so_far # <<>> /\ so_far[1] = "quote" ->
               IF Last(so_far) = "quote" THEN {} ELSE {<<"word">>, <<"word", "quote">>}
  BY DEF NextPieces
<1> HIDE DEF so_far, custom
<1>5. /\ ~custom => NextPieces(inputs, i) = {<<"word">>}
      /\ custom /\ so_far = <<>> =>
           NextPieces(inputs, i) = {<<"word">>, <<"quote", "word">>, <<"quote", "word", "quote">>}
      /\ custom /\ so_far # <<>> /\ so_far[1] = "word" => NextPieces(inputs, i) = {<<"word">>}
      /\ custom /\ so_far # <<>> /\ so_far[1] = "quote" =>
           NextPieces(inputs, i) = IF Last(so_far) = "quote" THEN {}
                                   ELSE {<<"word">>, <<"word", "quote">>}
  <2>1. ASSUME ~custom PROVE NextPieces(inputs, i) = {<<"word">>}
    BY <1>4, <2>1
  <2>2. ASSUME custom, so_far = <<>>
        PROVE  NextPieces(inputs, i)
                 = {<<"word">>, <<"quote", "word">>, <<"quote", "word", "quote">>}
    BY <1>4, <2>2
  <2>3. ASSUME custom, so_far # <<>>, so_far[1] = "word"
        PROVE  NextPieces(inputs, i) = {<<"word">>}
    BY <1>4, <2>3
  <2>4. ASSUME custom, so_far # <<>>, so_far[1] = "quote"
        PROVE  NextPieces(inputs, i) = IF Last(so_far) = "quote" THEN {}
                                       ELSE {<<"word">>, <<"word", "quote">>}
    BY <1>4, <2>4
  <2>5. QED
    BY <2>1, <2>2, <2>3, <2>4
<1>6. args # <<>> => args[1] \in {"word", "quote"}
  <2>1. SUFFICES ASSUME args # <<>> PROVE args[1] \in ArgumentTokens
    BY DEF ArgumentTokens
  <2> HIDE DEF args
  <2>2. 1 \in DOMAIN args
    BY <1>2, <2>1, EmptySeq
  <2>3. QED
    BY <1>2, <2>2
<1>7. CASE ~custom
  BY <1>3, <1>5, <1>7 DEF NextOf
<1>8. CASE custom /\ args = <<>>
  BY <1>3, <1>5, <1>8 DEF NextOf
<1>9. CASE custom /\ args # <<>> /\ args[1] = "word"
  BY <1>3, <1>5, <1>9 DEF NextOf
<1>10. CASE custom /\ args # <<>> /\ args[1] = "quote"
  BY <1>3, <1>5, <1>10 DEF NextOf
<1>11. QED
  BY <1>6, <1>7, <1>8, <1>9, <1>10

\* A piece leaves the arguments in shape; unless the wrapping is cut, what they
\* say grows by the piece, or by what the piece holds of it.
Grows2(c, d, piece) ==
  /\ Shaped(d)
  /\ ~BreaksOff(c.arguments) /\ piece # <<"quote", "word">> =>
       /\ ~BreaksOff(d.arguments)
       /\ \E delta \in Seq(ArgumentTokens) :
            /\ delta # <<>> /\ Input(d) = Input(c) \o delta
            /\ ~c.custom => delta = piece

LEMMA PiecesOfArguments ==
  /\ \A s \in {<<"word">>, <<"quote", "word">>, <<"word", "quote">>, <<"quote", "word", "quote">>} :
       s \in Seq(ArgumentTokens) /\ s # <<>>
<1>1. \A w, q \in ArgumentTokens :
        /\ <<w>> \in Seq(ArgumentTokens) /\ <<q, w>> \in Seq(ArgumentTokens)
        /\ <<w, q>> \in Seq(ArgumentTokens) /\ <<q, w, q>> \in Seq(ArgumentTokens)
        /\ <<w>> # <<>> /\ <<q, w>> # <<>> /\ <<w, q>> # <<>> /\ <<q, w, q>> # <<>>
  OBVIOUS
<1>2. "word" \in ArgumentTokens /\ "quote" \in ArgumentTokens
  BY DEF ArgumentTokens
<1>3. QED
  BY <1>1, <1>2

LEMMA WordGrows ==
  ASSUME NEW c \in CallStates, AllWords(c.arguments),
         NEW d \in CallStates, d.custom = c.custom, NEW piece, piece = <<"word">>,
         d.arguments = c.arguments \o piece
  PROVE  Grows2(c, d, piece)
<1> DEFINE a == c.arguments
           b == d.arguments
           n == Len(a)
<1>1. a \in Seq(ArgumentTokens) /\ b \in Seq(ArgumentTokens)
  BY DEF CallStates
<1>2. piece \in Seq(ArgumentTokens) /\ Len(piece) = 1 /\ piece # <<>> /\ piece[1] = "word"
  BY PiecesOfArguments
<1>3. b = a \o piece /\ n \in Nat
  BY <1>1
<1>4. /\ Len(b) = n + 1
      /\ \A i \in 1 .. n + 1 : b[i] = IF i <= n THEN a[i] ELSE piece[i - n]
  BY <1>1, <1>2, <1>3, ConcatProperties
<1>5. AllWords(b)
  <2>1. \A i \in 1 .. n : a[i] = "word"
    BY DEF AllWords
  <2> HIDE DEF a, b, n
  <2>2. ASSUME NEW i \in 1 .. n + 1 PROVE b[i] = "word"
    <3>1. CASE i <= n
      BY <1>3, <1>4, <2>1, <3>1
    <3>2. CASE ~(i <= n)
      <4>1. i = n + 1 /\ i - n = 1
        BY <1>3, <3>2
      <4>2. QED
        BY <1>2, <1>4, <3>2, <4>1
    <3>3. QED
      BY <3>1, <3>2
  <2>3. QED
    BY <1>4, <2>2 DEF AllWords
<1>6. Input(c) = a /\ Input(d) = b /\ ~BreaksOff(b)
  BY <1>5, InputShape
<1>7. QED
  BY <1>2, <1>3, <1>5, <1>6 DEF Grows2, Shaped

LEMMA WrappedGrows ==
  ASSUME NEW c \in CallStates, c.custom, c.arguments = <<>>,
         NEW d \in CallStates, d.custom = c.custom, NEW piece,
         piece = <<"quote", "word">> \/ piece = <<"quote", "word", "quote">>,
         d.arguments = c.arguments \o piece
  PROVE  Grows2(c, d, piece)
<1> DEFINE b == d.arguments
           word == <<"word">>
<1>1. piece \in Seq(ArgumentTokens)
  BY PiecesOfArguments
<1>2. b = piece
  BY <1>1, ConcatEmptySeq
<1>3. Input(c) = <<>>
  BY InputShape DEF AllWords
<1>4. word \in Seq(ArgumentTokens) /\ word # <<>> /\ <<>> \o word = word
  BY PiecesOfArguments, ConcatEmptySeq
<1>5. CASE piece = <<"quote", "word">>
  <2>1. Wrapping(b)
    BY <1>2, <1>5 DEF Wrapping
  <2>2. QED
    BY <1>5, <2>1 DEF Grows2, Shaped
<1>6. CASE piece = <<"quote", "word", "quote">>
  <2>1. Len(b) = 3 /\ b[1] = "quote" /\ b[2] = "word" /\ b[3] = "quote"
    BY <1>2, <1>6
  <2>2. SubSeq(b, 2, 2) = word
    <3> DEFINE t == SubSeq(b, 2, 2)
    <3>1. b \in Seq(ArgumentTokens)
      BY <1>1, <1>2
    <3>2. \A i \in 2 .. 2 : b[i] \in ArgumentTokens
      BY <2>1 DEF ArgumentTokens
    <3> HIDE DEF b
    <3>3. /\ t \in Seq(ArgumentTokens) /\ Len(t) = 1
          /\ \A i \in 1 .. (2 - 2) + 1 : t[i] = b[(2 + i) - 1]
      BY <3>2, SubSeqProperties
    <3> HIDE DEF t
    <3>4. t[1] = b[2]
      <4>1. 1 \in 1 .. (2 - 2) + 1 /\ (2 + 1) - 1 = 2
        OBVIOUS
      <4>2. QED
        BY <3>3, <4>1
    <3>5. word[1] = "word" /\ Len(word) = 1
      OBVIOUS
    <3> HIDE DEF word
    <3>6. \A i \in 1 .. Len(t) : t[i] = word[i]
      BY <2>1, <3>3, <3>4, <3>5
    <3>7. t = word
      BY <1>4, <3>3, <3>5, <3>6, SeqEqual
    <3>8. QED
      BY <3>7 DEF t
  <2> DEFINE m == 3 - 1
  <2>3. m = 2
    OBVIOUS
  <2> HIDE DEF b, m, word
  <2>4. \A i \in 2 .. m : b[i] = "word"
    BY <2>1, <2>3
  <2>5. Wrapping(b) /\ b[Len(b)] = "quote"
    BY <2>1, <2>4 DEF Wrapping, m
  <2>6. Input(d) = SubSeq(b, 2, Len(b) - 1) /\ ~BreaksOff(b)
    BY <2>5, InputShape DEF b
  <2>7. Input(d) = SubSeq(b, 2, 2)
    BY <2>1, <2>3, <2>6 DEF m
  <2>8. Input(d) = Input(c) \o word
    BY <1>3, <1>4, <2>2, <2>7
  <2>9. QED
    BY <1>4, <2>5, <2>6, <2>8 DEF Grows2, Shaped, b
<1>7. QED
  BY <1>5, <1>6

LEMMA WrappingGrows ==
  ASSUME NEW c \in CallStates, c.custom, Wrapping(c.arguments), Last(c.arguments) # "quote",
         NEW d \in CallStates, d.custom = c.custom, NEW piece,
         piece = <<"word">> \/ piece = <<"word", "quote">>,
         d.arguments = c.arguments \o piece
  PROVE  Grows2(c, d, piece)
<1> DEFINE a == c.arguments
           b == d.arguments
           n == Len(a)
           k == Len(piece)
<1>1. a \in Seq(ArgumentTokens) /\ b \in Seq(ArgumentTokens)
  BY DEF CallStates
<1>2. /\ piece \in Seq(ArgumentTokens) /\ k \in {1, 2} /\ piece[1] = "word"
      /\ k = 2 => piece[2] = "quote"
  <2>1. piece \in Seq(ArgumentTokens)
    BY PiecesOfArguments
  <2>2. CASE piece = <<"word">>
    BY <2>1, <2>2
  <2>3. CASE piece = <<"word", "quote">>
    BY <2>1, <2>3
  <2>4. QED
    BY <2>2, <2>3
<1>3. b = a \o piece /\ n \in Nat
  BY <1>1
<1>4. /\ Len(b) = n + k
      /\ \A i \in 1 .. n + k : b[i] = IF i <= n THEN a[i] ELSE piece[i - n]
  BY <1>1, <1>2, <1>3, ConcatProperties
<1>5. /\ n > 1 /\ a[1] = "quote" /\ \A i \in 2 .. n - 1 : a[i] = "word"
      /\ a[n] = "word"
  BY DEF Wrapping, Last
<1>6. Wrapping(b)
  <2> HIDE DEF a, b, n, k
  <2>1. b[1] = "quote" /\ Len(b) > 1
    BY <1>2, <1>3, <1>4, <1>5
  <2>2. ASSUME NEW i \in 2 .. (n + k) - 1 PROVE b[i] = "word"
    <3>1. CASE i <= n
      BY <1>2, <1>3, <1>4, <1>5, <3>1
    <3>2. CASE ~(i <= n)
      <4>1. i = n + 1 /\ i - n = 1 /\ i \in 1 .. n + k
        BY <1>2, <1>3, <3>2
      <4>2. b[i] = piece[i - n]
        BY <1>4, <3>2, <4>1
      <4>3. QED
        BY <1>2, <4>1, <4>2
    <3>3. QED
      BY <3>1, <3>2
  <2>3. b[n + k] \in {"word", "quote"}
    <3>1. b[n + k] = piece[k]
      <4>1. n + k \in 1 .. n + k /\ ~(n + k <= n) /\ (n + k) - n = k
        BY <1>2, <1>3
      <4>2. QED
        BY <1>4, <4>1
    <3>2. piece[k] \in {"word", "quote"}
      <4>1. CASE k = 1
        BY <1>2, <4>1
      <4>2. CASE k = 2
        BY <1>2, <4>2
      <4>3. QED
        BY <1>2, <4>1, <4>2
    <3>3. QED
      BY <3>1, <3>2
  <2> DEFINE m == n + k
  <2>4. /\ Len(b) = m /\ b[m] \in {"word", "quote"}
        /\ \A i \in 2 .. m - 1 : b[i] = "word"
    BY <1>4, <2>2, <2>3
  <2> HIDE DEF m
  <2>5. QED
    BY <2>1, <2>4 DEF Wrapping
<1>7. BreaksOff(a)
  BY <1>5, InputShape
<1>8. QED
  BY <1>6, <1>7 DEF Grows2, Shaped

LEMMA InputGrows ==
  ASSUME NEW c \in CallStates, Shaped(c), NEW piece, NextOf(c, piece),
         NEW d \in CallStates, d.custom = c.custom, d.arguments = c.arguments \o piece
  PROVE  Grows2(c, d, piece)
<1> DEFINE a == c.arguments
<1>1. a \in Seq(ArgumentTokens)
  BY DEF CallStates
<1>2. CASE piece = <<"word">> /\ (~c.custom \/ a = <<>> \/ a[1] = "word")
  <2>1. AllWords(a)
    BY <1>2 DEF Shaped, Wrapping, AllWords
  <2>2. QED
    BY <1>2, <2>1, WordGrows
<1>3. CASE /\ c.custom /\ a = <<>>
           /\ piece = <<"quote", "word">> \/ piece = <<"quote", "word", "quote">>
  BY <1>3, WrappedGrows
<1>4. CASE /\ c.custom /\ a # <<>> /\ Last(a) # "quote" /\ a[1] = "quote"
           /\ piece = <<"word">> \/ piece = <<"word", "quote">>
  <2>1. Len(a) \in Nat \ {0}
    BY <1>1, <1>4, EmptySeq
  <2>2. ~AllWords(a)
    BY <1>4, <2>1 DEF AllWords
  <2>3. Wrapping(a)
    BY <2>2 DEF Shaped
  <2>4. QED
    BY <1>4, <2>3, WrappingGrows
<1>5. QED
  BY <1>2, <1>3, <1>4 DEF NextOf

-----------------------------------------------------------------------------
(*****************************************************************************)
(* The calls as the Responses client hears them: item_added, the deltas of   *)
(* their arguments, and the end at the finish.                               *)
(*****************************************************************************)

\* A call as the backend sent it, as the translator keeps it, and as the client
\* heard it.
CallHas(s, c, k, whole, closed) ==
  /\ c.custom = s.custom /\ c.arguments = s.arguments /\ Shaped(c)
  /\ whole => /\ ~BreaksOff(c.arguments) /\ k.heard = Input(c)
              /\ c.custom => c.inputEmitted = Len(Input(c))
  /\ closed => k.final = Input(c)

\* All of them, with the first n closed.
CallsHave(inputs, r, whole, n) ==
  /\ Len(r.toolCalls) = Len(inputs) /\ Len(r.client.calls) = Len(inputs)
  /\ \A i \in 1 .. Len(inputs) :
       CallHas(inputs[i], r.toolCalls[i], r.client.calls[i], whole, i <= n)

LEMMA CallsHaveOn ==
  ASSUME NEW inputs, NEW r, NEW whole, NEW n \in Int, CallsHave(inputs, r, whole, n),
         Len(inputs) \in Nat
  PROVE  \A q : SameCalls(r, q) => CallsHave(inputs, q, whole, n)
  BY DEF CallsHave, SameCalls

\* Less is said of the calls, or of fewer.
LEMMA CallsHaveLess ==
  ASSUME NEW inputs, NEW r, NEW whole \in BOOLEAN, NEW n \in Int, CallsHave(inputs, r, whole, n),
         Len(inputs) \in Nat, NEW v \in BOOLEAN, v => whole, NEW m \in Int, m <= n
  PROVE  CallsHave(inputs, r, v, m)
<1>1. ASSUME NEW i \in 1 .. Len(inputs)
      PROVE  CallHas(inputs[i], r.toolCalls[i], r.client.calls[i], v, i <= m)
  <2>1. i <= m => i <= n
    OBVIOUS
  <2>2. CallHas(inputs[i], r.toolCalls[i], r.client.calls[i], whole, i <= n)
    BY DEF CallsHave
  <2>3. QED
    BY <2>1, <2>2 DEF CallHas
<1>2. QED
  BY <1>1 DEF CallsHave

LEMMA InputSame ==
  ASSUME NEW c, NEW d, d.custom = c.custom, d.arguments = c.arguments
  PROVE  Input(d) = Input(c) /\ (Shaped(c) => Shaped(d))
BY DEF Input, Shaped

LEMMA SuffixIs ==
  ASSUME NEW X, NEW s \in Seq(X), NEW t \in Seq(X), t # <<>>
  PROVE  /\ SubSeq(s \o t, Len(s) + 1, Len(s \o t)) = t
         /\ Len(s \o t) = Len(s) + Len(t) /\ Len(s) \in Nat /\ Len(t) \in Nat
<1> DEFINE m == Len(s) + 1
           n == Len(s) + Len(t)
<1>1. Len(s) \in Nat /\ Len(t) \in Nat \ {0}
  BY EmptySeq
<1>2. Len(s \o t) = n
  BY ConcatProperties
<1>3. /\ m \in Len(s) + 1 .. Len(s) + Len(t) /\ n \in Len(s) + 1 .. Len(s) + Len(t)
      /\ m - Len(s) = 1 /\ n - Len(s) = Len(t)
  BY <1>1
<1>4. SubSeq(s \o t, m, n) = SubSeq(t, m - Len(s), n - Len(s))
  BY <1>3, SubSeqOfConcat2
<1>5. SubSeq(t, 1, Len(t)) = t
  BY SubSeqFull
<1>6. SubSeq(s \o t, m, n) = t
  BY <1>3, <1>4, <1>5
<1>7. QED
  BY <1>1, <1>2, <1>6

\* A piece of arguments: what the translator keeps, and what the client hears.
PieceTaken(s, c, k, piece, whole) ==
  LET call == [c EXCEPT !.arguments = @ \o piece]
      delta == IF call.custom THEN Unsent(call) ELSE piece
      kept == IF call.custom THEN Sent(call) ELSE call
  IN /\ piece # <<>> /\ [s EXCEPT !.arguments = @ \o piece] \in CallStates
     /\ delta \in Seq(ArgumentTokens) /\ kept \in CallStates
     /\ CallHas([s EXCEPT !.arguments = @ \o piece], kept, [k EXCEPT !.heard = @ \o delta],
                whole /\ piece # <<"quote", "word">>, FALSE)

LEMMA PieceHeard ==
  ASSUME NEW s \in CallStates, NEW c \in CallStates, NEW k \in HeardCalls,
         NEW whole \in BOOLEAN, NEW closed, CallHas(s, c, k, whole, closed),
         NEW piece, NextOf(s, piece)
  PROVE  PieceTaken(s, c, k, piece, whole)
<1> DEFINE call == [c EXCEPT !.arguments = @ \o piece]
           delta == IF call.custom THEN Unsent(call) ELSE piece
           kept == IF call.custom THEN Sent(call) ELSE call
           args == c.arguments \o piece
           w == whole /\ piece # <<"quote", "word">>
           t == [s EXCEPT !.arguments = @ \o piece]
           h == [k EXCEPT !.heard = @ \o delta]
<1> HIDE DEF kept, delta
<1>1. piece \in Seq(ArgumentTokens) /\ piece # <<>>
  BY PiecesOfArguments DEF NextOf
<1>2. /\ c.arguments \in Seq(ArgumentTokens) /\ c.custom \in BOOLEAN /\ c.inputEmitted \in Nat
      /\ c.inputEmitted <= Len(c.arguments)
  BY DEF CallStates
<1>3. args \in Seq(ArgumentTokens) /\ Len(args) = Len(c.arguments) + Len(piece)
      /\ Len(piece) \in Nat /\ Len(c.arguments) \in Nat
  BY <1>1, <1>2, ConcatProperties, LenProperties
<1>4. /\ call \in CallStates /\ call.custom = c.custom /\ call.arguments = args
      /\ call.inputEmitted = c.inputEmitted
  <2> HIDE DEF args
  <2>1. call = [c EXCEPT !.arguments = args]
    BY DEF args
  <2>2. c.inputEmitted <= Len(args)
    BY <1>2, <1>3
  <2>3. QED
    BY <1>2, <1>3, <2>1, <2>2 DEF CallStates
<1> HIDE DEF args, call
<1>5. s.custom = c.custom /\ s.arguments = c.arguments /\ Shaped(c)
  BY DEF CallHas
<1>6. NextOf(c, piece)
  BY <1>5 DEF NextOf
<1>7. Grows2(c, call, piece)
  BY <1>4, <1>5, <1>6, InputGrows DEF args
<1>8. /\ Unsent(call) \in Seq(ArgumentTokens) /\ Sent(call) \in CallStates
      /\ Sent(call).arguments = call.arguments
  BY <1>4, InputIs
<1>9. /\ delta \in Seq(ArgumentTokens) /\ kept \in CallStates
      /\ kept.arguments = call.arguments
  BY <1>1, <1>4, <1>8 DEF delta, kept
<1>10. kept.custom = call.custom
  BY <1>4 DEF Sent, CallStates, kept
<1>11. Input(kept) = Input(call) /\ Shaped(kept)
  BY <1>7, <1>9, <1>10, InputSame DEF Grows2
<1>12. /\ t.custom = s.custom /\ t.arguments = s.arguments \o piece
       /\ t \in CallStates
  <2> DEFINE said == s.arguments \o piece
  <2>1. /\ s.arguments \in Seq(ArgumentTokens) /\ s.inputEmitted \in Nat
        /\ s.inputEmitted <= Len(s.arguments)
    BY DEF CallStates
  <2>2. said \in Seq(ArgumentTokens) /\ s.inputEmitted <= Len(said)
    BY <1>1, <2>1, ConcatProperties, LenProperties
  <2>3. t = [s EXCEPT !.arguments = said]
    BY DEF CallStates
  <2> HIDE DEF said, t
  <2>4. t.custom = s.custom /\ t.arguments = said /\ t \in CallStates
    BY <2>2, <2>3 DEF CallStates
  <2>5. QED
    BY <2>4 DEF said
<1>13. h.heard = k.heard \o delta
  BY DEF HeardCalls
<1>14. ASSUME w
       PROVE  /\ ~BreaksOff(kept.arguments) /\ h.heard = Input(kept)
              /\ kept.custom => kept.inputEmitted = Len(Input(kept))
  <2>1. /\ whole /\ piece # <<"quote", "word">>
        /\ ~BreaksOff(c.arguments) /\ k.heard = Input(c)
        /\ c.custom => c.inputEmitted = Len(Input(c))
    BY <1>14 DEF CallHas
  <2>2. PICK d \in Seq(ArgumentTokens) :
          d # <<>> /\ Input(call) = Input(c) \o d /\ (~c.custom => d = piece)
    BY <1>7, <2>1 DEF Grows2
  <2>3. ~BreaksOff(call.arguments)
    BY <1>7, <2>1 DEF Grows2
  <2>4. Input(c) \in Seq(ArgumentTokens)
    BY InputIs
  <2>5. /\ SubSeq(Input(call), Len(Input(c)) + 1, Len(Input(call))) = d
        /\ Len(Input(call)) = Len(Input(c)) + Len(d)
    <3> DEFINE a == Input(c)
               b == a \o d
    <3>1. a \in Seq(ArgumentTokens) /\ b = Input(call)
      BY <2>2, <2>4
    <3> HIDE DEF a
    <3>2. SubSeq(b, Len(a) + 1, Len(b)) = d /\ Len(b) = Len(a) + Len(d)
      BY <2>2, <3>1, SuffixIs
    <3> HIDE DEF b
    <3>3. QED
      BY <3>1, <3>2 DEF a
  <2>6. c.custom => Unsent(call) = d
    BY <1>4, <2>1, <2>5 DEF Unsent
  <2>7. delta = d
    BY <1>4, <2>2, <2>6 DEF delta
  <2>8. kept.custom => kept.inputEmitted = Len(Input(kept))
    <3> SUFFICES ASSUME kept.custom PROVE kept.inputEmitted = Len(Input(kept))
      OBVIOUS
    <3>1. kept = Sent(call) /\ call.custom
      BY <1>10 DEF kept
    <3>2. Sent(call).inputEmitted = call.inputEmitted + Len(Unsent(call))
      BY <1>4 DEF Sent, CallStates
    <3>3. QED
      BY <1>4, <1>11, <2>1, <2>5, <2>6, <3>1, <3>2
  <2>9. QED
    BY <1>9, <1>11, <1>13, <2>1, <2>2, <2>3, <2>7, <2>8
<1>15. kept.custom = t.custom /\ kept.arguments = t.arguments
  BY <1>4, <1>5, <1>9, <1>10, <1>12 DEF args
<1> HIDE DEF t, h, w
<1>16. CallHas(t, kept, h, w, FALSE)
  BY <1>11, <1>14, <1>15 DEF CallHas
<1>17. QED
  BY <1>1, <1>9, <1>12, <1>16 DEF PieceTaken, t, h, w, kept, delta, call

\* Where a piece goes.
PieceAt(r, q, n, kept, delta) ==
  /\ q \in ResponsesTranslators
  /\ Len(q.toolCalls) = Len(r.toolCalls) /\ Len(q.client.calls) = Len(r.toolCalls)
  /\ \A i \in 1 .. Len(r.toolCalls) :
       /\ q.toolCalls[i] = IF i = n THEN kept ELSE r.toolCalls[i]
       /\ q.client.calls[i] = IF i = n THEN [r.client.calls[i] EXCEPT !.heard = @ \o delta]
                              ELSE r.client.calls[i]

LEMMA PieceGoes ==
  ASSUME NEW r \in ResponsesTranslators, NEW n \in 1 .. Len(r.toolCalls),
         Len(r.client.calls) = Len(r.toolCalls),
         NEW kept \in CallStates, NEW delta \in Seq(ArgumentTokens)
  PROVE  LET next == [r EXCEPT !.toolCalls[n] = kept]
         IN PieceAt(r, IF delta = <<>> THEN next ELSE TellCall(next, "args_delta", n, delta),
                    n, kept, delta)
<1> DEFINE states == [r.toolCalls EXCEPT ![n] = kept]
           next == [r EXCEPT !.toolCalls[n] = kept]
           calls == r.client.calls
           last == Len(r.toolCalls)
           told == TellCall(next, "args_delta", n, delta)
           heard == HeardFurther(calls, n, delta)
           k == [calls[n] EXCEPT !.heard = @ \o delta]
<1>1. r.toolCalls \in Seq(CallStates) /\ calls \in Seq(HeardCalls) /\ last \in Nat
  BY DEF ResponsesTranslators, ResponseReaders, HeardCalls
<1>2. n \in 1 .. last /\ n \in Nat \ {0} /\ Len(calls) = last
  BY <1>1
<1>3. /\ states \in Seq(CallStates) /\ Len(states) = last
      /\ \A i \in 1 .. last : states[i] = IF i = n THEN kept ELSE r.toolCalls[i]
  BY <1>1, <1>2, ExceptSeq
<1>4. next = [r EXCEPT !.toolCalls = states]
  BY DEF ResponsesTranslators
<1> HIDE DEF states
<1>5. next \in ResponsesTranslators /\ next.toolCalls = states /\ next.client = r.client
  <2> HIDE DEF CallStates, ResponseReaders, next
  <2>1. QED
    BY <1>3, <1>4 DEF ResponsesTranslators
<1> HIDE DEF next
<1>6. /\ told \in ResponsesTranslators /\ told.toolCalls = states
      /\ told.client.calls = HeardFurther(next.client.calls, n, delta)
  BY <1>2, <1>5, CallTold
<1>7. told.client.calls = heard
  BY <1>5, <1>6
<1> HIDE DEF told
<1>8. Len(heard) = last /\ \A i \in 1 .. last : heard[i] = IF i = n THEN k ELSE calls[i]
  <2>1. calls \in Seq(HeardCalls) /\ n \in 1 .. Len(calls)
    BY <1>1, <1>2
  <2> HIDE DEF HeardCalls, calls, k
  <2>2. /\ Len(HeardFurther(calls, n, delta)) = Len(calls)
        /\ \A j \in 1 .. Len(calls) :
             HeardFurther(calls, n, delta)[j]
               = IF j = n THEN [calls[j] EXCEPT !.heard = @ \o delta] ELSE calls[j]
    BY <2>1, HeardOn
  <2>3. k = [calls[n] EXCEPT !.heard = @ \o delta]
    BY DEF k
  <2>4. \A i \in 1 .. last : heard[i] = IF i = n THEN k ELSE calls[i]
    <3> TAKE i \in 1 .. last
    <3>1. CASE i = n
      BY <1>2, <2>1, <2>2, <2>3, <3>1
    <3>2. CASE i # n
      BY <1>2, <2>1, <2>2, <3>2
    <3>3. QED
      BY <3>1, <3>2
  <2>5. QED
    BY <1>2, <2>2, <2>4
<1>9. delta = <<>> => k = calls[n]
  <2> DEFINE c == calls[n]
             said == c.heard \o delta
  <2>1. c \in HeardCalls
    <3> HIDE DEF HeardCalls, calls
    <3>1. QED
      BY <1>1, <1>2, ElementOfSeq
  <2>2. k = [c EXCEPT !.heard = said]
    OBVIOUS
  <2> HIDE DEF c
  <2>3. c.heard \in Seq(AllTokens)
    BY <2>1 DEF HeardCalls
  <2>4. delta = <<>> => said = c.heard
    BY <2>3, ConcatEmptySeq
  <2> HIDE DEF said, k
  <2>5. QED
    BY <2>1, <2>2, <2>4 DEF HeardCalls, c
<1> HIDE DEF k, heard, last, calls
<1>10. next.client.calls = calls
  BY <1>5 DEF calls
<1>11. CASE delta = <<>>
  <2>1. /\ next \in ResponsesTranslators
        /\ Len(next.toolCalls) = last /\ Len(next.client.calls) = last
        /\ \A i \in 1 .. last :
             /\ next.toolCalls[i] = IF i = n THEN kept ELSE r.toolCalls[i]
             /\ next.client.calls[i] = IF i = n THEN k ELSE calls[i]
    BY <1>2, <1>3, <1>5, <1>9, <1>10, <1>11
  <2>2. PieceAt(r, next, n, kept, delta)
    BY <2>1 DEF PieceAt, k, calls, last
  <2>3. QED
    BY <1>11, <2>2 DEF next
<1>12. CASE delta # <<>>
  <2>1. /\ told \in ResponsesTranslators
        /\ Len(told.toolCalls) = last /\ Len(told.client.calls) = last
        /\ \A i \in 1 .. last :
             /\ told.toolCalls[i] = IF i = n THEN kept ELSE r.toolCalls[i]
             /\ told.client.calls[i] = IF i = n THEN k ELSE calls[i]
    BY <1>3, <1>6, <1>7, <1>8
  <2>2. PieceAt(r, told, n, kept, delta)
    BY <2>1 DEF PieceAt, k, calls, last
  <2>3. QED
    BY <1>12, <2>2 DEF told, next
<1>13. QED
  BY <1>11, <1>12

\* A tool call that begins, and one that goes on.
LEMMA EntryBegins ==
  ASSUME NEW inputs \in Seq(CallStates), NEW r \in ResponsesTranslators,
         NEW whole \in BOOLEAN, NEW n \in Int, CallsHave(inputs, r, whole, n),
         NEW tc, tc.new, tc.piece = <<>>, tc.custom \in BOOLEAN
  PROVE  /\ Argument(inputs, tc) \in Seq(CallStates)
         /\ RToolDelta(r, tc) \in ResponsesTranslators
         /\ CallsHave(Argument(inputs, tc), RToolDelta(r, tc), whole, 0)
<1> DEFINE call == NewCall(tc.custom)
           k == [heard |-> <<>>, final |-> <<>>]
           last == Len(inputs)
           states == Append(r.toolCalls, call)
           added == [r EXCEPT !.toolCalls = Append(@, NewCall(tc.custom))]
           q == TellCall(added, "item_added", last + 1, <<>>)
           calls == r.client.calls
           all == Append(inputs, call)
<1>1. /\ last \in Nat /\ Len(r.toolCalls) = last /\ Len(calls) = last
      /\ \A i \in 1 .. last : CallHas(inputs[i], r.toolCalls[i], calls[i], whole, i <= n)
  BY DEF CallsHave
<1>2. r.toolCalls \in Seq(CallStates) /\ calls \in Seq(HeardCalls)
  BY DEF ResponsesTranslators, ResponseReaders, HeardCalls
<1>3. /\ call \in CallStates /\ call.custom = tc.custom /\ call.arguments = <<>>
      /\ call.inputEmitted = 0
  BY DEF NewCall, CallStates
<1>4. k \in HeardCalls
  BY DEF HeardCalls
<1>5. CallHas(call, call, k, whole, FALSE)
  <2>1. AllWords(call.arguments)
    BY <1>3 DEF AllWords
  <2>2. Input(call) = <<>> /\ ~BreaksOff(call.arguments) /\ Shaped(call)
    BY <1>3, <2>1, InputShape DEF Shaped
  <2> HIDE DEF call
  <2>3. QED
    BY <1>3, <2>2 DEF CallHas
<1> HIDE DEF k, call, last, calls
<1>6. /\ states \in Seq(CallStates) /\ Len(states) = last + 1 /\ states[last + 1] = call
      /\ \A i \in 1 .. last : states[i] = r.toolCalls[i]
  <2> HIDE DEF CallStates
  <2>1. QED
    BY <1>1, <1>2, <1>3, AppendProperties
<1>7. added = [r EXCEPT !.toolCalls = states]
  BY DEF call
<1> HIDE DEF states
<1>8. added \in ResponsesTranslators /\ added.toolCalls = states /\ added.client = r.client
  <2> HIDE DEF CallStates, ResponseReaders, added
  <2>1. QED
    BY <1>6, <1>7 DEF ResponsesTranslators
<1> HIDE DEF added
<1>9. /\ q \in ResponsesTranslators /\ q.toolCalls = states
      /\ q.client.calls = Append(added.client.calls, [heard |-> <<>>, final |-> <<>>])
  <2>1. <<>> \in Seq(ArgumentTokens) /\ last + 1 \in Nat \ {0}
    BY <1>1
  <2>2. QED
    BY <1>8, <2>1, CallTold
<1>10. q.client.calls = Append(calls, k)
  BY <1>8, <1>9 DEF calls, k
<1>11. /\ Len(q.client.calls) = last + 1 /\ q.client.calls[last + 1] = k
       /\ \A i \in 1 .. last : q.client.calls[i] = calls[i]
  <2> DEFINE more == Append(calls, k)
  <2>1. calls \in Seq(HeardCalls) /\ k \in HeardCalls /\ Len(calls) = last
    BY <1>1, <1>2, <1>4
  <2> HIDE DEF HeardCalls
  <2>2. /\ Len(more) = last + 1 /\ more[last + 1] = k
        /\ \A i \in 1 .. last : more[i] = calls[i]
    BY <1>1, <2>1, AppendProperties
  <2> HIDE DEF more
  <2>3. q.client.calls = more
    BY <1>10 DEF more
  <2>4. QED
    BY <2>2, <2>3
<1>12. /\ all \in Seq(CallStates) /\ Len(all) = last + 1 /\ all[last + 1] = call
       /\ \A i \in 1 .. last : all[i] = inputs[i]
  <2>1. inputs \in Seq(CallStates) /\ call \in CallStates /\ Len(inputs) = last
    BY <1>3 DEF last
  <2> HIDE DEF CallStates
  <2>2. QED
    BY <1>1, <2>1, AppendProperties
<1>13. Argument(inputs, tc) = all
  BY DEF Argument, call
<1>14. RToolDelta(r, tc) = q
  <2>1. Len(added.toolCalls) = last + 1
    BY <1>6, <1>8
  <2>2. RToolDelta(r, tc) = Argued(TellCall(added, "item_added", Len(added.toolCalls), <<>>), <<>>)
    BY DEF RToolDelta, added
  <2>3. RToolDelta(r, tc) = Argued(q, <<>>)
    BY <2>1, <2>2
  <2> HIDE DEF q
  <2>4. QED
    BY <2>3 DEF Argued
<1> HIDE DEF q, all
<1>15. \A i \in 1 .. last + 1 : CallHas(all[i], q.toolCalls[i], q.client.calls[i], whole, i <= 0)
  <2> TAKE i \in 1 .. last + 1
  <2>1. CASE i = last + 1
    <3>1. ~(i <= 0)
      BY <1>1
    <3>2. all[i] = call /\ q.toolCalls[i] = call /\ q.client.calls[i] = k
      BY <1>6, <1>9, <1>11, <1>12, <2>1
    <3>3. QED
      BY <1>5, <3>1, <3>2 DEF CallHas
  <2>2. CASE i # last + 1
    <3>1. i \in 1 .. last /\ ~(i <= 0)
      BY <1>1, <2>2
    <3>2. all[i] = inputs[i] /\ q.toolCalls[i] = r.toolCalls[i] /\ q.client.calls[i] = calls[i]
      BY <1>6, <1>9, <1>11, <1>12, <3>1
    <3>3. CallHas(inputs[i], r.toolCalls[i], calls[i], whole, i <= n)
      BY <1>1, <3>1
    <3>4. QED
      BY <3>1, <3>2, <3>3 DEF CallHas
  <2>3. QED
    BY <2>1, <2>2
<1>16. Len(q.toolCalls) = last + 1
  BY <1>6, <1>9
<1>17. CallsHave(all, q, whole, 0)
  BY <1>11, <1>12, <1>15, <1>16 DEF CallsHave
<1>18. QED
  BY <1>9, <1>12, <1>13, <1>14, <1>17

LEMMA EntryGoesOn ==
  ASSUME NEW inputs \in Seq(CallStates), NEW r \in ResponsesTranslators,
         NEW whole \in BOOLEAN, NEW n \in Int, CallsHave(inputs, r, whole, n),
         NEW tc, ~tc.new, inputs # <<>>, tc.index = Len(inputs),
         NextOf(inputs[Len(inputs)], tc.piece)
  PROVE  /\ Argument(inputs, tc) \in Seq(CallStates)
         /\ RToolDelta(r, tc) \in ResponsesTranslators
         /\ CallsHave(Argument(inputs, tc), RToolDelta(r, tc),
                      whole /\ tc.piece # <<"quote", "word">>, 0)
<1> DEFINE last == Len(inputs)
           piece == tc.piece
           s == inputs[last]
           c == r.toolCalls[last]
           k == r.client.calls[last]
           call == [c EXCEPT !.arguments = @ \o piece]
           delta == IF call.custom THEN Unsent(call) ELSE piece
           kept == IF call.custom THEN Sent(call) ELSE call
           t == [s EXCEPT !.arguments = @ \o piece]
           h == [k EXCEPT !.heard = @ \o delta]
           w == whole /\ piece # <<"quote", "word">>
           all == [inputs EXCEPT ![last] = t]
           next == [r EXCEPT !.toolCalls[last] = kept]
           q == IF delta = <<>> THEN next ELSE TellCall(next, "args_delta", last, delta)
<1>1. /\ last \in Nat /\ last \in 1 .. last /\ Len(r.toolCalls) = last
      /\ Len(r.client.calls) = last
      /\ \A i \in 1 .. last : CallHas(inputs[i], r.toolCalls[i], r.client.calls[i], whole, i <= n)
  BY EmptySeq DEF CallsHave
<1>2. r.toolCalls \in Seq(CallStates) /\ r.client.calls \in Seq(HeardCalls)
  BY DEF ResponsesTranslators, ResponseReaders, HeardCalls
<1>3. s \in CallStates /\ c \in CallStates /\ k \in HeardCalls
  <2> HIDE DEF CallStates, HeardCalls
  <2>1. QED
    BY <1>1, <1>2, ElementOfSeq
<1>4. CallHas(s, c, k, whole, last <= n) /\ NextOf(s, piece)
  BY <1>1
<1>5. /\ piece # <<>> /\ t \in CallStates
      /\ delta \in Seq(ArgumentTokens) /\ kept \in CallStates
      /\ CallHas(t, kept, h, w, FALSE)
  <2> HIDE DEF s, c, k, piece
  <2>1. PieceTaken(s, c, k, piece, whole)
    BY <1>3, <1>4, PieceHeard
  <2>2. QED
    BY <2>1 DEF PieceTaken
<1>6. Argument(inputs, tc) = all
  <2>1. tc.index \in DOMAIN inputs /\ tc.index = last
    BY <1>1
  <2>2. Argument(inputs, tc) = [inputs EXCEPT ![last].arguments = @ \o piece]
    BY <2>1 DEF Argument
  <2>3. QED
    BY <2>2
<1>7. RToolDelta(r, tc) = q
  <2>1. RToolDelta(r, tc) = Argued(r, piece)
    BY DEF RToolDelta
  <2>2. Len(r.toolCalls) = last /\ last # 0 /\ piece # <<>>
    BY <1>1, <1>5
  <2>3. QED
    BY <2>1, <2>2 DEF Argued
<1>8. PieceAt(r, q, last, kept, delta)
  <2>1. last \in 1 .. Len(r.toolCalls) /\ Len(r.client.calls) = Len(r.toolCalls)
    BY <1>1
  <2> HIDE DEF kept, delta, last
  <2>2. QED
    BY <1>5, <2>1, PieceGoes
<1> HIDE DEF q, kept, delta, call
<1> HIDE DEF t
<1>10. /\ all \in Seq(CallStates) /\ Len(all) = last
       /\ \A i \in 1 .. last : all[i] = IF i = last THEN t ELSE inputs[i]
  <2> HIDE DEF CallStates
  <2>1. QED
    BY <1>1, <1>5, ExceptSeq
<1> HIDE DEF all
<1>11. \A i \in 1 .. last : CallHas(all[i], q.toolCalls[i], q.client.calls[i], w, i <= 0)
  <2> TAKE i \in 1 .. last
  <2>1. ~(i <= 0)
    BY <1>1
  <2> HIDE DEF w
  <2>2. CASE i = last
    <3>1. all[i] = t
      BY <1>10, <2>2
    <3>2. q.toolCalls[i] = kept
      BY <1>1, <1>8, <2>2 DEF PieceAt
    <3>3. q.client.calls[i] = h
      BY <1>1, <1>8, <2>2 DEF PieceAt
    <3> HIDE DEF h
    <3>4. QED
      BY <1>5, <2>1, <3>1, <3>2, <3>3 DEF CallHas
  <2>3. CASE i # last
    <3>1. all[i] = inputs[i]
      BY <1>10, <2>3
    <3>2. q.toolCalls[i] = r.toolCalls[i] /\ q.client.calls[i] = r.client.calls[i]
      BY <1>1, <1>8, <2>3 DEF PieceAt
    <3>3. CallHas(inputs[i], r.toolCalls[i], r.client.calls[i], whole, i <= n)
      BY <1>1
    <3>4. QED
      BY <2>1, <3>1, <3>2, <3>3 DEF CallHas, w
  <2>4. QED
    BY <2>2, <2>3
<1>12. Len(q.toolCalls) = last /\ Len(q.client.calls) = last
  BY <1>1, <1>8 DEF PieceAt
<1>13. CallsHave(all, q, w, 0)
  BY <1>10, <1>11, <1>12 DEF CallsHave
<1>14. q \in ResponsesTranslators
  BY <1>8 DEF PieceAt
<1>15. QED
  BY <1>6, <1>7, <1>10, <1>13, <1>14

\* What a call is told of at the finish.
LEMMA CallClosed ==
  ASSUME NEW inputs \in Seq(CallStates), NEW r \in ResponsesTranslators,
         NEW whole \in BOOLEAN, NEW i \in 1 .. Len(inputs), CallsHave(inputs, r, whole, i - 1)
  PROVE  /\ CloseCall(r, i) \in ResponsesTranslators
         /\ CallsHave(inputs, CloseCall(r, i), whole, i)
<1> DEFINE last == Len(inputs)
           call == r.toolCalls[i]
           rest == IF call.custom THEN Unsent(call) ELSE <<>>
           more == TellCall(r, "args_delta", i, rest)
           told == IF rest = <<>> THEN r ELSE more
           done == TellCall(told, "args_done", i, Input(call))
           q == TellCall(done, "item_done", i, <<>>)
<1>1. /\ last \in Nat /\ i \in 1 .. last /\ i \in Nat \ {0} /\ Len(r.toolCalls) = last
      /\ Len(r.client.calls) = last
      /\ \A j \in 1 .. last :
           CallHas(inputs[j], r.toolCalls[j], r.client.calls[j], whole, j <= i - 1)
  BY DEF CallsHave
<1>2. r.toolCalls \in Seq(CallStates)
  BY DEF ResponsesTranslators
<1>3. call \in CallStates
  <2> HIDE DEF CallStates
  <2>1. QED
    BY <1>1, <1>2, ElementOfSeq
<1>4. CloseCall(r, i) = q
  BY DEF CloseCall
<1> HIDE DEF q, done, last
<1>5. /\ rest \in Seq(ArgumentTokens) /\ Input(call) \in Seq(ArgumentTokens)
      /\ <<>> \in Seq(ArgumentTokens)
  BY <1>3, InputIs
<1>6. whole => rest = <<>>
  <2>1. ASSUME whole, call.custom PROVE Unsent(call) = <<>>
    <3> DEFINE all == Input(call)
    <3> HIDE DEF call
    <3>1. call.custom /\ call.inputEmitted = Len(all) /\ Len(all) \in Nat
      <4>1. CallHas(inputs[i], call, r.client.calls[i], whole, i <= i - 1)
        BY <1>1 DEF call
      <4>2. QED
        BY <1>5, <2>1, <4>1 DEF CallHas
    <3>2. Unsent(call) = SubSeq(all, Len(all) + 1, Len(all))
      BY <3>1 DEF Unsent
    <3> HIDE DEF all
    <3>3. SubSeq(all, Len(all) + 1, Len(all)) = <<>>
      BY <3>1
    <3>4. QED
      BY <3>2, <3>3
  <2>2. QED
    BY <2>1
<1> HIDE DEF rest, call
<1>7. /\ told \in ResponsesTranslators /\ told.toolCalls = r.toolCalls
      /\ CallsHave(inputs, told, whole, i - 1)
  <2>1. CASE rest = <<>>
    BY <2>1
  <2>2. CASE rest # <<>>
    <3>1. ~whole /\ told = more
      BY <1>6, <2>2
    <3>2. /\ more \in ResponsesTranslators /\ more.toolCalls = r.toolCalls
          /\ more.client.calls = HeardFurther(r.client.calls, i, rest)
      BY <1>1, <1>5, CallTold
    <3> HIDE DEF more
    <3> DEFINE calls == r.client.calls
    <3>3. calls \in Seq(HeardCalls) /\ i \in 1 .. Len(calls)
      BY <1>1 DEF ResponsesTranslators, ResponseReaders, HeardCalls
    <3>4. /\ Len(HeardFurther(calls, i, rest)) = Len(calls)
          /\ \A j \in 1 .. Len(calls) :
               HeardFurther(calls, i, rest)[j]
                 = IF j = i THEN [calls[j] EXCEPT !.heard = @ \o rest] ELSE calls[j]
      <4> HIDE DEF calls
      <4>1. QED
        BY <1>5, <3>3, HeardOn
    <3>5. \A j \in 1 .. last :
            CallHas(inputs[j], more.toolCalls[j], more.client.calls[j], whole, j <= i - 1)
      <4> TAKE j \in 1 .. last
      <4>1. CallHas(inputs[j], r.toolCalls[j], calls[j], whole, j <= i - 1)
        BY <1>1
      <4>2. CASE j = i
        <5>1. ~(j <= i - 1)
          BY <1>1, <4>2
        <5>2. QED
          BY <3>1, <3>2, <4>1, <5>1 DEF CallHas
      <4>3. CASE j # i
        <5>1. more.client.calls[j] = calls[j]
          BY <1>1, <3>2, <3>4, <4>3
        <5>2. QED
          BY <3>2, <4>1, <5>1
      <4>4. QED
        BY <4>2, <4>3
    <3>6. CallsHave(inputs, more, whole, i - 1)
      BY <1>1, <3>2, <3>4, <3>5 DEF CallsHave, last
    <3>7. QED
      BY <3>1, <3>2, <3>6
  <2>3. QED
    BY <2>1, <2>2
<1> HIDE DEF told
<1>8. /\ done \in ResponsesTranslators /\ done.toolCalls = told.toolCalls
      /\ done.client.calls = HeardAll(told.client.calls, i, Input(call))
  BY <1>1, <1>5, <1>7, CallTold DEF done
<1>9. /\ q \in ResponsesTranslators /\ q.toolCalls = done.toolCalls
      /\ q.client.calls = done.client.calls
  BY <1>1, <1>5, <1>8, CallTold DEF q
<1> DEFINE calls == told.client.calls
           all == Input(call)
<1>10. /\ Len(calls) = last /\ calls \in Seq(HeardCalls)
       /\ \A j \in 1 .. last : CallHas(inputs[j], r.toolCalls[j], calls[j], whole, j <= i - 1)
  BY <1>7 DEF CallsHave, last, ResponsesTranslators, ResponseReaders, HeardCalls
<1> HIDE DEF calls
<1>11. /\ Len(HeardAll(calls, i, all)) = last
       /\ \A j \in 1 .. last :
            HeardAll(calls, i, all)[j] = IF j = i THEN [calls[j] EXCEPT !.final = all] ELSE calls[j]
  <2>1. calls \in Seq(HeardCalls) /\ i \in 1 .. Len(calls) /\ all \in Seq(ArgumentTokens)
    BY <1>1, <1>5, <1>10
  <2> HIDE DEF all
  <2>2. /\ Len(HeardAll(calls, i, all)) = Len(calls)
        /\ \A j \in 1 .. Len(calls) :
             HeardAll(calls, i, all)[j]
               = IF j = i THEN [calls[j] EXCEPT !.final = all] ELSE calls[j]
    BY <2>1, HeardOn
  <2>3. QED
    BY <1>10, <2>2
<1>12. q.toolCalls = r.toolCalls /\ q.client.calls = HeardAll(calls, i, all)
  BY <1>7, <1>8, <1>9 DEF calls
<1>13. \A j \in 1 .. last : CallHas(inputs[j], q.toolCalls[j], q.client.calls[j], whole, j <= i)
  <2> TAKE j \in 1 .. last
  <2>1. CallHas(inputs[j], r.toolCalls[j], calls[j], whole, j <= i - 1)
    BY <1>10
  <2>2. CASE j = i
    <3> DEFINE k == calls[i]
               h == [k EXCEPT !.final = all]
    <3>1. k \in HeardCalls
      <4> HIDE DEF HeardCalls
      <4>1. QED
        BY <1>1, <1>10, ElementOfSeq
    <3> HIDE DEF k, all
    <3>2. h.heard = k.heard /\ h.final = all
      BY <3>1 DEF HeardCalls
    <3>3. q.client.calls[j] = h /\ q.toolCalls[j] = call
      BY <1>1, <1>11, <1>12, <2>2 DEF k, call
    <3> HIDE DEF h
    <3>4. CallHas(inputs[j], call, k, whole, j <= i - 1)
      BY <2>1, <2>2 DEF k, call
    <3>5. QED
      BY <3>2, <3>3, <3>4 DEF CallHas, all
  <2>3. CASE j # i
    <3>1. q.client.calls[j] = calls[j] /\ q.toolCalls[j] = r.toolCalls[j]
      BY <1>11, <1>12, <2>3
    <3>2. j <= i => j <= i - 1
      BY <1>1, <2>3
    <3>3. QED
      BY <2>1, <3>1, <3>2 DEF CallHas
  <2>4. QED
    BY <2>2, <2>3
<1>14. Len(q.toolCalls) = last /\ Len(q.client.calls) = last
  BY <1>1, <1>11, <1>12
<1>15. CallsHave(inputs, q, whole, i)
  BY <1>13, <1>14 DEF CallsHave, last
<1>16. QED
  BY <1>4, <1>9, <1>15

LEMMA AllClosed ==
  ASSUME NEW inputs \in Seq(CallStates), NEW r \in ResponsesTranslators,
         NEW whole \in BOOLEAN, CallsHave(inputs, r, whole, 0)
  PROVE  LET q == FoldLeft(CloseCall, r, [i \in DOMAIN r.toolCalls |-> i])
         IN /\ CallsHave(inputs, q, whole, Len(inputs))
            /\ q \in ResponsesTranslators /\ q.toolCalls = r.toolCalls
<1> DEFINE places == [i \in DOMAIN r.toolCalls |-> i]
           q == FoldLeft(CloseCall, r, places)
           n == Len(inputs)
           E == 1 .. n
           S == {x \in ResponsesTranslators : Untouched(r, x)}
           Closed(x, i) == CallsHave(inputs, x, whole, i)
<1>1. r \in S /\ n \in Nat /\ Len(r.toolCalls) = n /\ DOMAIN r.toolCalls = 1 .. n
  BY DEF CallsHave, Untouched, ResponsesTranslators
<1>2. places \in Seq(E) /\ Len(places) = n /\ \A i \in 1 .. n : places[i] = i
  BY <1>1
<1>3. \A x \in S, i \in E : CloseCall(x, i) \in S
  <2>1. ASSUME NEW x \in S, NEW i \in E PROVE CloseCall(x, i) \in S
    <3>1. x \in ResponsesTranslators /\ i \in DOMAIN x.toolCalls
      BY <1>1 DEF Untouched
    <3>2. Untouched(x, CloseCall(x, i))
      BY <3>1, CloseCallUntouched
    <3>3. QED
      BY <3>2 DEF Untouched
  <2>2. QED
    BY <2>1
<1>4. Closed(r, 0)
  OBVIOUS
<1>5. \A x \in S, c \in 0 .. n : c + 1 <= n /\ Closed(x, c) => Closed(CloseCall(x, c + 1), c + 1)
  <2>1. ASSUME NEW x \in S, NEW c \in 0 .. n, c + 1 <= n, Closed(x, c)
        PROVE  Closed(CloseCall(x, c + 1), c + 1)
    <3>1. c + 1 \in 1 .. Len(inputs) /\ (c + 1) - 1 = c
      BY <2>1
    <3>2. CallsHave(inputs, x, whole, (c + 1) - 1) /\ x \in ResponsesTranslators
      BY <2>1, <3>1
    <3>3. QED
      BY <3>1, <3>2, CallClosed
  <2>2. QED
    BY <2>1
<1> HIDE DEF S, E, Closed, places
<1>6. PICK h : CloseCallRuns(S, h, r, places)
  BY <1>1, <1>2, <1>3, CloseCallRunsAre
<1>7. /\ h \in [0 .. n -> S] /\ h[0] = r /\ h[n] = q
      /\ \A i \in 1 .. n : h[i] = CloseCall(h[i - 1], places[i])
  BY <1>2, <1>6 DEF CloseCallRuns
<1> DEFINE U == {i \in Nat : i <= n => Closed(h[i], i)}
<1>8. 0 \in U
  BY <1>4, <1>7
<1>9. ASSUME NEW i \in U PROVE i + 1 \in U
  <2> SUFFICES ASSUME i + 1 <= n PROVE Closed(h[i + 1], i + 1)
    OBVIOUS
  <2>1. i + 1 \in 1 .. n /\ (i + 1) - 1 = i /\ i <= n /\ i \in 0 .. n
    BY <1>1
  <2>2. h[i + 1] = CloseCall(h[i], i + 1)
    BY <1>2, <1>7, <2>1
  <2>3. h[i] \in S /\ Closed(h[i], i)
    BY <1>7, <2>1
  <2>4. QED
    BY <1>5, <2>1, <2>2, <2>3
<1>10. U = Nat
  <2> HIDE DEF U
  <2>1. U \in SUBSET Nat
    BY DEF U
  <2>2. QED
    BY <1>8, <1>9, <2>1, NumbersByInduction
<1>11. n \in 0 .. n /\ n \in U
  BY <1>1, <1>10
<1>12. q \in S /\ Closed(q, n)
  BY <1>7, <1>11
<1>13. QED
  BY <1>12 DEF S, Closed, places, Untouched

LEMMA RToolDeltaOnce ==
  ASSUME NEW r \in ResponsesTranslators, NEW calls \in Seq(ToolCalls), Len(calls) = 1
  PROVE  FoldLeft(RToolDelta, r, calls) = RToolDelta(r, calls[1])
<1> DEFINE S == ResponsesTranslators
           E == ToolCalls
<1>1. r \in S /\ calls \in Seq(E)
  OBVIOUS
<1>2. \A x \in S, e \in E : RToolDelta(x, e) \in S
  BY RToolDeltaIs
<1> HIDE DEF S, E
<1>3. QED
  BY <1>1, <1>2, RToolDeltaFold, ZenonT(60)

LEMMA NoneClosed ==
  ASSUME NEW inputs, NEW r, NEW whole, NEW n \in Nat, CallsHave(inputs, r, whole, n),
         Len(inputs) \in Nat
  PROVE  CallsHave(inputs, r, whole, 0)
<1>1. ASSUME NEW i \in 1 .. Len(inputs)
      PROVE  CallHas(inputs[i], r.toolCalls[i], r.client.calls[i], whole, i <= 0)
  <2>1. i <= 0 => i <= n
    OBVIOUS
  <2>2. CallHas(inputs[i], r.toolCalls[i], r.client.calls[i], whole, i <= n)
    BY DEF CallsHave
  <2>3. QED
    BY <2>1, <2>2 DEF CallHas
<1>2. QED
  BY <1>1 DEF CallsHave

\* The finish closes every call.
LEMMA FinishHeard ==
  ASSUME NEW inputs \in Seq(CallStates), NEW r \in ResponsesTranslators, r.outputIndex = 0,
         NEW whole \in BOOLEAN, CallsHave(inputs, r, whole, 0)
  PROVE  CallsHave(inputs, RFinish(r), whole, Len(inputs))
<1> DEFINE a1 == TellPart(r, "text_done", <<>>)
           a2 == TellPart(a1, "part_done", <<>>)
           a3 == Tell(a2, "item_done", r.outputIndex, TheMessage)
           moved == [a3 EXCEPT !.outputIndex = @ + 1]
           texted == IF r.hasText THEN moved ELSE r
           last == TellPart(texted, "reasoning_done", <<>>)
           thought == IF texted.inReasoning THEN [last EXCEPT !.inReasoning = FALSE] ELSE texted
           called == FoldLeft(CloseCall, thought, [i \in DOMAIN r.toolCalls |-> i])
           e == Full("completed", 0, TheMessage, 0, <<>>, BuildOutput(r))
           told == RTold(called, e)
           q == [told EXCEPT !.finished = TRUE]
           thought2 == IF r.inReasoning THEN [last EXCEPT !.inReasoning = FALSE] ELSE texted
<1>1. RFinish(r) = [RTold(FoldLeft(CloseCall, thought2, [i \in DOMAIN r.toolCalls |-> i]), e)
                      EXCEPT !.finished = TRUE]
  BY DEF RFinish
<1>2. /\ {"text_done", "part_done", "item_done", "reasoning_done"} \subseteq MessageTypes
      /\ {"text_done", "part_done", "item_done", "reasoning_done"} \subseteq QuietTypes
      /\ <<>> \in Seq(Tokens) /\ TheMessage \in Nat /\ r.outputIndex \in Nat
  BY DEF MessageTypes, QuietTypes, EventTypes, TheMessage, ResponsesTranslators
<1>3. SameCalls(r, a1) /\ a1 \in ResponsesTranslators /\ RSame(r, a1)
      /\ a1.inReasoning = r.inReasoning
  BY <1>2, MessageTold, TellPartIs
<1> HIDE DEF a1
<1>4. SameCalls(a1, a2) /\ a2 \in ResponsesTranslators /\ RSame(a1, a2)
      /\ a2.inReasoning = a1.inReasoning
  BY <1>2, <1>3, MessageTold, TellPartIs
<1> HIDE DEF a2
<1>5. SameCalls(a2, a3) /\ a3 \in ResponsesTranslators /\ RSame(a2, a3)
      /\ a3.inReasoning = a2.inReasoning
  BY <1>2, <1>4, MessageTold, TellIs
<1> HIDE DEF a3
<1>6. a3.outputIndex = 0
  BY <1>3, <1>4, <1>5 DEF RSame, RAlike
<1>7. SameCalls(a3, moved)
  BY <1>5, <1>6, FieldsOfMessage
<1>8. SameCalls(r, moved)
  BY <1>3, <1>4, <1>5, <1>7, SameCallsOn
<1>9. SameCalls(r, texted)
  BY <1>8 DEF SameCalls
<1>10. moved.inReasoning = r.inReasoning
  <2> HIDE DEF CallStates, ResponseReaders
  <2>1. QED
    BY <1>3, <1>4, <1>5 DEF ResponsesTranslators
<1>11. texted \in ResponsesTranslators /\ texted.inReasoning = r.inReasoning
  BY <1>9, <1>10 DEF SameCalls
<1> HIDE DEF texted, moved
<1>12. SameCalls(texted, last) /\ last \in ResponsesTranslators
  BY <1>2, <1>11, MessageTold, TellPartIs
<1> HIDE DEF last
<1>13. SameCalls(last, [last EXCEPT !.inReasoning = FALSE])
  BY <1>12, FieldsOfMessage
<1>14. SameCalls(texted, [last EXCEPT !.inReasoning = FALSE])
  BY <1>12, <1>13, SameCallsOn
<1>15. SameCalls(texted, thought)
  BY <1>11, <1>14 DEF SameCalls
<1>16. RFinish(r) = q
  BY <1>1, <1>11
<1> HIDE DEF thought
<1>17. SameCalls(r, thought) /\ thought \in ResponsesTranslators
       /\ thought.toolCalls = r.toolCalls
  BY <1>9, <1>15, SameCallsOn DEF SameCalls
<1>18. CallsHave(inputs, thought, whole, 0)
  BY <1>17, CallsHaveOn
<1>19. CallsHave(inputs, called, whole, Len(inputs)) /\ called \in ResponsesTranslators
  <2>1. called = FoldLeft(CloseCall, thought, [i \in DOMAIN thought.toolCalls |-> i])
    BY <1>17
  <2>2. QED
    BY <1>17, <1>18, <2>1, AllClosed
<1> HIDE DEF called
<1>20. e \in ResponseEvents /\ e.type \in MessageTypes /\ e.type # "item_added"
  <2>1. BuildOutput(r) \in Seq(Nat)
    BY BuildOutputIs DEF Ordered
  <2>2. "completed" \in MessageTypes /\ "completed" \in EventTypes /\ <<>> \in Seq(AllTokens)
    BY DEF MessageTypes, EventTypes
  <2>3. QED
    BY <1>2, <2>1, <2>2 DEF Full, ResponseEvents
<1> HIDE DEF e
<1>21. SameCalls(called, told) /\ told \in ResponsesTranslators
  BY <1>19, <1>20, ToldOfMessage DEF SameCalls
<1> HIDE DEF told
<1>22. SameCalls(told, q)
  BY <1>21, FieldsOfMessage
<1>23. SameCalls(called, q)
  BY <1>21, <1>22, SameCallsOn
<1>24. CallsHave(inputs, q, whole, Len(inputs))
  BY <1>19, <1>23, CallsHaveOn
<1>25. QED
  BY <1>16, <1>24

\* A chunk up to its tool calls.
LEMMA BegunHeard ==
  ASSUME NEW r \in ResponsesTranslators, ~r.finished => r.outputIndex = 0,
         NEW pieces \in Seq(NormalizedPieces)
  PROVE  LET begun == IF r.started THEN r
                      ELSE Tell([r EXCEPT !.started = TRUE], "created", 0, TheMessage)
             q == FoldLeft(RPiece, begun, pieces)
         IN /\ SameCalls(r, q) /\ q \in ResponsesTranslators
            /\ q.finished = r.finished /\ (~q.finished => q.outputIndex = 0)
<1> DEFINE lit == [r EXCEPT !.started = TRUE]
           created == Tell(lit, "created", 0, TheMessage)
           begun == IF r.started THEN r ELSE created
           q == FoldLeft(RPiece, begun, pieces)
<1>1. /\ SameCalls(r, lit) /\ lit \in ResponsesTranslators
      /\ lit.finished = r.finished /\ lit.outputIndex = r.outputIndex
  <2>1. SameCalls(r, lit)
    BY FieldsOfMessage
  <2>2. lit.finished = r.finished /\ lit.outputIndex = r.outputIndex
    <3> HIDE DEF CallStates, ResponseReaders
    <3>1. QED
      BY DEF ResponsesTranslators
  <2>3. QED
    BY <2>1, <2>2 DEF SameCalls
<1> HIDE DEF lit
<1>2. "created" \in MessageTypes /\ "created" \in QuietTypes /\ 0 \in Nat /\ TheMessage \in Nat
  BY DEF MessageTypes, QuietTypes, EventTypes, TheMessage
<1>3. SameCalls(lit, created) /\ created \in ResponsesTranslators /\ RSame(lit, created)
  BY <1>1, <1>2, MessageTold, TellIs
<1> HIDE DEF created
<1>4. SameCalls(r, created)
  BY <1>1, <1>3, SameCallsOn
<1>5. SameCalls(r, begun) /\ begun \in ResponsesTranslators
      /\ begun.finished = r.finished /\ begun.outputIndex = r.outputIndex
  BY <1>1, <1>3, <1>4 DEF SameCalls, RSame, RAlike
<1> HIDE DEF begun
<1>6. SameCalls(begun, q) /\ q \in ResponsesTranslators /\ RAlike(begun, q)
  BY <1>5, RPiecesCalls, RPiecesAre
<1> HIDE DEF q
<1>7. SameCalls(r, q)
  BY <1>5, <1>6, SameCallsOn
<1>8. q.finished = r.finished /\ (~q.finished => q.outputIndex = 0)
  BY <1>5, <1>6 DEF RAlike
<1>9. QED
  BY <1>6, <1>7, <1>8 DEF q, begun, created, lit

\* A chunk without tool calls.
LEMMA QuietChunkHeard ==
  ASSUME NEW inputs \in Seq(CallStates), NEW r \in ResponsesTranslators,
         ~r.finished => r.outputIndex = 0,
         NEW pieces \in Seq(NormalizedPieces), NEW finish \in BOOLEAN,
         NEW whole \in BOOLEAN, NEW n \in Nat, CallsHave(inputs, r, whole, n)
  PROVE  LET q == ResponsesChunk(r, pieces, <<>>, finish)
         IN CallsHave(inputs, q, whole, IF finish /\ ~r.finished THEN Len(inputs) ELSE n)
<1> DEFINE begun == IF r.started THEN r
                    ELSE Tell([r EXCEPT !.started = TRUE], "created", 0, TheMessage)
           told == FoldLeft(RPiece, begun, pieces)
           q == ResponsesChunk(r, pieces, <<>>, finish)
<1>1. q = IF finish /\ ~told.finished THEN RFinish(told) ELSE told
  BY DEF ResponsesChunk, RToolDeltas
<1> HIDE DEF q
<1>2. /\ SameCalls(r, told) /\ told \in ResponsesTranslators
      /\ told.finished = r.finished /\ (~told.finished => told.outputIndex = 0)
  BY BegunHeard
<1> HIDE DEF told
<1>3. CallsHave(inputs, told, whole, n)
  BY <1>2, CallsHaveOn
<1>4. CASE finish /\ ~r.finished
  <2>1. CallsHave(inputs, told, whole, 0)
    <3>1. Len(inputs) \in Nat
      OBVIOUS
    <3>2. QED
      BY <1>3, <3>1, NoneClosed
  <2>2. CallsHave(inputs, RFinish(told), whole, Len(inputs))
    BY <1>2, <1>4, <2>1, FinishHeard
  <2>3. q = RFinish(told)
    BY <1>1, <1>2, <1>4
  <2>4. QED
    BY <1>4, <2>2, <2>3 DEF q
<1>5. CASE ~(finish /\ ~r.finished)
  <2>1. q = told
    BY <1>1, <1>2, <1>5
  <2>2. QED
    BY <1>3, <1>5, <2>1 DEF q
<1>6. QED
  BY <1>4, <1>5

\* A chunk with an entry of a tool call.
LEMMA EntryChunkHeard ==
  ASSUME NEW inputs \in Seq(CallStates), NEW r \in ResponsesTranslators,
         ~r.finished => r.outputIndex = 0, NEW tc \in ToolCalls,
         NEW whole \in BOOLEAN, NEW n \in Nat, CallsHave(inputs, r, whole, n),
         \/ tc.new /\ tc.piece = <<>>
         \/ /\ ~tc.new /\ inputs # <<>> /\ tc.index = Len(inputs)
            /\ NextOf(inputs[Len(inputs)], tc.piece)
  PROVE  CallsHave(Argument(inputs, tc), ResponsesChunk(r, <<>>, <<tc>>, FALSE),
                   whole /\ tc.piece # <<"quote", "word">>, 0)
<1> DEFINE begun == IF r.started THEN r
                    ELSE Tell([r EXCEPT !.started = TRUE], "created", 0, TheMessage)
           said == FoldLeft(RPiece, begun, <<>>)
           out == [said EXCEPT !.inReasoning = FALSE]
           told == FoldLeft(RToolDelta, out, <<tc>>)
           q == ResponsesChunk(r, <<>>, <<tc>>, FALSE)
           w == whole /\ tc.piece # <<"quote", "word">>
<1>1. q = told
  BY DEF ResponsesChunk, RToolDeltas
<1> HIDE DEF q
<1>2. SameCalls(r, said) /\ said \in ResponsesTranslators
  <2>1. <<>> \in Seq(NormalizedPieces)
    OBVIOUS
  <2>2. QED
    BY <2>1, BegunHeard
<1> HIDE DEF said
<1>3. SameCalls(said, out)
  BY <1>2, FieldsOfMessage
<1>4. SameCalls(r, out) /\ out \in ResponsesTranslators
  BY <1>2, <1>3, SameCallsOn DEF SameCalls
<1> HIDE DEF out
<1>5. CallsHave(inputs, out, whole, n)
  BY <1>4, CallsHaveOn
<1>6. told = RToolDelta(out, tc)
  <2> DEFINE entries == <<tc>>
  <2>1. entries \in Seq(ToolCalls) /\ Len(entries) = 1 /\ entries[1] = tc
    OBVIOUS
  <2> HIDE DEF entries
  <2>2. FoldLeft(RToolDelta, out, entries) = RToolDelta(out, entries[1])
    BY <1>4, <2>1, RToolDeltaOnce
  <2>3. QED
    BY <2>1, <2>2 DEF entries
<1>7. CASE tc.new /\ tc.piece = <<>>
  <2>1. tc.custom \in BOOLEAN /\ n \in Int
    BY DEF ToolCalls
  <2>2. CallsHave(Argument(inputs, tc), RToolDelta(out, tc), whole, 0)
    BY <1>4, <1>5, <1>7, <2>1, EntryBegins
  <2>3. w = whole
    BY <1>7
  <2> HIDE DEF w
  <2>4. CallsHave(Argument(inputs, tc), q, w, 0)
    BY <1>1, <1>6, <2>2, <2>3
  <2>5. QED
    BY <2>4 DEF w, q
<1>8. CASE /\ ~tc.new /\ inputs # <<>> /\ tc.index = Len(inputs)
           /\ NextOf(inputs[Len(inputs)], tc.piece)
  <2>1. n \in Int
    OBVIOUS
  <2>2. CallsHave(Argument(inputs, tc), RToolDelta(out, tc), w, 0)
    BY <1>4, <1>5, <1>8, <2>1, EntryGoesOn
  <2> HIDE DEF w
  <2>3. CallsHave(Argument(inputs, tc), q, w, 0)
    BY <1>1, <1>6, <2>2
  <2>4. QED
    BY <2>3 DEF w, q
<1>9. QED
  BY <1>7, <1>8

\* The flush.
LEMMA FlushHeard ==
  ASSUME NEW inputs \in Seq(CallStates), NEW r \in ResponsesTranslators,
         ~r.finished => r.outputIndex = 0, NEW pieces \in Seq(NormalizedPieces),
         NEW whole \in BOOLEAN, NEW n \in Nat, CallsHave(inputs, r, whole, n)
  PROVE  CallsHave(inputs, ResponsesFlush(r, pieces), whole,
                   IF r.finished THEN n ELSE Len(inputs))
<1> DEFINE told == FoldLeft(RPiece, r, pieces)
           q == ResponsesFlush(r, pieces)
<1>1. q = IF told.finished THEN told ELSE RFinish(told)
  BY DEF ResponsesFlush
<1> HIDE DEF q
<1>2. SameCalls(r, told) /\ told \in ResponsesTranslators /\ RAlike(r, told)
  BY RPiecesCalls, RPiecesAre
<1> HIDE DEF told
<1>3. CallsHave(inputs, told, whole, n)
  BY <1>2, CallsHaveOn
<1>4. told.finished = r.finished /\ (~told.finished => told.outputIndex = 0)
  BY <1>2 DEF RAlike
<1>5. CASE r.finished
  BY <1>1, <1>3, <1>4, <1>5 DEF q
<1>6. CASE ~r.finished
  <2>1. CallsHave(inputs, told, whole, 0)
    <3>1. Len(inputs) \in Nat
      OBVIOUS
    <3>2. QED
      BY <1>3, <3>1, NoneClosed
  <2>2. CallsHave(inputs, RFinish(told), whole, Len(inputs))
    BY <1>2, <1>4, <1>6, <2>1, FinishHeard
  <2>3. QED
    BY <1>1, <1>4, <1>6, <2>2 DEF q
<1>7. QED
  BY <1>5, <1>6

-----------------------------------------------------------------------------
(*****************************************************************************)
(* What a wrapped input says, and the entries that a chunk has for calls.    *)
(*****************************************************************************)

\* What a wrapped input says is what the translator takes out of it.
LEMMA WordsOf ==
  ASSUME NEW X, NEW a \in Seq(X), NEW b \in Seq(X), NEW m \in Nat \ {0}, NEW k \in Nat,
         {i \in DOMAIN a : a[i] = "word"} = m .. k, k + 1 >= m,
         Len(b) = (k + 1) - m, \A i \in 1 .. Len(b) : b[i] = "word"
  PROVE  Words(a) = b
<1> DEFINE n == (k + 1) - m
<1>1. n \in Nat
  OBVIOUS
<1>2. Cardinality(m .. k) = n
  <2>1. m \in Int /\ k \in Int
    OBVIOUS
  <2>2. Cardinality(m .. k) = IF m > k THEN 0 ELSE k - m + 1
    BY <2>1, FS_Interval
  <2>3. QED
    BY <1>1, <2>2
<1>3. CountOf("word", a) = n
  BY <1>2 DEF CountOf
<1> DEFINE w == [i \in 1 .. n |-> "word"]
<1>4. Words(a) = w
  BY <1>3 DEF Words
<1> HIDE DEF n
<1>5. b \in [1 .. n -> {"word"}]
  <2>1. Len(b) = n
    BY DEF n
  <2>2. DOMAIN b = 1 .. n /\ b = [i \in 1 .. n |-> b[i]]
    BY <2>1
  <2>3. QED
    BY <2>1, <2>2
<1>6. w \in [1 .. n -> {"word"}]
  OBVIOUS
<1>7. w = b
  BY <1>5, <1>6
<1>8. QED
  BY <1>4, <1>7

LEMMA InputMeant ==
  ASSUME NEW c \in CallStates, Shaped(c)
  PROVE  Input(c) = IF BreaksOff(c.arguments) THEN c.arguments ELSE Words(c.arguments)
<1> DEFINE a == c.arguments
           n == Len(a)
<1>1. a \in Seq(ArgumentTokens) /\ n \in Nat
  BY DEF CallStates
<1>2. /\ ~c.custom => Input(c) = a
      /\ AllWords(a) => Input(c) = a /\ ~BreaksOff(a)
      /\ Wrapping(a) => (BreaksOff(a) <=> a[n] # "quote")
      /\ Wrapping(a) /\ a[n] # "quote" => Input(c) = a
      /\ Wrapping(a) /\ c.custom /\ a[n] = "quote" => Input(c) = SubSeq(a, 2, n - 1)
  BY InputShape
<1>3. AllWords(a) \/ (c.custom /\ Wrapping(a))
  BY DEF Shaped
<1> HIDE DEF a
<1>4. CASE AllWords(a)
  <2>1. /\ {i \in DOMAIN a : a[i] = "word"} = 1 .. n /\ n + 1 >= 1
        /\ n = (n + 1) - 1 /\ \A i \in 1 .. n : a[i] = "word"
    BY <1>1, <1>4 DEF AllWords
  <2>2. Words(a) = a
    BY <1>1, <2>1, WordsOf
  <2>3. QED
    BY <1>2, <1>4, <2>2 DEF a
<1>5. CASE c.custom /\ Wrapping(a) /\ a[n] # "quote"
  BY <1>2, <1>5 DEF a
<1>6. CASE c.custom /\ Wrapping(a) /\ a[n] = "quote"
  <2> DEFINE b == SubSeq(a, 2, n - 1)
             k == n - 1
  <2>1. /\ n > 1 /\ a[1] = "quote" /\ a[n] = "quote"
        /\ \A i \in 2 .. n - 1 : a[i] = "word"
    BY <1>6 DEF Wrapping
  <2>2. k \in Nat /\ k + 1 >= 2 /\ k + 1 = n
    BY <1>1, <2>1
  <2>3. {i \in DOMAIN a : a[i] = "word"} = 2 .. k
    <3>1. ASSUME NEW i \in 1 .. n PROVE a[i] = "word" <=> i \in 2 .. k
      <4>1. CASE i = 1 \/ i = n
        <5>1. a[i] # "word" /\ i \notin 2 .. k
          BY <1>1, <2>1, <4>1
        <5>2. QED
          BY <5>1
      <4>2. CASE i # 1 /\ i # n
        <5>1. i \in 2 .. n - 1
          BY <1>1, <4>2
        <5>2. QED
          BY <2>1, <5>1
      <4>3. QED
        BY <4>1, <4>2
    <3>2. DOMAIN a = 1 .. n /\ \A i \in 2 .. k : i \in 1 .. n
      BY <1>1, <2>2
    <3>3. QED
      BY <3>1, <3>2
  <2>4. b \in Seq(ArgumentTokens) /\ Len(b) = (k + 1) - 2
        /\ \A i \in 1 .. Len(b) : b[i] = "word"
    <3>1. \A i \in 2 .. k : i \in 1 .. n
      BY <1>1, <2>2
    <3>2. b = [i \in 1 .. ((k + 1) - 2) |-> a[i + 1]]
      BY <1>1, <2>2
    <3>3. \A i \in 1 .. ((k + 1) - 2) : i + 1 \in 2 .. k
      BY <2>2
    <3>4. \A i \in 1 .. ((k + 1) - 2) : a[i + 1] = "word"
      BY <2>1, <3>3
    <3>5. "word" \in ArgumentTokens /\ (k + 1) - 2 \in Nat
      BY <2>2 DEF ArgumentTokens
    <3> HIDE DEF b, k
    <3>6. QED
      BY <3>2, <3>4, <3>5
  <2> HIDE DEF b, k
  <2>5. 2 \in Nat \ {0}
    OBVIOUS
  <2>6. Words(a) = b
    BY <1>1, <2>2, <2>3, <2>4, <2>5, WordsOf
  <2>7. QED
    BY <1>2, <1>6, <2>1, <2>6 DEF a, b, k
<1>7. QED
  BY <1>3, <1>4, <1>5, <1>6

\* The entry for a call that a chunk may have.
FirstEntry(inputs, tc) ==
  tc.new /\ tc.piece = <<>> /\ tc.index = Len(inputs) + 1
NextEntry(inputs, tc) ==
  /\ ~tc.new /\ tc.index \in DOMAIN inputs \cup {1}
  /\ tc.piece \in NextPieces(inputs, tc.index)

LEMMA EntryShape ==
  ASSUME NEW p \in ModelPlaces, NEW inputs \in Seq(CallStates),
         NEW chunk \in Chunks(p, inputs), chunk.toolCalls # <<>>
  PROVE  /\ chunk.toolCalls = <<chunk.toolCalls[1]>>
         /\ FirstEntry(inputs, chunk.toolCalls[1]) \/ NextEntry(inputs, chunk.toolCalls[1])
<1> DEFINE first == [index : {Len(inputs) + 1}, new : {TRUE}, custom : BOOLEAN, piece : {<<>>}]
           next(i) == [index : {i}, new : {FALSE}, custom : {FALSE},
                       piece : NextPieces(inputs, i)]
           entries == first \cup UNION {next(i) : i \in DOMAIN inputs \cup {1}}
           tc == chunk.toolCalls[1]
<1>1. ASSUME NEW x \in entries PROVE FirstEntry(inputs, x) \/ NextEntry(inputs, x)
  <2>1. CASE x \in first
    BY <2>1 DEF FirstEntry
  <2>2. ASSUME NEW i \in DOMAIN inputs \cup {1}, x \in next(i) PROVE NextEntry(inputs, x)
    BY <2>2 DEF NextEntry
  <2>3. QED
    BY <1>1, <2>1, <2>2
<1>2. Chunks(p, inputs) =
        {NoChunk, [NoChunk EXCEPT !.reasoning = <<"thought">>], [NoChunk EXCEPT !.finish = TRUE]}
          \cup {[NoChunk EXCEPT !.content = s] : s \in Pieces[p]}
          \cup {[NoChunk EXCEPT !.toolCalls = <<x>>] : x \in entries}
  BY DEF Chunks
<1> HIDE DEF entries
<1>3. \E x \in entries : chunk.toolCalls = <<x>>
  <2>1. /\ NoChunk.toolCalls = <<>>
        /\ [NoChunk EXCEPT !.reasoning = <<"thought">>].toolCalls = <<>>
        /\ [NoChunk EXCEPT !.finish = TRUE].toolCalls = <<>>
        /\ \A s : [NoChunk EXCEPT !.content = s].toolCalls = <<>>
        /\ \A s : [NoChunk EXCEPT !.toolCalls = s].toolCalls = s
    BY DEF NoChunk
  <2> HIDE DEF NoChunk
  <2>2. \/ chunk = NoChunk \/ chunk = [NoChunk EXCEPT !.reasoning = <<"thought">>]
        \/ chunk = [NoChunk EXCEPT !.finish = TRUE]
        \/ \E s : chunk = [NoChunk EXCEPT !.content = s]
        \/ \E x \in entries : chunk = [NoChunk EXCEPT !.toolCalls = <<x>>]
    BY <1>2
  <2>3. ASSUME NEW s, chunk = [NoChunk EXCEPT !.content = s] PROVE FALSE
    BY <2>1, <2>3
  <2>4. PICK x \in entries : chunk = [NoChunk EXCEPT !.toolCalls = <<x>>]
    BY <2>1, <2>2, <2>3, Zenon
  <2>5. chunk.toolCalls = <<x>>
    BY <2>1, <2>4
  <2>6. QED
    BY <2>5
<1>4. PICK x \in entries : chunk.toolCalls = <<x>>
  BY <1>3
<1>5. tc = x
  BY <1>4
<1>6. QED
  BY <1>1, <1>4, <1>5

LEMMA OdditiesOfCalls ==
  ASSUME NEW chunk, NEW path, NEW i \in DOMAIN chunk.toolCalls
  PROVE  LET found == Oddities(chunk, path)
             tc == chunk.toolCalls[i]
         IN /\ "noCall" \notin found => tc.new \/ sent.calls # <<>>
            /\ "interleaved" \notin found => ~(tc.index < Len(sent.calls))
            /\ "cutInput" \notin found => tc.piece # <<"quote", "word">>
            /\ "late" \notin found => ~anthropic.finished
<1> DEFINE words == chunk.content \o chunk.reasoning
           calls == chunk.toolCalls
           cut == Last(path) = "closing"
           stray == \E j \in DOMAIN chunk.content :
                      path[j] = "text" /\ chunk.content[j] = "close"
           unclosed == place # "text" /\ (calls # <<>> \/ chunk.finish)
           late == \/ words # <<>> /\ (sent.calls # <<>> \/ anthropic.finished)
                   \/ calls # <<>> /\ anthropic.finished
           noCall == \E j \in DOMAIN calls : ~calls[j].new /\ sent.calls = <<>>
           mixed == \E j \in DOMAIN calls : calls[j].index < Len(sent.calls)
           cutInput == \E j \in DOMAIN calls : calls[j].piece = <<"quote", "word">>
           kinds == Mixed(Glued(answer.content, chunk.content))
           found == Oddities(chunk, path)
<1>1. found = OddIf("cutClose", cut) \cup OddIf("strayClose", stray)
                \cup OddIf("unclosed", unclosed) \cup OddIf("late", late)
                \cup OddIf("noCall", noCall) \cup OddIf("interleaved", mixed)
                \cup OddIf("cutInput", cutInput) \cup OddIf("mixedTags", kinds)
  BY DEF Oddities
<1> HIDE DEF words, cut, stray, unclosed, late, noCall, mixed, cutInput, kinds, found
<1>2. /\ "late" \notin found => ~late
      /\ "noCall" \notin found => ~noCall
      /\ "interleaved" \notin found => ~mixed
      /\ "cutInput" \notin found => ~cutInput
  BY <1>1 DEF OddIf
<1>3. "noCall" \notin found => chunk.toolCalls[i].new \/ sent.calls # <<>>
  BY <1>2 DEF noCall
<1>4. "interleaved" \notin found => ~(chunk.toolCalls[i].index < Len(sent.calls))
  BY <1>2 DEF mixed
<1>5. "cutInput" \notin found => chunk.toolCalls[i].piece # <<"quote", "word">>
  BY <1>2 DEF cutInput
<1>6. calls # <<>>
  OBVIOUS
<1>7. "late" \notin found => ~anthropic.finished
  BY <1>2, <1>6 DEF late
<1>8. QED
  BY <1>3, <1>4, <1>5, <1>7 DEF found

\* A call that begins, and an argument of one that there is.
Fits(calls, tc) ==
  \/ tc.new /\ tc.piece = <<>> /\ tc.index = Len(calls) + 1
  \/ ~tc.new /\ tc.piece # <<>> /\ tc.index \in DOMAIN calls

\* The client counts the arguments of a call as the backend sends them.
LEMMA CountedCalled ==
  ASSUME NEW calls \in Seq(Nat), NEW tc, Fits(calls, tc), ~(tc.index < Len(calls))
  PROVE  Counted(calls, tc) = Called(calls, tc)
<1> DEFINE n == Len(calls)
<1>1. CASE tc.new
  BY <1>1 DEF Counted, Called, Fits
<1>2. CASE ~tc.new
  <2>1. tc.piece # <<>> /\ tc.index \in 1 .. n
    BY <1>2 DEF Fits
  <2>2. tc.index = n /\ calls # <<>>
    <3>1. n \in Nat /\ tc.index = n
      BY <2>1
    <3>2. calls # <<>>
      <4> SUFFICES ASSUME calls = <<>> PROVE FALSE
        OBVIOUS
      <4>1. n = 0
        OBVIOUS
      <4>2. QED
        BY <2>1, <4>1
    <3>3. QED
      BY <3>1, <3>2
  <2>3. Called(calls, tc) = [calls EXCEPT ![n] = @ + 1]
    <3>1. tc.index \in DOMAIN calls
      BY <1>2 DEF Fits
    <3>2. Called(calls, tc) = [calls EXCEPT ![tc.index] = @ + 1]
      BY <1>2, <3>1, Zenon DEF Called
    <3> HIDE DEF n
    <3>3. QED
      BY <2>2, <3>2, Zenon
  <2>4. Counted(calls, tc) = [calls EXCEPT ![n] = @ + 1]
    BY <1>2, <2>1, <2>2 DEF Counted
  <2>5. QED
    BY <2>3, <2>4
<1>3. QED
  BY <1>1, <1>2

LEMMA ExtendedCalled ==
  ASSUME NEW calls \in Seq(Nat), NEW tc, Fits(calls, tc)
  PROVE  Extended(calls, tc) = Called(calls, tc)
<1> DEFINE n == Len(calls)
           k == tc.index
           told == tc.piece # <<>>
           Now(i) == LET old == IF i \in DOMAIN calls THEN calls[i] ELSE 0
                     IN IF i = k /\ told THEN old + 1 ELSE old
           e == [i \in DOMAIN calls \cup {k} |-> Now(i)]
<1>1. Extended(calls, tc) = e
  BY DEF Extended
<1>2. n \in Nat /\ DOMAIN calls = 1 .. n /\ \A i \in 1 .. n : calls[i] \in Nat
  OBVIOUS
<1>3. CASE tc.new
  <2> DEFINE all == Append(calls, 0)
  <2>1. k = n + 1 /\ ~told /\ DOMAIN calls \cup {k} = 1 .. n + 1
    BY <1>2, <1>3 DEF Fits
  <2>2. Called(calls, tc) = all
    BY <1>3 DEF Called
  <2>3. /\ all \in Seq(Nat) /\ Len(all) = n + 1 /\ all[n + 1] = 0
        /\ \A i \in 1 .. n : all[i] = calls[i]
    BY AppendProperties
  <2> HIDE DEF all, k, told
  <2>4. \A i \in 1 .. n + 1 : Now(i) = all[i]
    <3> TAKE i \in 1 .. n + 1
    <3>1. CASE i = n + 1
      BY <1>2, <2>1, <2>3, <3>1
    <3>2. CASE i # n + 1
      <4>1. i \in 1 .. n
        BY <1>2, <3>2
      <4>2. QED
        BY <1>2, <2>1, <2>3, <4>1
    <3>3. QED
      BY <3>1, <3>2
  <2> HIDE DEF Now
  <2>5. e = [i \in 1 .. n + 1 |-> all[i]]
    BY <2>1, <2>4
  <2>6. all = [i \in 1 .. n + 1 |-> all[i]]
    BY <1>2, <2>3
  <2>7. QED
    BY <1>1, <2>2, <2>5, <2>6
<1>4. CASE ~tc.new
  <2> DEFINE all == [calls EXCEPT ![k] = @ + 1]
  <2>1. k \in 1 .. n /\ told /\ DOMAIN calls \cup {k} = 1 .. n
    BY <1>2, <1>4 DEF Fits
  <2>2. Called(calls, tc) = all
    BY <1>2, <1>4, <2>1 DEF Called
  <2> HIDE DEF k, told
  <2>3. all = [i \in 1 .. n |-> IF i = k THEN calls[k] + 1 ELSE calls[i]]
    BY <1>2, <2>1
  <2>4. \A i \in 1 .. n : Now(i) = IF i = k THEN calls[k] + 1 ELSE calls[i]
    BY <1>2, <2>1
  <2> HIDE DEF Now, all
  <2>5. e = [i \in 1 .. n |-> IF i = k THEN calls[k] + 1 ELSE calls[i]]
    BY <2>1, <2>4
  <2>6. QED
    BY <1>1, <2>2, <2>3, <2>5
<1>5. QED
  BY <1>3, <1>4

-----------------------------------------------------------------------------
(*****************************************************************************)
(* The calls of the clients that are passed on to without blocks and items.  *)
(*****************************************************************************)

LEMMA ExtendedOnce ==
  ASSUME NEW b, NEW s \in Seq(ToolCalls), Len(s) <= 1
  PROVE  FoldLeft(Extended, b, s) = IF s = <<>> THEN b ELSE Extended(b, s[1])
<1> DEFINE n == Len(s)
           G(it) == it = [T \in SUBSET (1 .. n) |->
                            IF T = {} THEN b ELSE Extended(it[T \ {Max(T)}], s[Max(T)])]
           h == [T \in SUBSET (1 .. n) |-> IF T = {} THEN b ELSE Extended(b, s[1])]
           c == CHOOSE it : G(it)
<1>1. n \in Nat /\ DOMAIN s = 1 .. n /\ (n = 0 <=> s = <<>>) /\ n <= 1
  BY EmptySeq
<1>2. FoldLeft(Extended, b, s) = c[1 .. n]
  BY <1>1 DEF FoldLeft, MapThenFoldSet
<1>3. \A T \in SUBSET (1 .. n) : T # {} => Max(T) = 1 /\ T \ {Max(T)} = {}
  <2> SUFFICES ASSUME NEW T \in SUBSET (1 .. n), T # {} PROVE Max(T) = 1 /\ T \ {Max(T)} = {}
    OBVIOUS
  <2>1. \A t \in T : t = 1
    BY <1>1
  <2>2. Max(T) \in T
    BY <1>1, LastOf
  <2>3. QED
    BY <2>1, <2>2
<1> HIDE DEF n
<1>4. \A T \in SUBSET (1 .. n) :
        h[T] = IF T = {} THEN b ELSE Extended(h[T \ {Max(T)}], s[Max(T)])
  <2>1. {} \in SUBSET (1 .. n) /\ h[{}] = b
    OBVIOUS
  <2>2. QED
    BY <1>3, <2>1
<1>5. G(h)
  BY <1>4
<1>6. G(c)
  <2> HIDE DEF h, G
  <2>1. QED
    BY <1>5
<1> HIDE DEF c, h
<1>7. c[{}] = b
  <2>1. {} \in SUBSET (1 .. n)
    OBVIOUS
  <2>2. QED
    BY <1>6, <2>1
<1>8. CASE n = 0
  <2>1. 1 .. n = {}
    BY <1>8
  <2>2. QED
    BY <1>1, <1>2, <1>7, <1>8, <2>1
<1>9. CASE n # 0
  <2>1. 1 .. n \in SUBSET (1 .. n) /\ 1 .. n # {}
    BY <1>1, <1>9
  <2>2. Max(1 .. n) = 1 /\ (1 .. n) \ {Max(1 .. n)} = {}
    BY <1>3, <2>1
  <2>3. c[1 .. n] = Extended(c[(1 .. n) \ {Max(1 .. n)}], s[Max(1 .. n)])
    BY <1>6, <2>1
  <2>4. c[1 .. n] = Extended(b, s[1])
    BY <1>7, <2>2, <2>3
  <2>5. QED
    BY <1>1, <1>2, <1>9, <2>4
<1>10. QED
  BY <1>8, <1>9

-----------------------------------------------------------------------------
(*****************************************************************************)
(* The calls of the three other clients: Gemini's, which gets them with the  *)
(* finish, that of the pass-through and that of a whole answer.              *)
(*****************************************************************************)

\* A normalizer between two chunks.
Resting(n) == n \in Normalizers /\ Buffered(n) /\ n.remaining = <<>>

LEMMA RestingOut ==
  ASSUME NEW n, Resting(n)
  PROVE  Resting([n EXCEPT !.out = <<>>])
<1> DEFINE q == [n EXCEPT !.out = <<>>]
<1>1. /\ q \in Normalizers /\ q.inThinkTag = n.inThinkTag /\ q.tagBuffer = n.tagBuffer
      /\ q.openTagBuffer = n.openTagBuffer /\ q.remaining = n.remaining
  BY NormalizerOut DEF Resting
<1> HIDE DEF q
<1>2. Resting(q)
  BY <1>1 DEF Resting, Buffered
<1>3. QED
  BY <1>2 DEF q

LEMMA HeardOf ==
  ASSUME NEW m, IsReader(m), NEW s \in Seq(NormalizedPieces)
  PROVE  IsReader(FoldLeft(PlainRead, m, s)) /\ FoldLeft(PlainRead, m, s).calls = m.calls
<1> DEFINE calls == m.calls
           q == FoldLeft(PlainRead, m, s)
<1>1. m \in PlainReaders(calls)
  BY DEF IsReader
<1> HIDE DEF calls
<1>2. q \in PlainReaders(calls)
  BY <1>1, HeardIs
<1> HIDE DEF q
<1>3. q.calls = calls
  BY <1>2 DEF PlainReaders
<1>4. QED
  BY <1>2, <1>3 DEF IsReader, q, calls

GeminiSame(g, q) ==
  /\ IsGemini(q) /\ q.names = g.names /\ q.args = g.args
  /\ q.client.calls = g.client.calls

LEMMA GeminiToldCalls ==
  ASSUME NEW g, IsGemini(g), NEW n, Resting(n)
  PROVE  GeminiSame(g, GeminiTold(g, n)) /\ Resting(GeminiTold(g, n).normalizer)
<1> DEFINE m == FoldLeft(PlainRead, g.client, n.out)
           kept == [n EXCEPT !.out = <<>>]
           q == GeminiTold(g, n)
<1>1. n.out \in Seq(NormalizedPieces) /\ n \in Normalizers
  BY DEF Resting, Normalizers
<1>2. IsReader(m) /\ m.calls = g.client.calls
  BY <1>1, HeardOf DEF IsGemini
<1>3. kept \in Normalizers /\ Resting(kept)
  BY <1>1, NormalizerOut, RestingOut
<1>4. q = [g EXCEPT !.normalizer = kept, !.client = m]
  BY DEF GeminiTold
<1> HIDE DEF m, kept, Normalizers
<1>5. /\ q \in [normalizer : Normalizers, names : {g.names}, args : {g.args}, client : {m}]
      /\ q.normalizer = kept /\ q.client = m /\ q.names = g.names /\ q.args = g.args
  BY <1>3, <1>4 DEF IsGemini
<1> HIDE DEF q
<1>6. IsGemini(q)
  BY <1>2, <1>5 DEF IsGemini
<1>7. QED
  BY <1>2, <1>3, <1>5, <1>6 DEF GeminiSame, q

LEMMA GeminiNotes ==
  ASSUME NEW g, IsGemini(g), NEW tc
  PROVE  LET q == NoteCall(g, tc)
         IN /\ IsGemini(q) /\ q.normalizer = g.normalizer
            /\ q.client.calls = g.client.calls
            /\ q.names = IF tc.new THEN g.names \cup {tc.index} ELSE g.names
            /\ q.args = IF tc.piece # <<>> THEN Extended(g.args, tc) ELSE g.args
<1> DEFINE names == IF tc.new THEN g.names \cup {tc.index} ELSE g.names
           args == IF tc.piece # <<>> THEN Extended(g.args, tc) ELSE g.args
           m == g.client
           q == NoteCall(g, tc)
<1>1. q = [g EXCEPT !.names = names, !.args = args]
  BY DEF NoteCall
<1> HIDE DEF names, args, q, Normalizers, m
<1>2. /\ q \in [normalizer : Normalizers, names : {names}, args : {args}, client : {m}]
      /\ q.normalizer = g.normalizer /\ q.client = m /\ q.names = names /\ q.args = args
  BY <1>1 DEF IsGemini, m
<1>3. IsReader(m)
  BY DEF IsGemini, m
<1>4. IsGemini(q) /\ q.client.calls = g.client.calls
  BY <1>2, <1>3 DEF IsGemini, m
<1>5. QED
  BY <1>2, <1>4 DEF q, names, args

\* What a Gemini client is given at the finish.
Given(names, args, told) ==
  LET given == Understood([i \in names |-> IF i \in DOMAIN args THEN args[i] ELSE 0])
  IN [i \in names \cup DOMAIN told |-> IF i \in names THEN given[i] ELSE told[i]]

LEMMA GeminiFinishes ==
  ASSUME NEW g, IsGemini(g), Resting(g.normalizer)
  PROVE  LET q == GeminiFinish(g)
         IN /\ IsGemini(q) /\ Resting(q.normalizer) /\ q.names = {}
            /\ q.client.calls = Given(g.names, g.args, g.client.calls)
<1> DEFINE n == NormalizerFlushed(g.normalizer)
           flushed == GeminiTold(g, n)
           told == flushed.client.calls
           all == Given(g.names, g.args, told)
           m == [flushed.client EXCEPT !.calls = all]
           q == GeminiFinish(g)
<1>1. Resting(n)
  BY NormalizerFlushedIs DEF Resting
<1> HIDE DEF n
<1>2. GeminiSame(g, flushed) /\ Resting(flushed.normalizer)
  BY <1>1, GeminiToldCalls
<1>3. q = [flushed EXCEPT !.names = {}, !.args = NoCalls, !.client.calls = all]
  BY DEF GeminiFinish, Given, n
<1> HIDE DEF flushed, all, q
<1>4. IsGemini(flushed) /\ IsReader(flushed.client)
  BY <1>2 DEF GeminiSame, IsGemini
<1>5. IsReader(m) /\ m.calls = all
  <2>1. IsReader(m)
    BY <1>4, ReaderCalls
  <2>2. flushed.client \in PlainReaders(told)
    BY <1>4 DEF IsReader
  <2> HIDE DEF told
  <2>3. m.calls = all
    BY <2>2 DEF PlainReaders
  <2>4. QED
    BY <2>1, <2>3
<1>6. q = [flushed EXCEPT !.names = {}, !.args = NoCalls, !.client = m]
  <2> HIDE DEF Normalizers
  <2>1. flushed \in [normalizer : Normalizers, names : {flushed.names},
                     args : {flushed.args}, client : {flushed.client}]
    BY <1>4 DEF IsGemini
  <2>2. QED
    BY <1>3, <2>1
<1> HIDE DEF m
<1>7. /\ q \in [normalizer : Normalizers, names : {{}}, args : {NoCalls}, client : {m}]
      /\ q.normalizer = flushed.normalizer /\ q.client = m /\ q.names = {} /\ q.args = NoCalls
  <2> DEFINE x == flushed.client
             none == NoCalls
  <2> HIDE DEF Normalizers, none, x
  <2>1. flushed \in [normalizer : Normalizers, names : {flushed.names},
                     args : {flushed.args}, client : {x}]
    BY <1>4 DEF IsGemini, x
  <2>2. q = [flushed EXCEPT !.names = {}, !.args = none, !.client = m]
    BY <1>6 DEF none
  <2>3. /\ q \in [normalizer : Normalizers, names : {{}}, args : {none}, client : {m}]
        /\ q.normalizer = flushed.normalizer /\ q.client = m /\ q.names = {} /\ q.args = none
    BY <2>1, <2>2
  <2>4. QED
    BY <2>3 DEF none
<1>8. IsGemini(q)
  BY <1>5, <1>7 DEF IsGemini
<1>9. q.client.calls = Given(g.names, g.args, g.client.calls)
  BY <1>2, <1>5, <1>7 DEF GeminiSame, all
<1>10. QED
  BY <1>2, <1>7, <1>8, <1>9 DEF q

LEMMA GeminiChunkCalls ==
  ASSUME NEW g, IsGemini(g), Resting(g.normalizer), NEW chunk,
         chunk.content \in Seq(Tokens), chunk.reasoning \in Seq(Tokens),
         chunk.toolCalls \in Seq(ToolCalls), Len(chunk.toolCalls) <= 1,
         chunk.finish \in BOOLEAN, chunk.finish => chunk.toolCalls = <<>>
  PROVE  LET q == GeminiChunk(g, chunk)
             tc == chunk.toolCalls[1]
         IN /\ IsGemini(q) /\ Resting(q.normalizer)
            /\ chunk.toolCalls = <<>> /\ ~chunk.finish => GeminiSame(g, q)
            /\ chunk.finish => /\ q.names = {}
                               /\ q.client.calls = Given(g.names, g.args, g.client.calls)
            /\ chunk.toolCalls # <<>> =>
                 /\ q.client.calls = g.client.calls
                 /\ q.names = IF tc.new THEN g.names \cup {tc.index} ELSE g.names
                 /\ q.args = IF tc.piece # <<>> THEN Extended(g.args, tc) ELSE g.args
<1> DEFINE n == Normalized(g.normalizer, chunk.content, chunk.reasoning)
           told == GeminiTold(g, n)
           tc == chunk.toolCalls[1]
           called == FoldLeft(NoteCall, told, chunk.toolCalls)
           q == GeminiChunk(g, chunk)
<1>1. q = IF chunk.finish THEN GeminiFinish(called) ELSE called
  BY DEF GeminiChunk
<1>2. Resting(n)
  BY NormalizedIs DEF Resting
<1> HIDE DEF n
<1>3. GeminiSame(g, told) /\ Resting(told.normalizer) /\ IsGemini(told)
  BY <1>2, GeminiToldCalls DEF GeminiSame
<1> HIDE DEF told
<1>4. called = IF chunk.toolCalls = <<>> THEN told ELSE NoteCall(told, tc)
  BY NoteCallOnce
<1> HIDE DEF called, q, tc
<1>5. CASE chunk.toolCalls = <<>> /\ ~chunk.finish
  <2>1. q = told
    BY <1>1, <1>4, <1>5
  <2>2. QED
    BY <1>3, <1>5, <2>1 DEF q, tc
<1>6. CASE chunk.finish
  <2>1. q = GeminiFinish(told)
    BY <1>1, <1>4, <1>6
  <2>2. /\ IsGemini(q) /\ Resting(q.normalizer) /\ q.names = {}
        /\ q.client.calls = Given(told.names, told.args, told.client.calls)
    BY <1>3, <2>1, GeminiFinishes
  <2>3. q.client.calls = Given(g.names, g.args, g.client.calls)
    BY <1>3, <2>2 DEF GeminiSame
  <2>4. QED
    BY <1>6, <2>2, <2>3 DEF q, tc
<1>7. CASE chunk.toolCalls # <<>>
  <2>1. q = NoteCall(told, tc) /\ ~chunk.finish
    BY <1>1, <1>4, <1>7
  <2>2. /\ IsGemini(q) /\ q.normalizer = told.normalizer
        /\ q.client.calls = told.client.calls
        /\ q.names = IF tc.new THEN told.names \cup {tc.index} ELSE told.names
        /\ q.args = IF tc.piece # <<>> THEN Extended(told.args, tc) ELSE told.args
    BY <1>3, <2>1, GeminiNotes
  <2>3. QED
    BY <1>3, <1>7, <2>1, <2>2 DEF GeminiSame, q, tc
<1>8. QED
  BY <1>5, <1>6, <1>7

\* The arguments of those calls that have any.
Noted(calls) == [i \in {j \in DOMAIN calls : calls[j] # 0} |-> calls[i]]

LEMMA GivenIs ==
  ASSUME NEW calls \in Seq(Nat)
  PROVE  /\ Given(DOMAIN calls, Noted(calls), NoCalls) = Understood(calls)
         /\ \A args : Given({}, args, Understood(calls)) = Understood(calls)
<1> DEFINE all == Understood(calls)
           V(i) == IF <<i, calls[i]>> \in Parses THEN calls[i] ELSE 0
<1>1. all = [i \in DOMAIN calls |-> V(i)]
  BY DEF Understood
<1> HIDE DEF V, all
<1>2. DOMAIN all = DOMAIN calls /\ all = [i \in DOMAIN all |-> all[i]]
  BY <1>1
<1>3. Given(DOMAIN calls, Noted(calls), NoCalls) = all
  <2> DEFINE args == Noted(calls)
             had == [i \in DOMAIN calls |-> IF i \in DOMAIN args THEN args[i] ELSE 0]
             given == Understood(had)
  <2>1. DOMAIN args = {j \in DOMAIN calls : calls[j] # 0}
        /\ \A i \in DOMAIN args : args[i] = calls[i]
    BY DEF Noted
  <2>2. DOMAIN NoCalls = {}
    BY DEF NoCalls
  <2> HIDE DEF args
  <2>3. had = calls
    <3>1. \A i \in DOMAIN calls : (IF i \in DOMAIN args THEN args[i] ELSE 0) = calls[i]
      BY <2>1
    <3>2. calls = [i \in DOMAIN calls |-> calls[i]]
      OBVIOUS
    <3>3. QED
      BY <3>1, <3>2
  <2>4. Given(DOMAIN calls, args, NoCalls)
          = [i \in DOMAIN calls \cup DOMAIN NoCalls |->
               IF i \in DOMAIN calls THEN given[i] ELSE NoCalls[i]]
    BY DEF Given
  <2> HIDE DEF had
  <2>5. given = all
    BY <2>3 DEF all
  <2> HIDE DEF given
  <2>6. Given(DOMAIN calls, args, NoCalls) = [i \in DOMAIN calls |-> all[i]]
    BY <2>2, <2>4, <2>5
  <2>7. QED
    BY <1>2, <2>6 DEF args
<1>4. ASSUME NEW args PROVE Given({}, args, all) = all
  BY <1>2 DEF Given
<1>5. QED
  BY <1>3, <1>4 DEF all

LEMMA NoneNoted == DOMAIN <<>> = {} /\ Noted(<<>>) = NoCalls /\ NoCalls = <<>>
<1> DEFINE e == [i \in {} |-> 0]
<1>1. DOMAIN <<>> = {}
  OBVIOUS
<1>2. e = <<>>
  <2>1. e \in Seq(Nat) /\ Len(e) = 0
    <3>1. e \in [1 .. 0 -> Nat] /\ 1 .. 0 = {}
      OBVIOUS
    <3>2. QED
      BY <3>1
  <2>2. QED
    BY <2>1, EmptySeq
<1>3. Noted(<<>>) = e
  <2>1. {j \in DOMAIN <<>> : (<<>>)[j] # 0} = {}
    BY <1>1
  <2>2. Noted(<<>>) = [i \in {} |-> (<<>>)[i]]
    BY <2>1 DEF Noted
  <2>3. QED
    BY <2>2
<1>4. QED
  BY <1>1, <1>2, <1>3 DEF NoCalls

\* An entry that fits is noted as it is counted.
LEMMA NotedOn ==
  ASSUME NEW calls \in Seq(Nat), NEW tc, Fits(calls, tc)
  PROVE  LET q == Called(calls, tc)
         IN /\ q \in Seq(Nat)
            /\ DOMAIN q = IF tc.new THEN DOMAIN calls \cup {tc.index} ELSE DOMAIN calls
            /\ Noted(q) = IF tc.piece # <<>> THEN Extended(Noted(calls), tc)
                          ELSE Noted(calls)
<1> DEFINE n == Len(calls)
           k == tc.index
           q == Called(calls, tc)
           args == Noted(calls)
<1>1. n \in Nat /\ DOMAIN calls = 1 .. n /\ \A i \in 1 .. n : calls[i] \in Nat
  OBVIOUS
<1>2. /\ DOMAIN args = {j \in DOMAIN calls : calls[j] # 0}
      /\ \A i \in DOMAIN args : args[i] = calls[i]
  BY DEF Noted
<1>3. CASE tc.new
  <2>1. k = n + 1 /\ tc.piece = <<>>
    BY <1>3 DEF Fits
  <2>2. q = Append(calls, 0)
    BY <1>3 DEF Called
  <2>3. /\ q \in Seq(Nat) /\ Len(q) = n + 1 /\ q[n + 1] = 0
        /\ \A i \in 1 .. n : q[i] = calls[i]
    BY <2>2, AppendProperties
  <2> HIDE DEF q
  <2>4. DOMAIN q = 1 .. n + 1 /\ DOMAIN q = DOMAIN calls \cup {k}
    BY <1>1, <2>1, <2>3
  <2>5. {j \in DOMAIN q : q[j] # 0} = {j \in DOMAIN calls : calls[j] # 0}
    BY <1>1, <2>3, <2>4
  <2>6. \A i \in {j \in DOMAIN calls : calls[j] # 0} : q[i] = calls[i]
    BY <1>1, <2>3
  <2>7. Noted(q) = Noted(calls)
    BY <2>5, <2>6 DEF Noted
  <2>8. QED
    BY <1>3, <2>1, <2>3, <2>4, <2>7 DEF q
<1>4. CASE ~tc.new
  <2>1. k \in 1 .. n /\ tc.piece # <<>> /\ k \in DOMAIN calls
    BY <1>1, <1>4 DEF Fits
  <2>2. q = [calls EXCEPT ![k] = @ + 1]
    BY <1>4, <2>1 DEF Called
  <2> HIDE DEF k
  <2>3. /\ q \in Seq(Nat) /\ Len(q) = n
        /\ \A i \in 1 .. n : q[i] = IF i = k THEN calls[k] + 1 ELSE calls[i]
    <3> DEFINE v == calls[k] + 1
    <3>1. v \in Nat /\ q = [calls EXCEPT ![k] = v]
      BY <1>1, <2>1, <2>2
    <3> HIDE DEF v, q
    <3>2. /\ q \in Seq(Nat) /\ Len(q) = n
          /\ \A i \in 1 .. n : q[i] = IF i = k THEN v ELSE calls[i]
      BY <1>1, <2>1, <3>1, ExceptSeq
    <3>3. QED
      BY <3>2 DEF v
  <2> HIDE DEF q
  <2>4. DOMAIN q = DOMAIN calls
    BY <1>1, <2>3
  <2> DEFINE has == {j \in DOMAIN calls : calls[j] # 0}
             Now(i) == LET old == IF i \in DOMAIN args THEN args[i] ELSE 0
                       IN IF i = k /\ tc.piece # <<>> THEN old + 1 ELSE old
  <2>5. {j \in DOMAIN q : q[j] # 0} = has \cup {k}
    <3>1. ASSUME NEW j \in 1 .. n PROVE q[j] # 0 <=> calls[j] # 0 \/ j = k
      BY <1>1, <2>1, <2>3
    <3>2. QED
      BY <1>1, <2>1, <2>4, <3>1
  <2>6. Extended(args, tc) = [i \in has \cup {k} |-> Now(i)]
    <3>1. DOMAIN args = has
      BY <1>2
    <3> HIDE DEF args, has
    <3>2. Extended(args, tc) = [i \in DOMAIN args \cup {k} |-> Now(i)]
      BY DEF Extended, k
    <3>3. QED
      BY <3>1, <3>2
  <2>7. \A i \in has \cup {k} : Now(i) = q[i]
    <3> TAKE i \in has \cup {k}
    <3>1. i \in 1 .. n
      BY <1>1, <2>1
    <3>2. (IF i \in DOMAIN args THEN args[i] ELSE 0) = calls[i]
      BY <1>1, <1>2, <3>1
    <3> HIDE DEF args
    <3>3. QED
      BY <1>1, <2>1, <2>3, <3>1, <3>2
  <2> HIDE DEF Now, has, args
  <2>8. Noted(q) = [i \in has \cup {k} |-> q[i]]
    BY <2>5 DEF Noted
  <2>9. Noted(q) = Extended(args, tc)
    BY <2>6, <2>7, <2>8
  <2>10. QED
    BY <1>4, <2>1, <2>3, <2>4, <2>9 DEF q, args
<1>5. QED
  BY <1>3, <1>4

\* The pass-through.
LEMMA ChatToldCalls ==
  ASSUME NEW c, IsChat(c), NEW n, Resting(n)
  PROVE  LET q == ChatTold(c, n)
         IN IsChat(q) /\ Resting(q.normalizer) /\ q.client.calls = c.client.calls
<1> DEFINE m == FoldLeft(PlainRead, c.client, n.out)
           kept == [n EXCEPT !.out = <<>>]
           q == ChatTold(c, n)
<1>1. n.out \in Seq(NormalizedPieces) /\ n \in Normalizers
  BY DEF Resting, Normalizers
<1>2. IsReader(m) /\ m.calls = c.client.calls
  BY <1>1, HeardOf DEF IsChat
<1>3. kept \in Normalizers /\ Resting(kept)
  BY <1>1, NormalizerOut, RestingOut
<1>4. q = [normalizer |-> kept, client |-> m]
  BY DEF ChatTold
<1> HIDE DEF m, kept, Normalizers
<1>5. /\ q \in [normalizer : Normalizers, client : {m}]
      /\ q.normalizer = kept /\ q.client = m
  BY <1>3, <1>4
<1> HIDE DEF q
<1>6. QED
  BY <1>2, <1>3, <1>5 DEF IsChat, q

LEMMA ChatFlushCalls ==
  ASSUME NEW c, IsChat(c), Resting(c.normalizer)
  PROVE  LET q == ChatFlush(c)
         IN IsChat(q) /\ Resting(q.normalizer) /\ q.client.calls = c.client.calls
<1>1. Resting(NormalizerFlushed(c.normalizer))
  BY NormalizerFlushedIs DEF Resting
<1>2. QED
  BY <1>1, ChatToldCalls DEF ChatFlush

LEMMA ChatChunkCalls ==
  ASSUME NEW c, IsChat(c), Resting(c.normalizer), NEW chunk,
         chunk.content \in Seq(Tokens), chunk.reasoning \in Seq(Tokens),
         chunk.toolCalls \in Seq(ToolCalls), Len(chunk.toolCalls) <= 1
  PROVE  LET q == ChatChunk(c, chunk)
         IN /\ IsChat(q) /\ Resting(q.normalizer)
            /\ q.client.calls = IF chunk.toolCalls = <<>> THEN c.client.calls
                                ELSE Extended(c.client.calls, chunk.toolCalls[1])
<1> DEFINE n == Normalized(c.normalizer, chunk.content, chunk.reasoning)
           told == ChatTold(c, n)
           flushed == ChatFlush(told)
           calls == chunk.toolCalls
           q == ChatChunk(c, chunk)
<1>1. q = IF calls = <<>> THEN told
          ELSE [flushed EXCEPT !.client = FoldLeft(CallRead, @, calls)]
  BY DEF ChatChunk
<1>2. Resting(n)
  BY NormalizedIs DEF Resting
<1> HIDE DEF n
<1>3. IsChat(told) /\ Resting(told.normalizer) /\ told.client.calls = c.client.calls
  BY <1>2, ChatToldCalls
<1> HIDE DEF told
<1>4. IsChat(flushed) /\ Resting(flushed.normalizer)
      /\ flushed.client.calls = c.client.calls
  BY <1>3, ChatFlushCalls
<1> HIDE DEF flushed, q
<1>5. CASE calls = <<>>
  BY <1>1, <1>3, <1>5 DEF q
<1>6. CASE calls # <<>>
  <2> DEFINE tc == calls[1]
             old == flushed.client
             all == Extended(old.calls, tc)
             m == [old EXCEPT !.calls = all]
  <2>1. FoldLeft(CallRead, old, calls) = m
    <3>1. FoldLeft(CallRead, old, calls) = CallRead(old, tc)
      BY <1>6, CallReadOnce
    <3>2. QED
      BY <3>1 DEF CallRead
  <2>2. q = [flushed EXCEPT !.client = m]
    BY <1>1, <1>6, <2>1
  <2>3. IsReader(old) /\ old \in PlainReaders(old.calls)
    BY <1>4 DEF IsChat, IsReader
  <2> HIDE DEF all
  <2>4. IsReader(m)
    BY <2>3, ReaderCalls
  <2>5. m.calls = all
    <3> DEFINE had == old.calls
    <3>1. old \in PlainReaders(had)
      BY <2>3
    <3> HIDE DEF had, old
    <3>2. QED
      BY <3>1 DEF PlainReaders
  <2> HIDE DEF m
  <2>6. q.normalizer = flushed.normalizer /\ q.client = m
        /\ q \in [normalizer : Normalizers, client : {m}]
    <3> HIDE DEF Normalizers
    <3>1. flushed \in [normalizer : Normalizers, client : {flushed.client}]
      BY <1>4 DEF IsChat
    <3>2. QED
      BY <2>2, <3>1
  <2>7. IsChat(q)
    BY <2>4, <2>6 DEF IsChat
  <2>8. q.client.calls = Extended(c.client.calls, tc)
    BY <1>4, <2>5, <2>6 DEF all
  <2>9. QED
    BY <1>4, <1>6, <2>6, <2>7, <2>8 DEF q
<1>7. QED
  BY <1>5, <1>6

\* A whole answer.
LEMMA AnswerCalls ==
  ASSUME NEW a
  PROVE  /\ AnswerRead(a).calls = Understood(a.calls)
         /\ \A chunk : chunk.toolCalls \in Seq(ToolCalls) /\ Len(chunk.toolCalls) <= 1 =>
              Accumulated(a, chunk).calls
                = IF chunk.toolCalls = <<>> THEN a.calls
                  ELSE Extended(a.calls, chunk.toolCalls[1])
<1> DEFINE clean == NormalizeContent(a.content, a.reasoning)
           said == [kind |-> "content", tokens |-> clean.content]
           thought == [kind |-> "reasoning", tokens |-> clean.reasoning]
           texts == PlainRead(NewPlainReader, said)
           m == PlainRead(texts, thought)
<1>1. AnswerRead(a) = [m EXCEPT !.calls = Understood(a.calls)]
  BY DEF AnswerRead
<1> HIDE DEF said, thought
<1>2. ASSUME NEW x, "calls" \in DOMAIN x, NEW p PROVE "calls" \in DOMAIN PlainRead(x, p)
  <2> DEFINE t == x.text + CountOf("text", p.tokens)
             h == x.thoughts + CountOf("thought", p.tokens)
             l1 == x.leaked \/ ~(ToSet(p.tokens) \subseteq {"text", "open1"})
             l2 == x.leaked \/ ~(ToSet(p.tokens) \subseteq {"thought", "close1"})
  <2>1. PlainRead(x, p) = IF p.kind = "content" THEN [x EXCEPT !.text = t, !.leaked = l1]
                          ELSE [x EXCEPT !.thoughts = h, !.leaked = l2]
    BY DEF PlainRead
  <2> HIDE DEF t, h, l1, l2
  <2>2. DOMAIN [x EXCEPT !.text = t, !.leaked = l1] = DOMAIN x
    OBVIOUS
  <2>3. DOMAIN [x EXCEPT !.thoughts = h, !.leaked = l2] = DOMAIN x
    OBVIOUS
  <2>4. QED
    BY <1>2, <2>1, <2>2, <2>3
<1>3. "calls" \in DOMAIN NewPlainReader
  BY DEF NewPlainReader
<1>4. "calls" \in DOMAIN m
  BY <1>2, <1>3
<1> HIDE DEF m
<1>5. AnswerRead(a).calls = Understood(a.calls)
  BY <1>1, <1>4
<1>6. ASSUME NEW chunk, chunk.toolCalls \in Seq(ToolCalls), Len(chunk.toolCalls) <= 1
      PROVE  Accumulated(a, chunk).calls
               = IF chunk.toolCalls = <<>> THEN a.calls
                 ELSE Extended(a.calls, chunk.toolCalls[1])
  <2>1. Accumulated(a, chunk).calls = FoldLeft(Extended, a.calls, chunk.toolCalls)
    BY DEF Accumulated
  <2> DEFINE cs == chunk.toolCalls
             had == a.calls
  <2>2. cs \in Seq(ToolCalls) /\ Len(cs) <= 1
    BY <1>6
  <2> HIDE DEF cs, had
  <2>3. FoldLeft(Extended, had, cs) = IF cs = <<>> THEN had ELSE Extended(had, cs[1])
    BY <2>2, ExtendedOnce
  <2>4. QED
    BY <2>1, <2>3 DEF cs, had
<1>7. QED
  BY <1>5, <1>6

-----------------------------------------------------------------------------
(*****************************************************************************)
(* What the clients have of the calls, as far as the stream has come.        *)
(*****************************************************************************)

\* The streams that are passed on have nothing on their way.
Rests ==
  ~ended => /\ IsGemini(gemini) /\ Resting(gemini.normalizer)
            /\ IsChat(chat) /\ Resting(chat.normalizer)

\* The pass-through and the whole answer have just the calls that were sent.
CallsCopied ==
  "noCall" \notin odd =>
    /\ chat.client.calls = sent.calls
    /\ ~ended => answer.calls = sent.calls
    /\ ended => reader.calls = Understood(sent.calls)

\* Gemini's translator holds them back until the finish.
CallsCollected ==
  "noCall" \notin odd /\ ~ended =>
    /\ ~anthropic.finished =>
         /\ gemini.names = DOMAIN sent.calls /\ gemini.args = Noted(sent.calls)
         /\ gemini.client.calls = NoCalls
    /\ anthropic.finished /\ "late" \notin odd =>
         gemini.names = {} /\ gemini.client.calls = Understood(sent.calls)

\* Those of the Messages and the Responses API follow the call that was begun
\* last; of the latter all are over with the finish.
Unmixed == odd \cap {"noCall", "interleaved"} = {}
Uncut == "cutInput" \notin odd
Over == responses.finished /\ "late" \notin odd
CallsHeeded ==
  Unmixed =>
    /\ message.calls = sent.calls
    /\ CallsHave(sent.inputs, responses, Uncut, IF Over THEN Len(sent.inputs) ELSE 0)

CallsTold == Rests /\ CallsCopied /\ CallsCollected /\ CallsHeeded

\* An entry for a call, in the order of calls.
Expected(tc) ==
  /\ tc \in ToolCalls /\ Fits(sent.calls, tc)
  /\ ~tc.new => NextOf(sent.inputs[tc.index], tc.piece)

LEMMA EntryEnters ==
  ASSUME StreamsInv, NEW chunk \in Chunks(place, sent.inputs), NEW path,
         chunk.toolCalls # <<>>, "noCall" \notin Oddities(chunk, path)
  PROVE  Expected(chunk.toolCalls[1])
<1> DEFINE calls == sent.calls
           inputs == sent.inputs
           s == chunk.toolCalls
           tc == s[1]
<1>1. place \in ModelPlaces /\ sent \in Sents /\ DOMAIN inputs = DOMAIN calls
  BY DEF StreamsInv, Typed
<1>2. calls \in Seq(Nat) /\ inputs \in Seq(CallStates)
  BY <1>1 DEF Sents
<1>3. s \in Seq(ToolCalls)
  BY <1>1, <1>2, ChunkIs
<1>4. 1 \in DOMAIN s /\ tc \in ToolCalls
  <2> HIDE DEF ToolCalls, s
  <2>1. s # <<>>
    BY DEF s
  <2>2. Len(s) # 0 /\ Len(s) \in Nat /\ DOMAIN s = 1 .. Len(s)
    BY <1>3, <2>1, EmptySeq
  <2>3. 1 \in DOMAIN s
    BY <2>2
  <2>4. QED
    BY <1>3, <2>3, ElementOfSeq DEF tc
<1>5. FirstEntry(inputs, tc) \/ NextEntry(inputs, tc)
  BY <1>1, <1>2, EntryShape
<1>6. tc.new \/ calls # <<>>
  BY <1>4, OdditiesOfCalls
<1>7. Len(inputs) = Len(calls) /\ DOMAIN calls = 1 .. Len(calls) /\ Len(calls) \in Nat
  BY <1>1, <1>2
<1> HIDE DEF tc, calls, inputs, CallStates, ToolCalls
<1>8. CASE FirstEntry(inputs, tc)
  <2>1. tc.new /\ tc.piece = <<>> /\ tc.index = Len(calls) + 1
    BY <1>7, <1>8 DEF FirstEntry
  <2>2. Fits(calls, tc)
    BY <2>1 DEF Fits
  <2>3. QED
    BY <1>4, <2>1, <2>2 DEF Expected, tc, calls, inputs
<1>9. CASE NextEntry(inputs, tc)
  <2>1. ~tc.new /\ tc.index \in DOMAIN inputs \cup {1} /\ tc.piece \in NextPieces(inputs, tc.index)
    BY <1>9 DEF NextEntry
  <2>2. Len(calls) # 0
    BY <1>2, <1>6, <2>1, EmptySeq
  <2>3. 1 \in DOMAIN calls
    BY <1>7, <2>2
  <2>4. tc.index \in DOMAIN inputs /\ tc.index \in DOMAIN calls
    BY <1>1, <2>1, <2>3 DEF inputs, calls
  <2>5. NextOf(inputs[tc.index], tc.piece)
    BY <1>2, <2>1, <2>4, NextPieceIs
  <2>6. tc.piece # <<>>
    BY <2>5, PiecesOfArguments DEF NextOf
  <2>7. Fits(calls, tc)
    BY <2>1, <2>4, <2>6 DEF Fits
  <2>8. QED
    BY <1>4, <2>5, <2>7 DEF Expected, tc, calls, inputs
<1>10. QED
  BY <1>5, <1>8, <1>9

\* What a chunk does to the calls: with an entry for one, and with none.
Taken(chunk, pieces, found) ==
  /\ ~ended /\ ended' = ended /\ odd' = odd \cup found
  /\ chunk.content \in Seq(Tokens) /\ chunk.reasoning \in Seq(Tokens)
  /\ chunk.toolCalls \in Seq(ToolCalls) /\ Len(chunk.toolCalls) <= 1
  /\ chunk.finish \in BOOLEAN /\ (chunk.finish => chunk.toolCalls = <<>>)
  /\ pieces \in Seq(NormalizedPieces)
  /\ anthropic' = AnthropicChunk(anthropic, pieces, chunk.toolCalls, chunk.finish)
  /\ responses' = ResponsesChunk(responses, pieces, chunk.toolCalls, chunk.finish)
  /\ gemini' = GeminiChunk(gemini, chunk) /\ chat' = ChatChunk(chat, chunk)
  /\ answer' = Accumulated(answer, chunk)
  /\ anthropic'.finished = (anthropic.finished \/ chunk.finish)
  /\ responses'.finished = (responses.finished \/ chunk.finish)
  /\ sent'.inputs \in Seq(CallStates)
  /\ chunk.toolCalls = <<>> => sent'.calls = sent.calls /\ sent'.inputs = sent.inputs
  /\ chunk.toolCalls # <<>> =>
       LET tc == chunk.toolCalls[1]
       IN /\ pieces = <<>> /\ chunk.toolCalls = <<tc>>
          /\ sent'.calls = Called(sent.calls, tc) /\ sent'.inputs = Argument(sent.inputs, tc)
          /\ "noCall" \notin found => Expected(tc)
          /\ "interleaved" \notin found => ~(tc.index < Len(sent.calls))
          /\ "cutInput" \notin found => tc.piece # <<"quote", "word">>
          /\ "late" \notin found => ~anthropic.finished

LEMMA ReceiveTakes ==
  ASSUME StreamsInv, Receive
  PROVE  \E chunk, pieces, found : Taken(chunk, pieces, found)
<1>1. PICK chunk \in Chunks(place, sent.inputs) :
        LET path == Path(place, chunk.content)
            n == Normalized(normalizer, chunk.content, chunk.reasoning)
        IN /\ Written(chunk, path)
           /\ odd' = odd \cup Oddities(chunk, path)
           /\ anthropic' = AnthropicChunk(anthropic, n.out, chunk.toolCalls, chunk.finish)
           /\ responses' = ResponsesChunk(responses, n.out, chunk.toolCalls, chunk.finish)
           /\ gemini' = GeminiChunk(gemini, chunk)
           /\ chat' = ChatChunk(chat, chunk)
           /\ answer' = Accumulated(answer, chunk)
  BY DEF Receive
<1> DEFINE content == chunk.content
           reasoning == chunk.reasoning
           calls == chunk.toolCalls
           finish == chunk.finish
           path == Path(place, content)
           n == Normalized(normalizer, content, reasoning)
           pieces == n.out
           found == Oddities(chunk, path)
           tc == calls[1]
<1>2. /\ Written(chunk, path) /\ odd' = odd \cup found
      /\ anthropic' = AnthropicChunk(anthropic, pieces, calls, finish)
      /\ responses' = ResponsesChunk(responses, pieces, calls, finish)
      /\ gemini' = GeminiChunk(gemini, chunk) /\ chat' = ChatChunk(chat, chunk)
      /\ answer' = Accumulated(answer, chunk)
      /\ ~ended /\ ended' = ended
  BY <1>1 DEF Receive
<1>3. /\ place \in ModelPlaces /\ sent \in Sents
      /\ normalizer \in Normalizers /\ Buffered(normalizer) /\ normalizer.remaining = <<>>
      /\ anthropic \in Translators /\ responses \in ResponsesTranslators
      /\ ~responses.finished => responses.outputIndex = 0
  BY DEF StreamsInv, Typed, Ends
<1>4. sent.inputs \in Seq(CallStates)
  BY <1>3 DEF Sents
<1>5. /\ content \in Seq(Tokens) /\ reasoning \in Seq(Tokens)
      /\ calls \in Seq(ToolCalls) /\ Len(calls) <= 1 /\ finish \in BOOLEAN
      /\ calls # <<>> \/ finish => content = <<>> /\ reasoning = <<>>
      /\ finish => calls = <<>>
  BY <1>3, <1>4, ChunkIs
<1>6. n \in Normalizers /\ (content = <<>> /\ reasoning = <<>> => pieces = <<>>)
  BY <1>3, <1>5, NormalizedIs
<1>7. /\ sent'.calls = FoldLeft(Called, sent.calls, calls)
      /\ sent'.inputs = FoldLeft(Argument, sent.inputs, calls)
  BY <1>2 DEF Written
<1>8. /\ FoldLeft(Called, sent.calls, calls)
           = IF calls = <<>> THEN sent.calls ELSE Called(sent.calls, tc)
      /\ FoldLeft(Argument, sent.inputs, calls)
           = IF calls = <<>> THEN sent.inputs ELSE Argument(sent.inputs, tc)
  <2> HIDE DEF calls, ToolCalls
  <2>1. QED
    BY <1>5, CalledIs, ArgumentIs
<1>9. pieces \in Seq(NormalizedPieces)
  BY <1>6 DEF Normalizers
<1>10. /\ anthropic'.finished = (anthropic.finished \/ finish)
       /\ responses'.finished = (responses.finished \/ finish)
  <2> HIDE DEF pieces, calls, finish
  <2>1. QED
    BY <1>2, <1>3, <1>5, <1>9, AnthropicChunkIs, ResponsesChunkIs
<1>11. ASSUME calls # <<>>
       PROVE  /\ pieces = <<>> /\ calls = <<tc>>
              /\ "noCall" \notin found => Expected(tc)
              /\ "interleaved" \notin found => ~(tc.index < Len(sent.calls))
              /\ "cutInput" \notin found => tc.piece # <<"quote", "word">>
              /\ "late" \notin found => ~anthropic.finished
  <2>1. pieces = <<>>
    BY <1>5, <1>6, <1>11
  <2>2. calls = <<tc>>
    BY <1>3, <1>4, <1>11, EntryShape
  <2>3. "noCall" \notin found => Expected(tc)
    BY <1>11, EntryEnters
  <2>4. 1 \in DOMAIN calls
    <3> HIDE DEF tc
    <3>1. QED
      BY <2>2
  <2>5. /\ "interleaved" \notin found => ~(tc.index < Len(sent.calls))
        /\ "cutInput" \notin found => tc.piece # <<"quote", "word">>
        /\ "late" \notin found => ~anthropic.finished
    BY <2>4, OdditiesOfCalls
  <2>6. QED
    BY <2>1, <2>2, <2>3, <2>5
<1> HIDE DEF n, found, path
<1>12. Taken(chunk, pieces, found)
  <2>1. calls = <<>> => sent'.calls = sent.calls /\ sent'.inputs = sent.inputs
    BY <1>7, <1>8
  <2>2. calls # <<>> => /\ sent'.calls = Called(sent.calls, tc)
                        /\ sent'.inputs = Argument(sent.inputs, tc)
    BY <1>7, <1>8
  <2>3. sent'.inputs \in Seq(CallStates)
    <3>1. DOMAIN sent.inputs = DOMAIN sent.calls
      BY DEF StreamsInv, Typed
    <3> HIDE DEF calls, CallStates
    <3>2. QED
      BY <1>3, <1>5, <1>7, <3>1, SentKept
  <2>4. QED
    BY <1>2, <1>5, <1>9, <1>10, <1>11, <2>1, <2>2, <2>3 DEF Taken
<1>13. QED
  BY <1>12

LEMMA CallsAtFirst == Init => CallsTold
<1> SUFFICES ASSUME Init PROVE CallsTold
  OBVIOUS
<1> DEFINE none == <<>>
<1>1. /\ none \in Seq(Tokens) /\ none \in Seq(NormalizedPieces) /\ none \in Seq(Nat)
      /\ none = <<>> /\ Len(none) = 0
  OBVIOUS
<1>2. DOMAIN none = {} /\ Noted(none) = NoCalls /\ NoCalls = none
  BY NoneNoted
<1> HIDE DEF none, Tokens, NormalizedPieces
<1>3. /\ sent.calls = none /\ sent.inputs = none /\ odd = {} /\ ~ended
      /\ gemini = NewGemini /\ chat = NewChat /\ answer = NewAnswer
      /\ responses = NewResponses
      /\ \E skip \in SkipThinking : anthropic = NewAnthropic(skip)
  BY <1>1 DEF Init
<1>4. Resting(NewStreamNormalizer)
  BY <1>1 DEF Resting, NewStreamNormalizer, Normalizers, Buffered
<1>5. IsReader(NewPlainReader) /\ NewPlainReader.calls = NoCalls
  BY DEF IsReader, PlainReaders, NewPlainReader
<1>6. NewStreamNormalizer \in Normalizers
  BY <1>4 DEF Resting
<1> HIDE DEF NewStreamNormalizer, Normalizers
<1>7. /\ IsGemini(gemini) /\ Resting(gemini.normalizer)
      /\ gemini.names = {} /\ gemini.args = NoCalls /\ gemini.client.calls = NoCalls
  BY <1>3, <1>4, <1>5, <1>6 DEF NewGemini, IsGemini
<1>8. IsChat(chat) /\ Resting(chat.normalizer) /\ chat.client.calls = NoCalls
  BY <1>3, <1>4, <1>5, <1>6 DEF NewChat, IsChat
<1>9. answer.calls = NoCalls
  BY <1>3 DEF NewAnswer
<1>10. anthropic.finished = FALSE /\ message.calls = none
  <2>1. PICK skip \in SkipThinking : anthropic = NewAnthropic(skip)
    BY <1>3
  <2>2. anthropic.finished = FALSE /\ anthropic.client = NewMessageReader
    BY <2>1 DEF NewAnthropic
  <2>3. NewMessageReader.calls = none
    BY <1>1 DEF NewMessageReader
  <2>4. QED
    BY <2>2, <2>3 DEF message
<1>11. responses.toolCalls = none /\ responses.client.calls = none /\ responses.finished = FALSE
  BY <1>1, <1>3 DEF NewResponses, NewResponseReader
<1>12. CallsHave(sent.inputs, responses, Uncut, IF Over THEN Len(sent.inputs) ELSE 0)
  <2>1. 1 .. Len(none) = {}
    BY <1>1
  <2>2. QED
    BY <1>3, <1>11, <2>1 DEF CallsHave
<1>13. Rests /\ CallsCopied /\ CallsCollected /\ CallsHeeded
  BY <1>2, <1>3, <1>7, <1>8, <1>9, <1>10, <1>12 DEF Rests, CallsCopied, CallsCollected, CallsHeeded
<1>14. QED
  BY <1>13 DEF CallsTold

\* A chunk, for the streams that are passed on.
LEMMA TakenCopied ==
  ASSUME StreamsInv, CallsTold, NEW chunk, NEW pieces, NEW found, Taken(chunk, pieces, found)
  PROVE  Rests' /\ CallsCopied' /\ CallsCollected'
<1> DEFINE s == chunk.toolCalls
           tc == s[1]
           finish == chunk.finish
           calls == sent.calls
           g == gemini
           q == gemini'
<1>1. /\ ~ended /\ ended' = ended /\ odd' = odd \cup found
      /\ chunk.content \in Seq(Tokens) /\ chunk.reasoning \in Seq(Tokens)
      /\ s \in Seq(ToolCalls) /\ Len(s) <= 1 /\ finish \in BOOLEAN /\ (finish => s = <<>>)
      /\ q = GeminiChunk(g, chunk) /\ chat' = ChatChunk(chat, chunk)
      /\ answer' = Accumulated(answer, chunk)
      /\ anthropic'.finished = (anthropic.finished \/ finish)
      /\ s = <<>> => sent'.calls = calls
      /\ s # <<>> => /\ sent'.calls = Called(calls, tc)
                     /\ "noCall" \notin found => Expected(tc)
                     /\ "late" \notin found => ~anthropic.finished
  BY DEF Taken
<1>2. /\ IsGemini(g) /\ Resting(g.normalizer) /\ IsChat(chat) /\ Resting(chat.normalizer)
  BY <1>1 DEF CallsTold, Rests
<1>3. calls \in Seq(Nat)
  BY DEF StreamsInv, Typed, Sents
<1> HIDE DEF ToolCalls, Tokens
<1>4. /\ IsGemini(q) /\ Resting(q.normalizer)
      /\ s = <<>> /\ ~finish => GeminiSame(g, q)
      /\ finish => q.names = {} /\ q.client.calls = Given(g.names, g.args, g.client.calls)
      /\ s # <<>> =>
           /\ q.client.calls = g.client.calls
           /\ q.names = IF tc.new THEN g.names \cup {tc.index} ELSE g.names
           /\ q.args = IF tc.piece # <<>> THEN Extended(g.args, tc) ELSE g.args
  BY <1>1, <1>2, GeminiChunkCalls
<1>5. /\ IsChat(chat') /\ Resting(chat'.normalizer)
      /\ chat'.client.calls = IF s = <<>> THEN chat.client.calls
                              ELSE Extended(chat.client.calls, tc)
  BY <1>1, <1>2, ChatChunkCalls
<1>6. answer'.calls = IF s = <<>> THEN answer.calls ELSE Extended(answer.calls, tc)
  BY <1>1, AnswerCalls
<1>7. Rests'
  BY <1>4, <1>5 DEF Rests
<1> HIDE DEF q, g, tc, s, finish, calls
<1>8. ASSUME "noCall" \notin odd'
      PROVE  /\ chat'.client.calls = sent'.calls /\ answer'.calls = sent'.calls
             /\ ~anthropic'.finished =>
                  /\ q.names = DOMAIN sent'.calls /\ q.args = Noted(sent'.calls)
                  /\ q.client.calls = NoCalls
             /\ anthropic'.finished /\ "late" \notin odd' =>
                  q.names = {} /\ q.client.calls = Understood(sent'.calls)
  <2>1. "noCall" \notin odd /\ "noCall" \notin found
        /\ ("late" \notin odd' => "late" \notin odd /\ "late" \notin found)
    BY <1>1, <1>8
  <2>2. chat.client.calls = calls /\ answer.calls = calls
    BY <1>1, <2>1 DEF CallsTold, CallsCopied, calls
  <2>3. /\ ~anthropic.finished =>
             g.names = DOMAIN calls /\ g.args = Noted(calls) /\ g.client.calls = NoCalls
        /\ anthropic.finished /\ "late" \notin odd => g.names = {} /\ g.client.calls = Understood(calls)
    BY <1>1, <2>1 DEF CallsTold, CallsCollected, calls, g
  <2>4. CASE s = <<>>
    <3>1. sent'.calls = calls
      BY <1>1, <2>4
    <3>2. chat'.client.calls = sent'.calls /\ answer'.calls = sent'.calls
      BY <1>5, <1>6, <2>2, <2>4, <3>1
    <3>3. CASE ~finish
      <4>1. q.names = g.names /\ q.args = g.args /\ q.client.calls = g.client.calls
        BY <1>4, <2>4, <3>3 DEF GeminiSame
      <4>2. anthropic'.finished <=> anthropic.finished
        BY <1>1, <3>3
      <4>3. QED
        BY <2>1, <2>3, <3>1, <3>2, <4>1, <4>2
    <3>4. CASE finish
      <4>1. q.names = {} /\ q.client.calls = Given(g.names, g.args, g.client.calls)
            /\ anthropic'.finished
        BY <1>1, <1>4, <3>4
      <4>2. "late" \notin odd => q.client.calls = Understood(calls)
        BY <1>3, <2>3, <4>1, GivenIs
      <4>3. QED
        BY <2>1, <3>1, <3>2, <4>1, <4>2
    <3>5. QED
      BY <3>3, <3>4
  <2>5. CASE s # <<>>
    <3>1. sent'.calls = Called(calls, tc) /\ Expected(tc) /\ ~finish
          /\ ("late" \notin odd' => ~anthropic.finished)
          /\ (anthropic'.finished <=> anthropic.finished)
      BY <1>1, <2>1, <2>5
    <3>2. Fits(calls, tc)
      BY <3>1 DEF Expected, calls
    <3>3. Extended(calls, tc) = Called(calls, tc)
      BY <1>3, <3>2, ExtendedCalled
    <3>4. chat'.client.calls = sent'.calls /\ answer'.calls = sent'.calls
      BY <1>5, <1>6, <2>2, <2>5, <3>1, <3>3
    <3>5. /\ DOMAIN sent'.calls = IF tc.new THEN DOMAIN calls \cup {tc.index} ELSE DOMAIN calls
          /\ Noted(sent'.calls) = IF tc.piece # <<>> THEN Extended(Noted(calls), tc)
                                  ELSE Noted(calls)
      BY <1>3, <3>1, <3>2, NotedOn
    <3>6. ASSUME ~anthropic.finished
          PROVE  /\ q.names = DOMAIN sent'.calls /\ q.args = Noted(sent'.calls)
                 /\ q.client.calls = NoCalls
      BY <1>4, <2>3, <2>5, <3>5, <3>6
    <3>7. QED
      BY <3>1, <3>4, <3>6
  <2>6. QED
    BY <2>4, <2>5
<1>9. CallsCopied' /\ CallsCollected'
  BY <1>1, <1>8 DEF CallsCopied, CallsCollected, q
<1>10. QED
  BY <1>7, <1>9

\* A chunk, for the streams of blocks and of items.
LEMMA TakenHeeded ==
  ASSUME StreamsInv, CallsTold, NEW chunk, NEW pieces, NEW found, Taken(chunk, pieces, found)
  PROVE  CallsHeeded'
<1> SUFFICES ASSUME Unmixed'
             PROVE  /\ message'.calls = sent'.calls
                    /\ CallsHave(sent'.inputs, responses', Uncut',
                                 IF Over' THEN Len(sent'.inputs) ELSE 0)
  BY DEF CallsHeeded
<1> DEFINE s == chunk.toolCalls
           tc == s[1]
           finish == chunk.finish
           calls == sent.calls
           inputs == sent.inputs
           r == responses
           q == responses'
           had == IF Over THEN Len(inputs) ELSE 0
<1>1. /\ odd' = odd \cup found
      /\ s \in Seq(ToolCalls) /\ Len(s) <= 1 /\ finish \in BOOLEAN /\ (finish => s = <<>>)
      /\ pieces \in Seq(NormalizedPieces) /\ sent'.inputs \in Seq(CallStates)
      /\ anthropic' = AnthropicChunk(anthropic, pieces, s, finish)
      /\ q = ResponsesChunk(r, pieces, s, finish)
      /\ q.finished = (r.finished \/ finish)
      /\ s = <<>> => sent'.calls = calls /\ sent'.inputs = inputs
      /\ s # <<>> =>
           /\ pieces = <<>> /\ s = <<tc>>
           /\ sent'.calls = Called(calls, tc) /\ sent'.inputs = Argument(inputs, tc)
           /\ "noCall" \notin found => Expected(tc)
           /\ "interleaved" \notin found => ~(tc.index < Len(calls))
           /\ "cutInput" \notin found => tc.piece # <<"quote", "word">>
           /\ "late" \notin found => ~anthropic.finished
  BY DEF Taken
<1>2. /\ sent \in Sents /\ DOMAIN inputs = DOMAIN calls
      /\ anthropic \in Translators /\ r \in ResponsesTranslators
      /\ ~r.finished => r.outputIndex = 0
      /\ anthropic.finished = r.finished
  BY DEF StreamsInv, Typed, Ends
<1>3. calls \in Seq(Nat) /\ inputs \in Seq(CallStates)
  BY <1>2 DEF Sents
<1>4. Len(inputs) = Len(calls) /\ Len(inputs) \in Nat /\ had \in Nat /\ 0 \in Nat
      /\ DOMAIN calls = 1 .. Len(calls)
  BY <1>2, <1>3
<1>5. "noCall" \notin odd /\ "interleaved" \notin odd
      /\ "noCall" \notin found /\ "interleaved" \notin found
  BY <1>1 DEF Unmixed
<1>6. message.calls = calls /\ CallsHave(inputs, r, Uncut, had)
  BY <1>5 DEF CallsTold, CallsHeeded, Unmixed
<1>7. Uncut \in BOOLEAN /\ (Uncut' => Uncut /\ "cutInput" \notin found)
      /\ (Over' => "late" \notin odd /\ "late" \notin found)
      /\ (Over' <=> "late" \notin odd' /\ (r.finished \/ finish))
      /\ (Over <=> "late" \notin odd /\ r.finished)
  BY <1>1 DEF Uncut, Over
<1>8. message'.calls = IF s = <<>> THEN calls ELSE Counted(calls, tc)
  <2> DEFINE b == AnthropicChunk(anthropic, pieces, s, finish)
  <2> HIDE DEF s, finish, calls
  <2>1. b.client.calls = IF s = <<>> THEN anthropic.client.calls
                         ELSE Counted(anthropic.client.calls, s[1])
    BY <1>1, <1>2, AnthropicChunkCalls
  <2> HIDE DEF b
  <2>2. anthropic' = b
    BY <1>1 DEF b
  <2>3. QED
    BY <1>6, <2>1, <2>2 DEF message, tc
<1> HIDE DEF s, tc, finish, calls, inputs, q, r, had
<1>9. CASE s = <<>>
  <2> DEFINE n == IF finish /\ ~r.finished THEN Len(inputs) ELSE had
             m == IF Over' THEN Len(inputs) ELSE 0
  <2>1. q = ResponsesChunk(r, pieces, <<>>, finish)
    BY <1>1, <1>9
  <2>2. CallsHave(inputs, q, Uncut, n)
    BY <1>1, <1>2, <1>3, <1>4, <1>6, <1>7, <2>1, QuietChunkHeard DEF r
  <2>3. n \in Int /\ m \in Int /\ m <= n
    BY <1>1, <1>4, <1>7 DEF had
  <2> HIDE DEF n, m
  <2> DEFINE v == Uncut'
  <2>4. (v => Uncut) /\ v \in BOOLEAN
    BY <1>7 DEF Uncut
  <2> HIDE DEF v
  <2>5. CallsHave(inputs, q, v, m)
    BY <1>4, <1>7, <2>2, <2>3, <2>4, CallsHaveLess
  <2>6. sent'.calls = calls /\ sent'.inputs = inputs
    BY <1>1, <1>9
  <2>7. QED
    BY <1>8, <1>9, <2>5, <2>6 DEF v, m, q
<1>10. CASE s # <<>>
  <2>1. /\ q = ResponsesChunk(r, <<>>, <<tc>>, FALSE) /\ ~finish
        /\ sent'.calls = Called(calls, tc) /\ sent'.inputs = Argument(inputs, tc)
        /\ Expected(tc) /\ ~(tc.index < Len(calls))
    <3>1. finish = FALSE
      BY <1>1, <1>10
    <3>2. QED
      BY <1>1, <1>5, <1>10, <3>1
  <2>2. tc \in ToolCalls /\ Fits(calls, tc)
        /\ (~tc.new => NextOf(inputs[tc.index], tc.piece))
    BY <2>1 DEF Expected, calls, inputs
  <2>3. message'.calls = sent'.calls
    BY <1>3, <1>8, <1>10, <2>1, <2>2, CountedCalled
  <2>4. \/ tc.new /\ tc.piece = <<>>
        \/ /\ ~tc.new /\ inputs # <<>> /\ tc.index = Len(inputs)
           /\ NextOf(inputs[Len(inputs)], tc.piece)
    <3>1. CASE tc.new
      BY <2>2, <3>1 DEF Fits
    <3>2. CASE ~tc.new
      <4>1. tc.index \in 1 .. Len(inputs)
        BY <1>4, <2>2, <3>2 DEF Fits
      <4>2. tc.index = Len(inputs) /\ Len(inputs) # 0
        BY <1>4, <2>1, <4>1
      <4>3. inputs # <<>>
        BY <1>3, <4>2, EmptySeq
      <4>4. QED
        BY <2>2, <3>2, <4>2, <4>3
    <3>3. QED
      BY <3>1, <3>2
  <2> DEFINE w == Uncut /\ tc.piece # <<"quote", "word">>
             v == Uncut'
             b == Argument(inputs, tc)
  <2>5. CallsHave(b, q, w, 0)
    BY <1>2, <1>3, <1>4, <1>6, <1>7, <2>1, <2>2, <2>4, EntryChunkHeard DEF r
  <2>6. (v => w) /\ v \in BOOLEAN /\ w \in BOOLEAN
    BY <1>1, <1>7, <1>10 DEF Uncut
  <2>7. Len(b) \in Nat
    <3> HIDE DEF CallStates, b
    <3>1. b \in Seq(CallStates)
      BY <1>1, <2>1 DEF b
    <3>2. QED
      BY <3>1
  <2>8. ~Over'
    BY <1>1, <1>2, <1>7, <1>10, <2>1 DEF r
  <2> HIDE DEF w, v, b
  <2>9. CallsHave(b, q, v, 0)
    BY <2>5, <2>6, <2>7, CallsHaveLess
  <2>10. QED
    BY <2>1, <2>3, <2>8, <2>9 DEF b, v, q
<1>11. QED
  BY <1>9, <1>10

LEMMA ReceiveKeepsCalls == StreamsInv /\ CallsTold /\ Receive => CallsTold'
<1> SUFFICES ASSUME StreamsInv, CallsTold, Receive PROVE CallsTold'
  OBVIOUS
<1>1. PICK chunk, pieces, found : Taken(chunk, pieces, found)
  BY ReceiveTakes
<1>2. Rests' /\ CallsCopied' /\ CallsCollected'
  BY <1>1, TakenCopied
<1>3. CallsHeeded'
  BY <1>1, TakenHeeded
<1>4. QED
  BY <1>2, <1>3 DEF CallsTold

LEMMA EndStreamKeepsCalls == StreamsInv /\ CallsTold /\ EndStream => CallsTold'
<1> SUFFICES ASSUME StreamsInv, CallsTold, EndStream PROVE CallsTold'
  OBVIOUS
<1> DEFINE n == NormalizerFlushed(normalizer)
           pieces == n.out
           r == responses
           q == responses'
           inputs == sent.inputs
           had == IF Over THEN Len(inputs) ELSE 0
           all == IF r.finished THEN had ELSE Len(inputs)
           m == IF Over' THEN Len(inputs) ELSE 0
           v == Uncut'
<1>1. /\ ~ended /\ ended' = TRUE /\ sent' = sent
      /\ odd \subseteq odd' /\ odd' \subseteq odd \cup {"empty", "openAtEnd"}
      /\ anthropic' = AnthropicFlush(anthropic, pieces) /\ q = ResponsesFlush(r, pieces)
      /\ chat' = ChatFlush(chat) /\ reader' = AnswerRead(answer)
  BY DEF EndStream, OddIf
<1>2. /\ sent \in Sents /\ normalizer \in Normalizers
      /\ Buffered(normalizer) /\ normalizer.remaining = <<>>
      /\ anthropic \in Translators /\ r \in ResponsesTranslators
      /\ ~r.finished => r.outputIndex = 0
  BY DEF StreamsInv, Typed, Ends
<1>3. n \in Normalizers
  BY <1>2, NormalizerFlushedIs
<1> HIDE DEF n
<1>4. pieces \in Seq(NormalizedPieces)
  BY <1>3 DEF Normalizers
<1>5. inputs \in Seq(CallStates)
  BY <1>2 DEF Sents
<1>6. Len(inputs) \in Nat
  BY <1>5
<1>7. IsChat(chat) /\ Resting(chat.normalizer)
  BY <1>1 DEF CallsTold, Rests
<1>8. chat'.client.calls = chat.client.calls /\ reader'.calls = Understood(answer.calls)
  BY <1>1, <1>7, ChatFlushCalls, AnswerCalls
<1>9. message'.calls = message.calls
  BY <1>1, <1>2, <1>4, AnthropicFlushCalls DEF message
<1> HIDE DEF pieces, inputs, q, r, CallStates, NormalizedPieces
<1>10. Rests' /\ CallsCollected'
  BY <1>1 DEF Rests, CallsCollected
<1>11. CallsCopied'
  BY <1>1, <1>8 DEF CallsTold, CallsCopied
<1>12. ASSUME Unmixed'
       PROVE  message'.calls = sent'.calls /\ CallsHave(inputs, q, v, m)
  <2>1. Unmixed
    BY <1>1, <1>12 DEF Unmixed
  <2>2. message.calls = sent.calls /\ CallsHave(inputs, r, Uncut, had)
    BY <2>1 DEF CallsTold, CallsHeeded, r, inputs
  <2>3. had \in Nat /\ all \in Int /\ m \in Int /\ m <= all
    <3>1. r.finished /\ Over' => Over
      BY <1>1 DEF Over, r
    <3>2. QED
      BY <1>6, <3>1
  <2>4. (v => Uncut) /\ v \in BOOLEAN /\ Uncut \in BOOLEAN
    BY <1>1 DEF Uncut
  <2> HIDE DEF had, m, v
  <2>5. CallsHave(inputs, q, Uncut, all)
    BY <1>1, <1>2, <1>4, <1>5, <2>2, <2>3, <2>4, FlushHeard DEF r
  <2> HIDE DEF all
  <2>6. CallsHave(inputs, q, v, m)
    BY <1>6, <2>3, <2>4, <2>5, CallsHaveLess
  <2>7. QED
    BY <1>1, <1>9, <2>2, <2>6
<1>13. CallsHeeded'
  BY <1>1, <1>12 DEF CallsHeeded, v, m, q, inputs
<1>14. QED
  BY <1>10, <1>11, <1>13 DEF CallsTold

LEMMA StutterKeepsCalls == CallsTold /\ UNCHANGED vars => CallsTold'
  BY DEF CallsTold, Rests, CallsCopied, CallsCollected, CallsHeeded, Unmixed, Uncut, Over,
         message, vars, backendVars

(*****************************************************************************)
(* However calls, their arguments, text and thoughts follow each other, the  *)
(* client of each protocol has at any time just the calls that were sent, or *)
(* its translator has what is missing: the names and arguments that          *)
(* gemini_stream.go collects, and the arguments, and how much of a custom    *)
(* tool's input was sent, that responses_stream.go keeps of each call.  The  *)
(* inductive invariant of the next theorem, beside StreamsInv.               *)
(*****************************************************************************)
THEOREM CallsAreTracked == Spec => []CallsTold
<1>1. StreamsInv /\ CallsTold /\ [Next]_vars => CallsTold'
  BY ReceiveKeepsCalls, EndStreamKeepsCalls, StutterKeepsCalls DEF Next
<1>2. QED
  BY CallsAtFirst, StreamsHangTogether, <1>1, PTL DEF Spec

\* What a client of the Responses API was told of a call, and in the end.
LEMMA CallMeant ==
  ASSUME NEW s, NEW c \in CallStates, NEW k, NEW whole, NEW closed,
         CallHas(s, c, k, whole, closed)
  PROVE  LET said == s.arguments
             meant == IF BreaksOff(said) THEN said ELSE Words(said)
         IN (whole => k.heard = meant) /\ (closed => k.final = meant)
<1>1. c.arguments = s.arguments /\ Shaped(c)
      /\ (whole => k.heard = Input(c)) /\ (closed => k.final = Input(c))
  BY DEF CallHas
<1>2. Input(c) = IF BreaksOff(c.arguments) THEN c.arguments ELSE Words(c.arguments)
  BY <1>1, InputMeant
<1>3. QED
  BY <1>1, <1>2

LEMMA CallsToldIntact == StreamsInv /\ CallsTold => CallsIntact
<1> SUFFICES ASSUME StreamsInv, CallsTold, "noCall" \notin odd
             PROVE  /\ chat.client.calls = sent.calls
                    /\ ended => reader.calls = Understood(sent.calls)
                    /\ anthropic.finished /\ ~ended /\ "late" \notin odd =>
                         gemini.client.calls = Understood(sent.calls)
                    /\ "interleaved" \notin odd =>
                         /\ message.calls = sent.calls
                         /\ DOMAIN response.calls = DOMAIN sent.inputs
                         /\ \A i \in DOMAIN sent.inputs :
                              LET said == sent.inputs[i].arguments
                                  meant == IF BreaksOff(said) THEN said ELSE Words(said)
                              IN /\ "cutInput" \notin odd => response.calls[i].heard = meant
                                 /\ ended /\ "late" \notin odd =>
                                      response.calls[i].final = meant
  BY DEF CallsIntact
<1> DEFINE inputs == sent.inputs
           r == responses
           had == IF Over THEN Len(inputs) ELSE 0
<1>1. chat.client.calls = sent.calls /\ (ended => reader.calls = Understood(sent.calls))
  BY DEF CallsTold, CallsCopied
<1>2. anthropic.finished /\ ~ended /\ "late" \notin odd =>
        gemini.client.calls = Understood(sent.calls)
  BY DEF CallsTold, CallsCollected
<1>3. sent \in Sents /\ r \in ResponsesTranslators /\ (ended => r.finished)
  BY DEF StreamsInv, Typed, Ends
<1>4. /\ inputs \in Seq(CallStates) /\ r.toolCalls \in Seq(CallStates)
      /\ r.client.calls \in Seq(HeardCalls)
  BY <1>3 DEF Sents, ResponsesTranslators, ResponseReaders, HeardCalls
<1>5. ASSUME "interleaved" \notin odd
      PROVE  message.calls = sent.calls /\ CallsHave(inputs, r, Uncut, had)
  BY <1>5 DEF CallsTold, CallsHeeded, Unmixed
<1> HIDE DEF inputs, r, had, CallStates
<1>6. ASSUME "interleaved" \notin odd
      PROVE  DOMAIN r.client.calls = DOMAIN inputs
  <2>1. Len(r.client.calls) = Len(inputs)
    BY <1>5, <1>6 DEF CallsHave
  <2> HIDE DEF HeardCalls
  <2>2. QED
    BY <1>4, <2>1
<1>7. ASSUME "interleaved" \notin odd, NEW i \in DOMAIN inputs
      PROVE  LET said == inputs[i].arguments
                 meant == IF BreaksOff(said) THEN said ELSE Words(said)
             IN /\ "cutInput" \notin odd => r.client.calls[i].heard = meant
                /\ ended /\ "late" \notin odd => r.client.calls[i].final = meant
  <2> DEFINE closed == i <= had
             c == r.toolCalls[i]
  <2>1. i \in 1 .. Len(inputs) /\ Len(inputs) \in Nat
    BY <1>4
  <2>2. CallHas(inputs[i], c, r.client.calls[i], Uncut, closed)
    BY <1>5, <1>7, <2>1 DEF CallsHave
  <2>3. c \in CallStates
    <3>1. Len(r.toolCalls) = Len(inputs)
      BY <1>5, <1>7 DEF CallsHave
    <3>2. i \in DOMAIN r.toolCalls
      BY <1>4, <2>1, <3>1
    <3>3. QED
      BY <1>4, <3>2, ElementOfSeq
  <2>4. ended /\ "late" \notin odd => closed
    BY <1>3, <2>1 DEF had, Over, r
  <2> HIDE DEF closed, c
  <2>5. LET said == inputs[i].arguments
            meant == IF BreaksOff(said) THEN said ELSE Words(said)
        IN (Uncut => r.client.calls[i].heard = meant) /\ (closed => r.client.calls[i].final = meant)
    BY <2>2, <2>3, CallMeant
  <2>6. QED
    BY <2>4, <2>5 DEF Uncut
<1>8. QED
  BY <1>1, <1>2, <1>5, <1>6, <1>7 DEF response, inputs, r

(*****************************************************************************)
(* Every tool call reaches the client of every protocol with each piece of   *)
(* its arguments - with none of them the client of Gemini, at the finish,    *)
(* and of a whole answer of the Messages API, where they do not parse - and  *)
(* what a client of the Responses API was sent of a custom tool's input in   *)
(* pieces, and is told of it in the end, is that input without its wrapping: *)
(* ProcessChunk of stream.go, handleToolCalls, finish and                    *)
(* extractCustomToolInput of responses_stream.go and responses.go, the maps  *)
(* of gemini_stream.go and sse_compat.go, TranslateResponse of response.go.  *)
(*****************************************************************************)
THEOREM CallsArrive == Spec => []CallsIntact
  BY CallsAreTracked, StreamsHangTogether, CallsToldIntact, PTL

-----------------------------------------------------------------------------
(*****************************************************************************)
(* Whole answers: the halves of tags have met, and the places of passages    *)
(* are those the regular expression finds.                                   *)
(*****************************************************************************)

\* What takes the model from place to place, once the halves of tags have met.
WholeSteps == {m \in Moves : m[2] \notin {"open2", "close2"}}

LEMMA WholeStepsAre ==
  ASSUME NEW l, NEW x, NEW m, <<l, x, m>> \in WholeSteps
  PROVE  /\ x \in Tokens
         /\ x \in {"text", "open1"} => l \in {"text", "opening"} /\ m \in {"text", "opening"}
         /\ x \in {"thought", "close1"} =>
              l \in {"thought", "closing"} /\ m \in {"thought", "closing"}
         /\ x = "open" => l = "text" /\ m = "thought"
         /\ x = "close" => m = "text"
         /\ x \in {"text", "open1", "thought", "close1", "open", "close"}
         /\ m = "opening" => x = "open1" /\ l = "text"
         /\ m = "closing" => x = "close1" /\ l = "thought"
         /\ l \in {"text", "opening"} /\ m \in {"thought", "closing"} => x = "open"
         /\ l \in {"thought", "closing"} /\ m \in {"text", "opening"} => x = "close"
  BY DEF WholeSteps, Moves, Tokens

LEMMA WholeStepsHave ==
  ASSUME NEW l, NEW x, NEW m, <<l, x, m>> \in Moves
  PROVE  /\ x \notin {"open2", "close2"} => <<l, x, m>> \in WholeSteps
         /\ x = "open2" => l = "opening" /\ m = "thought"
         /\ x = "close2" => l = "closing" /\ m = "text"
         /\ l = "opening" /\ x # "open2" => x = "text"
         /\ l = "closing" /\ x # "close2" => x = "thought"
         /\ m = "opening" => x = "open1"
         /\ m = "closing" => x = "close1"
  BY DEF WholeSteps, Moves

\* In a chunk only the first token can be the second half of a tag.
LEMMA ChunkWholeSteps ==
  ASSUME NEW p, NEW s \in Seq(Tokens), OneChunk(s), NEW g, Passes(g, p, s),
         NEW i \in 1 .. Len(s), i # 1 \/ s[1] \notin {"open2", "close2"}
  PROVE  <<g[i - 1], s[i], g[i]>> \in WholeSteps
<1>1. <<g[i - 1], s[i], g[i]>> \in Moves
  BY DEF Passes
<1>2. CASE i = 1
  BY <1>1, <1>2, WholeStepsHave
<1>3. CASE i # 1
  <2>1. i - 1 \in 1 .. Len(s) /\ i - 1 \in 1 .. Len(s) - 1
    BY <1>3
  <2>2. <<g[(i - 1) - 1], s[i - 1], g[i - 1]>> \in Moves /\ s[i - 1] \notin {"open1", "close1"}
    BY <2>1 DEF Passes, OneChunk
  <2>3. g[i - 1] \notin {"opening", "closing"}
    BY <2>2, WholeStepsHave
  <2>4. s[i] \notin {"open2", "close2"}
    BY <1>1, <2>3, WholeStepsHave
  <2>5. QED
    BY <1>1, <2>4, WholeStepsHave
<1>4. QED
  BY <1>2, <1>3

\* The first half of a tag is what came last.
LEMMA WholeFront ==
  ASSUME NEW s \in Seq(Tokens), NEW p, NEW q \in {"opening", "closing"}, p \notin {"opening", "closing"},
         Leads(WholeSteps, p, s, q)
  PROVE  /\ s # <<>> /\ Front(s) \in Seq(Tokens)
         /\ q = "opening" => Last(s) = "open1" /\ Leads(WholeSteps, p, Front(s), "text")
         /\ q = "closing" => Last(s) = "close1" /\ Leads(WholeSteps, p, Front(s), "thought")
<1> DEFINE k == Len(s)
           front == Front(s)
<1>1. PICK h \in [0 .. k -> ModelPlaces] :
        /\ h[0] = p /\ h[k] = q
        /\ \A j \in 1 .. k : <<h[j - 1], s[j], h[j]>> \in WholeSteps
  BY DEF Leads
<1>2. k \in Nat \ {0}
  BY <1>1
<1>3. s # <<>> /\ Last(s) = s[k] /\ k \in 1 .. k
  BY <1>2, EmptySeq DEF Last
<1>4. /\ front \in Seq(Tokens) /\ Len(front) = k - 1
      /\ \A i \in 1 .. k - 1 : front[i] = s[i]
  <2>1. front = SubSeq(s, 1, k - 1)
    BY DEF Front
  <2>2. k - 1 \in Nat /\ k = Len(s)
    BY <1>2
  <2> HIDE DEF front, k
  <2>3. front \in Seq(Tokens)
    <3>1. \A i \in 1 .. k - 1 : i \in 1 .. Len(s)
      BY <2>2
    <3>2. \A i \in 1 .. k - 1 : s[i] \in Tokens
      BY <3>1, ElementOfSeq
    <3>3. front = [i \in 1 .. k - 1 |-> s[i]]
      BY <2>1, <2>2
    <3>4. QED
      BY <2>2, <3>2, <3>3
  <2>4. Len(front) = k - 1 /\ \A i \in 1 .. k - 1 : front[i] = s[i]
    BY <2>1, <2>2
  <2>5. QED
    BY <2>3, <2>4
<1> HIDE DEF front, k
<1>5. <<h[k - 1], s[k], h[k]>> \in WholeSteps
  BY <1>1, <1>3
<1>6. /\ q = "opening" => s[k] = "open1" /\ h[k - 1] = "text"
      /\ q = "closing" => s[k] = "close1" /\ h[k - 1] = "thought"
  BY <1>1, <1>5, WholeStepsAre
<1>7. Leads(WholeSteps, p, front, h[k - 1])
  <2> DEFINE f == [i \in 0 .. k - 1 |-> h[i]]
  <2>1. f \in [0 .. Len(front) -> ModelPlaces] /\ f[0] = p /\ f[Len(front)] = h[k - 1]
    BY <1>1, <1>2, <1>4
  <2>2. ASSUME NEW i \in 1 .. Len(front) PROVE <<f[i - 1], front[i], f[i]>> \in WholeSteps
    <3>1. i - 1 \in 0 .. k - 1 /\ i \in 0 .. k - 1 /\ i \in 1 .. k /\ i \in 1 .. k - 1
      BY <1>2, <1>4
    <3>2. f[i - 1] = h[i - 1] /\ f[i] = h[i] /\ front[i] = s[i]
      BY <1>4, <3>1
    <3>3. <<h[i - 1], s[i], h[i]>> \in WholeSteps
      BY <1>1, <3>1
    <3>4. QED
      BY <3>2, <3>3, Zenon
  <2> HIDE DEF f
  <2>3. QED
    BY <2>1, <2>2 DEF Leads
<1>8. QED
  BY <1>3, <1>4, <1>6, <1>7 DEF front, k

\* One tag that is whole.
LEMMA TagLeads ==
  /\ Leads(WholeSteps, "text", <<"open">>, "thought") /\ <<"open">> \in Seq(Tokens)
  /\ Leads(WholeSteps, "thought", <<"close">>, "text") /\ <<"close">> \in Seq(Tokens)
<1>1. <<"text", "open", "thought">> \in WholeSteps /\ <<"thought", "close", "text">> \in WholeSteps
  BY DEF WholeSteps, Moves
<1>2. ASSUME NEW x \in Tokens, NEW p \in ModelPlaces, NEW q \in ModelPlaces,
             <<p, x, q>> \in WholeSteps
      PROVE  Leads(WholeSteps, p, <<x>>, q) /\ <<x>> \in Seq(Tokens)
  <2> DEFINE f == [i \in 0 .. 1 |-> IF i = 0 THEN p ELSE q]
             tag == <<x>>
  <2>1. Len(tag) = 1 /\ tag[1] = x /\ tag \in Seq(Tokens)
    OBVIOUS
  <2>2. f \in [0 .. 1 -> ModelPlaces] /\ f[0] = p /\ f[1] = q
    OBVIOUS
  <2>3. \A i \in 1 .. Len(tag) : i = 1 /\ i - 1 = 0
    BY <2>1
  <2> HIDE DEF f, tag
  <2>4. Leads(WholeSteps, p, tag, q)
    BY <1>2, <2>1, <2>2, <2>3 DEF Leads
  <2>5. QED
    BY <2>1, <2>4 DEF tag
<1>3. "text" \in ModelPlaces /\ "thought" \in ModelPlaces /\ "open" \in Tokens /\ "close" \in Tokens
  BY DEF ModelPlaces, Tokens
<1>4. QED
  BY <1>1, <1>2, <1>3

\* The rest of a chunk that begins with the second half of a tag.
LEMMA WholeRest ==
  ASSUME NEW p, NEW s \in Seq(Tokens), s # <<>>, OneChunk(s), NEW g, Passes(g, p, s)
  PROVE  Tail(s) \in Seq(Tokens) /\ Leads(WholeSteps, g[1], Tail(s), g[Len(s)])
<1> DEFINE rest == Tail(s)
           n == Len(s)
           f == [i \in 0 .. n - 1 |-> g[i + 1]]
<1>1. n \in Nat /\ n # 0 /\ g \in [0 .. n -> ModelPlaces]
  BY EmptySeq DEF Passes
<1>2. /\ rest \in Seq(Tokens) /\ Len(rest) = n - 1
      /\ \A i \in 1 .. n - 1 : rest[i] = s[i + 1]
  BY <1>1
<1> HIDE DEF rest
<1>3. f \in [0 .. Len(rest) -> ModelPlaces] /\ f[0] = g[1] /\ f[Len(rest)] = g[n]
  <2>1. \A i \in 0 .. n - 1 : i + 1 \in 0 .. n
    BY <1>1
  <2>2. 0 \in 0 .. n - 1 /\ n - 1 \in 0 .. n - 1 /\ 0 + 1 = 1 /\ (n - 1) + 1 = n
    BY <1>1
  <2> HIDE DEF n
  <2>3. f \in [0 .. n - 1 -> ModelPlaces] /\ f[0] = g[1] /\ f[n - 1] = g[n]
    BY <1>1, <2>1, <2>2
  <2>4. QED
    BY <1>2, <2>3
<1>4. ASSUME NEW i \in 1 .. Len(rest) PROVE <<f[i - 1], rest[i], f[i]>> \in WholeSteps
  <2>1. /\ i - 1 \in 0 .. n - 1 /\ i \in 0 .. n - 1 /\ i + 1 \in 1 .. n
        /\ (i - 1) + 1 = (i + 1) - 1 /\ i + 1 # 1 /\ i \in 1 .. n - 1
    BY <1>1, <1>2
  <2>2. f[i - 1] = g[(i + 1) - 1] /\ f[i] = g[i + 1] /\ rest[i] = s[i + 1]
    BY <1>2, <2>1
  <2>3. <<g[(i + 1) - 1], s[i + 1], g[i + 1]>> \in WholeSteps
    BY <2>1, ChunkWholeSteps
  <2>4. QED
    BY <2>2, <2>3, Zenon
<1> HIDE DEF f
<1>5. Leads(WholeSteps, g[1], rest, g[n])
  BY <1>3, <1>4 DEF Leads
<1>6. QED
  BY <1>2, <1>5 DEF rest

\* A chunk is put behind the whole answer so far.
LEMMA GluedLeads ==
  ASSUME NEW s \in Seq(Tokens), NEW p \in ModelPlaces, Leads(WholeSteps, "text", s, p),
         NEW t \in Seq(Tokens), OneChunk(t), NEW g, Passes(g, p, t)
  PROVE  /\ Glued(s, t) \in Seq(Tokens)
         /\ Leads(WholeSteps, "text", Glued(s, t), g[Len(t)])
         /\ \A x \in {"text", "thought"} :
              CountOf(x, Glued(s, t)) = CountOf(x, s) + CountOf(x, t)
<1> DEFINE n == Len(t)
           e == g[n]
           rest == Tail(t)
<1>1. g \in [0 .. n -> ModelPlaces] /\ g[0] = p /\ n \in Nat
  BY DEF Passes
<1>2. CASE t = <<>>
  <2>1. s \o t = s /\ n = 0
    BY <1>2
  <2>2. Glued(s, t) = s
    BY <1>2, <2>1 DEF Glued, Joined
  <2>3. \A x : CountOf(x, t) = 0 /\ CountOf(x, s) \in Nat
    BY <1>2, CountEmpty, CountIsNumber
  <2>4. \A x : CountOf(x, s) = CountOf(x, s) + CountOf(x, t)
    BY <2>3
  <2>5. e = p
    BY <1>1, <2>1
  <2> HIDE DEF e
  <2>6. QED
    BY <2>2, <2>4, <2>5 DEF e
<1>3. CASE t # <<>>
  <2>1. n # 0 /\ 1 \in 1 .. n /\ Head(t) = t[1] /\ t[1] \in Tokens
    BY <1>1, <1>3, EmptySeq
  <2>2. <<p, t[1], g[1]>> \in Moves
    BY <1>1, <2>1 DEF Passes
  <2>3. rest \in Seq(Tokens) /\ Leads(WholeSteps, g[1], rest, e)
    BY <1>3, WholeRest
  <2>4. t = <<t[1]>> \o rest
    <3>1. SubSeq(t, 1, Len(t)) = <<t[1]>> \o SubSeq(t, 1 + 1, Len(t))
      BY <2>1, SubSeqRecursiveFirst
    <3>2. SubSeq(t, 1, Len(t)) = t
      BY SubSeqFull
    <3>3. rest = SubSeq(t, 2, Len(t)) /\ 1 + 1 = 2
      BY <1>3, TailIsSubSeq
    <3>4. QED
      BY <3>1, <3>2, <3>3
  <2>5. CASE t[1] \notin {"open2", "close2"}
    <3>1. Glued(s, t) = s \o t
      BY <2>1, <2>5 DEF Glued, Joined
    <3>2. Leads(WholeSteps, p, t, e)
      <4>1. \A i \in 1 .. n : <<g[i - 1], t[i], g[i]>> \in WholeSteps
        BY <2>5, ChunkWholeSteps
      <4>2. QED
        BY <1>1, <4>1 DEF Leads
    <3> HIDE DEF e
    <3>3. Leads(WholeSteps, "text", s \o t, e) /\ s \o t \in Seq(Tokens)
      BY <3>2, LeadsThrough
    <3>4. \A x : CountOf(x, s \o t) = CountOf(x, s) + CountOf(x, t)
      BY CountConcat
    <3>5. QED
      BY <3>1, <3>3, <3>4 DEF e
  <2>6. CASE t[1] \in {"open2", "close2"}
    <3> DEFINE front == Front(s)
               open == t[1] = "open2"
               tag == IF open THEN <<"open">> ELSE <<"close">>
               from == IF open THEN "text" ELSE "thought"
               to == IF open THEN "thought" ELSE "text"
               half == IF open THEN <<"open1">> ELSE <<"close1">>
               other == <<t[1]>>
    <3>1. /\ open => p = "opening" /\ g[1] = "thought"
          /\ ~open => p = "closing" /\ g[1] = "text"
      BY <2>2, <2>6, WholeStepsHave
    <3>2. /\ s # <<>> /\ front \in Seq(Tokens)
          /\ p = "opening" => Last(s) = "open1" /\ Leads(WholeSteps, "text", front, "text")
          /\ p = "closing" => Last(s) = "close1" /\ Leads(WholeSteps, "text", front, "thought")
      BY <3>1, WholeFront
    <3>3. /\ Leads(WholeSteps, "text", front, from) /\ g[1] = to
          /\ Leads(WholeSteps, from, tag, to) /\ tag \in Seq(Tokens)
      BY <3>1, <3>2, TagLeads
    <3>4. Glued(s, t) = front \o tag \o rest
      BY <1>3, <2>1, <2>6, <3>1, <3>2 DEF Glued, Joined
    <3>5. s = front \o half /\ half \in Seq(Tokens) /\ other \in Seq(Tokens)
      <4>1. s[Len(s)] = IF open THEN "open1" ELSE "close1"
        BY <3>1, <3>2 DEF Last
      <4>2. half = <<s[Len(s)]>>
        BY <4>1
      <4>3. Len(s) \in 1 .. Len(s) /\ 1 \in 1 .. Len(s)
        BY <3>2, EmptySeq
      <4>4. SubSeq(s, 1, Len(s)) = SubSeq(s, 1, Len(s) - 1) \o <<s[Len(s)]>>
        BY <4>3, SubSeqRecursiveSecond
      <4>5. SubSeq(s, 1, Len(s)) = s
        BY SubSeqFull
      <4>6. half \in Seq(Tokens) /\ other \in Seq(Tokens)
        <5>1. "open1" \in Tokens /\ "close1" \in Tokens
          BY DEF Tokens
        <5>2. \A x \in Tokens : <<x>> \in Seq(Tokens)
          OBVIOUS
        <5>3. QED
          BY <2>1, <5>1, <5>2
      <4>7. QED
        BY <4>2, <4>4, <4>5, <4>6 DEF Front
    <3>6. \A x \in {"text", "thought"} :
            CountOf(x, tag) = 0 /\ CountOf(x, half) = 0 /\ CountOf(x, other) = 0
      BY <2>6, CountOne
    <3> HIDE DEF front, tag, from, to, half, other, rest, e
    <3> DEFINE both == front \o tag
    <3>7. both \in Seq(Tokens) /\ Leads(WholeSteps, "text", both, to)
      BY <3>2, <3>3, LeadsThrough
    <3>8. \A x \in {"text", "thought"} : CountOf(x, both) = CountOf(x, s)
      <4>1. ASSUME NEW x \in {"text", "thought"} PROVE CountOf(x, both) = CountOf(x, s)
        <5>1. CountOf(x, both) = CountOf(x, front) + CountOf(x, tag)
          BY <3>2, <3>3, CountConcat
        <5>2. CountOf(x, front \o half) = CountOf(x, front) + CountOf(x, half)
          BY <3>2, <3>5, CountConcat
        <5>3. QED
          BY <3>5, <3>6, <5>1, <5>2
      <4>2. QED
        BY <4>1
    <3>9. \A x \in {"text", "thought"} : CountOf(x, rest) = CountOf(x, t)
      <4>1. ASSUME NEW x \in {"text", "thought"} PROVE CountOf(x, rest) = CountOf(x, t)
        <5>1. CountOf(x, other \o rest) = CountOf(x, other) + CountOf(x, rest)
          BY <2>3, <3>5, CountConcat
        <5>2. t = other \o rest
          BY <2>4 DEF other
        <5>3. CountOf(x, rest) \in Nat
          BY <2>3, CountIsNumber
        <5>4. QED
          BY <3>6, <5>1, <5>2, <5>3
      <4>2. QED
        BY <4>1
    <3> HIDE DEF both
    <3>10. Leads(WholeSteps, "text", both \o rest, e) /\ both \o rest \in Seq(Tokens)
      BY <2>3, <3>3, <3>7, LeadsThrough
    <3>11. \A x : CountOf(x, both \o rest) = CountOf(x, both) + CountOf(x, rest)
      BY <2>3, <3>7, CountConcat
    <3>12. Glued(s, t) = both \o rest
      BY <3>4 DEF both
    <3>13. QED
      BY <3>8, <3>9, <3>10, <3>11, <3>12 DEF e
  <2>7. QED
    BY <2>5, <2>6
<1>4. QED
  BY <1>2, <1>3

\* The model is in a passage just where the last opening tag has no closing tag
\* behind it yet.
LEMMA InsideWhole ==
  ASSUME NEW s \in Seq(Tokens), NEW g \in [0 .. Len(s) -> ModelPlaces], g[0] = "text",
         \A i \in 1 .. Len(s) : <<g[i - 1], s[i], g[i]>> \in WholeSteps,
         NEW i \in 0 .. Len(s)
  PROVE  /\ g[i] \in {"thought", "closing"} =>
              \E o \in 1 .. i : s[o] = "open" /\ \A j \in o .. i : s[j] # "close"
         /\ g[i] \in {"text", "opening"} =>
              \A o \in 1 .. i : s[o] = "open" => \E j \in o .. i : s[j] = "close"
<1> DEFINE n == Len(s)
           has(k) == \E o \in 1 .. k : s[o] = "open" /\ \A j \in o .. k : s[j] # "close"
           hasnt(k) == \A o \in 1 .. k : s[o] = "open" => \E j \in o .. k : s[j] = "close"
           Fine(k) == /\ g[k] \in {"thought", "closing"} => has(k)
                      /\ g[k] \in {"text", "opening"} => hasnt(k)
           U == {k \in Nat : k <= n => Fine(k)}
<1>1. n \in Nat
  OBVIOUS
<1>2. 0 \in U
  <2>1. 1 .. 0 = {}
    OBVIOUS
  <2>2. Fine(0)
    BY <2>1
  <2> HIDE DEF Fine
  <2>3. QED
    BY <2>2
<1>3. ASSUME NEW k \in U PROVE k + 1 \in U
  <2> SUFFICES ASSUME k + 1 <= n PROVE Fine(k + 1)
    OBVIOUS
  <2>1. k \in Nat /\ k <= n /\ k + 1 \in 1 .. n /\ (k + 1) - 1 = k /\ k \in 0 .. n
        /\ k + 1 \in 0 .. n
    BY <1>1
  <2>2. Fine(k)
    BY <2>1
  <2>3. <<g[k], s[k + 1], g[k + 1]>> \in WholeSteps
    <3>1. <<g[(k + 1) - 1], s[k + 1], g[k + 1]>> \in WholeSteps
      BY <2>1
    <3>2. QED
      BY <2>1, <3>1
  <2> DEFINE l == g[k]
             x == s[k + 1]
             m == g[k + 1]
  <2>4. /\ x = "open" => m = "thought"
        /\ x = "close" => m = "text"
        /\ l \in {"text", "opening"} /\ m \in {"thought", "closing"} => x = "open"
        /\ l \in {"thought", "closing"} /\ m \in {"text", "opening"} => x = "close"
    BY <2>3, WholeStepsAre
  <2>5. l \in {"text", "opening"} \/ l \in {"thought", "closing"}
    BY <2>1 DEF ModelPlaces
  <2>6. ASSUME m \in {"thought", "closing"} PROVE has(k + 1)
    <3>1. x # "close"
      BY <2>4, <2>6
    <3>2. CASE x = "open"
      <4>1. \A j \in k + 1 .. k + 1 : j = k + 1
        BY <2>1
      <4>2. k + 1 \in 1 .. k + 1
        BY <2>1
      <4>3. QED
        BY <3>2, <4>1, <4>2
    <3>3. CASE x # "open"
      <4>1. has(k)
        BY <2>2, <2>4, <2>5, <2>6, <3>3
      <4>2. PICK o \in 1 .. k : s[o] = "open" /\ \A j \in o .. k : s[j] # "close"
        BY <4>1
      <4>3. o \in 1 .. k + 1 /\ \A j \in o .. k + 1 : j \in o .. k \/ j = k + 1
        BY <2>1
      <4>4. QED
        BY <3>1, <4>2, <4>3
    <3>4. QED
      BY <3>2, <3>3
  <2>7. ASSUME m \in {"text", "opening"} PROVE hasnt(k + 1)
    <3>1. x # "open"
      BY <2>4, <2>7
    <3> SUFFICES ASSUME NEW o \in 1 .. k + 1, s[o] = "open"
                 PROVE  \E j \in o .. k + 1 : s[j] = "close"
      OBVIOUS
    <3>2. o \in 1 .. k
      <4>1. o # k + 1
        BY <3>1
      <4>2. QED
        BY <2>1, <4>1
    <3>3. CASE x = "close"
      <4>1. k + 1 \in o .. k + 1
        BY <2>1, <3>2
      <4>2. QED
        BY <3>3, <4>1
    <3>4. CASE x # "close"
      <4>1. hasnt(k)
        BY <2>2, <2>4, <2>5, <2>7, <3>4
      <4>2. PICK j \in o .. k : s[j] = "close"
        BY <3>2, <4>1
      <4>3. j \in o .. k + 1
        BY <2>1, <3>2
      <4>4. QED
        BY <4>2, <4>3
    <3>5. QED
      BY <3>3, <3>4
  <2> HIDE DEF has, hasnt
  <2>8. QED
    BY <2>6, <2>7
<1>4. U = Nat
  <2> HIDE DEF Fine
  <2>1. U \in SUBSET Nat
    OBVIOUS
  <2> HIDE DEF U
  <2>2. QED
    BY <1>2, <1>3, <2>1, NumbersByInduction
<1>5. i \in U /\ i <= n
  BY <1>1, <1>4
<1>6. QED
  BY <1>5

\* And where it is in a passage at first and not in the end, a closing tag comes.
LEMMA ClosedWhole ==
  ASSUME NEW s \in Seq(Tokens), NEW g \in [0 .. Len(s) -> ModelPlaces],
         \A i \in 1 .. Len(s) : <<g[i - 1], s[i], g[i]>> \in WholeSteps,
         g[Len(s)] \in {"text", "opening"},
         NEW i \in 0 .. Len(s), g[i] \in {"thought", "closing"}
  PROVE  \E c \in i + 1 .. Len(s) : s[c] = "close"
<1> DEFINE n == Len(s)
           T == {k \in i .. n : g[k] \in {"text", "opening"}}
<1>1. n \in Nat /\ n \in T
  OBVIOUS
<1>2. T \in SUBSET Nat /\ T # {}
  BY <1>1
<1>3. PICK k \in T : \A m \in T : k <= m
  BY <1>2, Least
<1>4. k # i
  BY <1>3
<1>5. k \in 1 .. n /\ k - 1 \in i .. n /\ k - 1 \in 0 .. n /\ k \in i + 1 .. n /\ ~(k <= k - 1)
  BY <1>1, <1>3, <1>4
<1>6. k - 1 \notin T
  BY <1>3, <1>5
<1>7. g[k - 1] \in {"thought", "closing"} /\ g[k] \in {"text", "opening"}
  BY <1>3, <1>5, <1>6 DEF ModelPlaces
<1>8. <<g[k - 1], s[k], g[k]>> \in WholeSteps
  BY <1>5
<1>9. s[k] = "close"
  BY <1>7, <1>8, WholeStepsAre
<1>10. QED
  BY <1>5, <1>9

\* In a whole answer that does not end in a passage, the regular expression
\* finds just what the model said in passages.
LEMMA EnclosedIs ==
  ASSUME NEW s \in Seq(Tokens), NEW q \in {"text", "opening"}, Leads(WholeSteps, "text", s, q),
         ~Mixed(s), NEW i \in DOMAIN s
  PROVE  /\ s[i] \in {"text", "open1", "thought", "close1", "open", "close"}
         /\ s[i] \in {"text", "open1", "open", "close"} => ~Enclosed(s, i)
         /\ s[i] \in {"thought", "close1"} => Enclosed(s, i)
<1> DEFINE n == Len(s)
<1>1. PICK g \in [0 .. n -> ModelPlaces] :
        /\ g[0] = "text" /\ g[n] = q
        /\ \A j \in 1 .. n : <<g[j - 1], s[j], g[j]>> \in WholeSteps
  BY DEF Leads
<1>2. i \in 1 .. n /\ i \in 0 .. n /\ i - 1 \in 0 .. n /\ n \in Nat /\ i \in Nat
  OBVIOUS
<1>3. <<g[i - 1], s[i], g[i]>> \in WholeSteps
  BY <1>1, <1>2
<1>4. s[i] \in {"text", "open1", "thought", "close1", "open", "close"}
  BY <1>3, WholeStepsAre
<1>0. \A j \in 1 .. n : EndsMatch(s, j) <=> s[j] = "close"
  BY DEF EndsMatch, Mixed
<1>5. ASSUME s[i] \in {"text", "open1", "open"} PROVE ~Enclosed(s, i)
  <2>1. g[i - 1] \in {"text", "opening"}
    BY <1>3, <1>5, WholeStepsAre
  <2>2. \A o \in 1 .. i - 1 : s[o] = "open" => \E j \in o .. i - 1 : s[j] = "close"
    BY <1>1, <1>2, <2>1, InsideWhole
  <2>3. ASSUME NEW o \in 1 .. i - 1, NEW j \in o .. i - 1 PROVE j \in o .. i /\ j \in 1 .. n
    BY <1>2
  <2>4. QED
    BY <1>0, <2>2, <2>3 DEF Enclosed
<1>8. ASSUME s[i] = "close" PROVE ~Enclosed(s, i)
  <2>1. \A o \in 1 .. i - 1 : i \in o .. i
    BY <1>2
  <2>2. EndsMatch(s, i)
    BY <1>0, <1>2, <1>8
  <2>3. QED
    BY <2>1, <2>2 DEF Enclosed
<1>6. ASSUME s[i] \in {"thought", "close1"} PROVE Enclosed(s, i)
  <2>1. g[i - 1] \in {"thought", "closing"} /\ g[i] \in {"thought", "closing"}
    BY <1>3, <1>6, WholeStepsAre
  <2>2. PICK o \in 1 .. i - 1 : s[o] = "open" /\ \A j \in o .. i - 1 : s[j] # "close"
    <3>1. \E o \in 1 .. i - 1 : s[o] = "open" /\ \A j \in o .. i - 1 : s[j] # "close"
      BY <1>1, <1>2, <2>1, InsideWhole
    <3>2. QED
      BY <3>1
  <2>3. \A j \in o .. i : j \in o .. i - 1 \/ j = i
    BY <1>2
  <2>4. \A j \in o .. i : ~EndsMatch(s, j)
    BY <1>6, <2>2, <2>3 DEF EndsMatch
  <2>5. \E c \in i + 1 .. n : EndsMatch(s, c)
    <3>1. PICK c \in i + 1 .. n : s[c] = "close"
      BY <1>1, <1>2, <2>1, ClosedWhole
    <3>2. c \in 1 .. n
      BY <1>2
    <3>3. QED
      BY <1>0, <3>1, <3>2
  <2>6. QED
    BY <2>2, <2>4, <2>5 DEF Enclosed
<1>7. QED
  BY <1>4, <1>5, <1>6, <1>8

\* A place of s, if it is one of the given places, is put behind what is picked.
PickOne(s, places, picked, i) ==
  IF i \in places THEN Append(picked, s[i]) ELSE picked

LEMMA PickRuns ==
  ASSUME NEW s \in Seq(Tokens), NEW places
  PROVE  \E g \in [0 .. Len(s) -> Seq(Tokens)] :
           /\ g[0] = <<>>
           /\ \A i \in 1 .. Len(s) : g[i] = PickOne(s, places, g[i - 1], i)
           /\ Picked(s, places) = g[Len(s)]
<1> DEFINE k == Len(s)
           b == <<>>
           S == Seq(Tokens)
           One(p, i) == PickOne(s, places, p, i)
           F == [p \in S \X (1 .. k) |-> One(p[1], p[2])]
           G(pick) == pick = [i \in 0 .. k |-> IF i = 0 THEN b ELSE One(pick[i - 1], i)]
           c == CHOOSE pick : G(pick)
<1>1. k \in Nat
  OBVIOUS
<1>2. Picked(s, places) = c[k]
  <2> DEFINE old(pick) == pick = [i \in 0 .. k |->
               IF i = 0 THEN <<>>
               ELSE IF i \in places THEN Append(pick[i - 1], s[i])
               ELSE pick[i - 1]]
  <2>1. Picked(s, places) = (CHOOSE pick : old(pick))[k]
    BY Zenon DEF Picked
  <2>2. ASSUME NEW pick PROVE old(pick) <=> G(pick)
    BY DEF PickOne
  <2> HIDE DEF old, G
  <2>3. (CHOOSE pick : old(pick)) = (CHOOSE pick : G(pick))
    BY <2>2
  <2>4. QED
    BY <2>1, <2>3
<1>3. F \in [S \X (1 .. k) -> S] /\ \A x \in S, i \in 1 .. k : F[<<x, i>>] = One(x, i)
  <2>1. ASSUME NEW x \in S, NEW i \in 1 .. k PROVE One(x, i) \in S
    <3>1. s[i] \in Tokens
      BY ElementOfSeq
    <3> HIDE DEF S
    <3>2. Append(x, s[i]) \in S
      BY <3>1, AppendProperties DEF S
    <3>3. QED
      BY <3>2 DEF PickOne
  <2> HIDE DEF One, S
  <2>2. QED
    BY <2>1
<1>4. b \in S
  OBVIOUS
<1> HIDE DEF F, b, k, S, One
<1>5. PICK it \in [SUBSET (1 .. k) -> S] : FoldOf(it, F, b, k)
  BY <1>1, <1>3, <1>4, FoldExists
<1> DEFINE h == [i \in 0 .. k |-> it[1 .. i]]
<1>6. h \in [0 .. k -> S] /\ h[0] = b
  <2>1. \A i \in 0 .. k : 1 .. i \in SUBSET (1 .. k)
    BY <1>1
  <2>2. 1 .. 0 = {} /\ {} \in SUBSET (1 .. k) /\ 0 \in 0 .. k
    BY <1>1
  <2>3. it[{}] = b
    BY <1>5, <2>2 DEF FoldOf
  <2>4. \A i \in 0 .. k : h[i] \in S
    BY <1>5, <2>1
  <2>5. h[0] = b
    BY <2>2, <2>3
  <2>6. QED
    BY <2>4, <2>5
<1>7. ASSUME NEW i \in 1 .. k PROVE h[i] = One(h[i - 1], i)
  <2>1. i \in 0 .. k /\ i - 1 \in 0 .. k /\ i \in Nat \ {0}
    BY <1>1
  <2>2. Max(1 .. i) = i /\ (1 .. i) \ {i} = 1 .. (i - 1) /\ 1 .. i # {}
    BY <2>1, LastPlace
  <2>3. 1 .. i \in SUBSET (1 .. k) /\ 1 .. (i - 1) \in SUBSET (1 .. k)
    BY <1>1
  <2>4. it[1 .. i] = F[<<it[1 .. (i - 1)], i>>]
    BY <1>5, <2>2, <2>3 DEF FoldOf
  <2>5. it[1 .. (i - 1)] \in S
    BY <1>5, <2>3
  <2>6. QED
    BY <1>3, <2>1, <2>4, <2>5
<1>8. G(h)
  <2>1. \A i \in 0 .. k : h[i] = IF i = 0 THEN b ELSE One(h[i - 1], i)
    <3> SUFFICES ASSUME NEW i \in 0 .. k PROVE h[i] = IF i = 0 THEN b ELSE One(h[i - 1], i)
      OBVIOUS
    <3> HIDE DEF h
    <3>1. i = 0 \/ i \in 1 .. k
      BY <1>1
    <3>2. QED
      BY <1>6, <1>7, <3>1
  <2> DEFINE h2 == [i \in 0 .. k |-> IF i = 0 THEN b ELSE One(h[i - 1], i)]
  <2>2. h = h2
    BY <2>1
  <2>3. QED
    BY <2>2
<1>9. G(c)
  <2> HIDE DEF h, G
  <2>1. QED
    BY <1>8
<1> HIDE DEF h
<1>10. c = [i \in 0 .. k |-> IF i = 0 THEN b ELSE One(c[i - 1], i)]
  BY <1>9
<1> HIDE DEF c, G
<1>11. c \in [0 .. k -> S] /\ c[0] = b /\ \A i \in 1 .. k : c[i] = One(c[i - 1], i)
  <2>1. 0 \in 0 .. k /\ \A i \in 1 .. k : i \in 0 .. k /\ i # 0
    BY <1>1
  <2>2. c[0] = b /\ \A i \in 1 .. k : c[i] = One(c[i - 1], i)
    BY <1>10, <2>1
  <2> DEFINE U == {i \in Nat : i <= k => c[i] = h[i]}
  <2>3. 0 \in U
    BY <1>6, <2>2
  <2>4. ASSUME NEW i \in U PROVE i + 1 \in U
    <3> SUFFICES ASSUME i + 1 <= k PROVE c[i + 1] = h[i + 1]
      OBVIOUS
    <3>1. i + 1 \in 1 .. k /\ (i + 1) - 1 = i /\ i <= k
      BY <1>1
    <3>2. c[i + 1] = One(c[(i + 1) - 1], i + 1) /\ h[i + 1] = One(h[(i + 1) - 1], i + 1)
      BY <1>7, <2>2, <3>1
    <3>3. QED
      BY <3>1, <3>2
  <2>5. U = Nat
    <3> HIDE DEF U
    <3>1. U \in SUBSET Nat
      BY DEF U
    <3>2. QED
      BY <2>3, <2>4, <3>1, NumbersByInduction
  <2>6. \A i \in 0 .. k : c[i] = h[i]
    BY <1>1, <2>5
  <2>7. \A i \in 0 .. k : c[i] \in S
    BY <1>6, <2>6
  <2>8. QED
    BY <1>10, <2>2, <2>7
<1>12. QED
  BY <1>2, <1>11, Zenon DEF b, k, S, One

\* What is picked is at the places, and of text and thoughts it is all, if all
\* of it is there.
LEMMA PickedIs ==
  ASSUME NEW s \in Seq(Tokens), NEW places
  PROVE  /\ Picked(s, places) \in Seq(Tokens)
         /\ \A x \in ToSet(Picked(s, places)) : \E i \in places \cap DOMAIN s : s[i] = x
         /\ \A t \in {"text", "thought"} :
              (\A i \in DOMAIN s : s[i] = t => i \in places)
                => CountOf(t, Picked(s, places)) = CountOf(t, s)
<1> DEFINE k == Len(s)
<1>1. PICK g \in [0 .. k -> Seq(Tokens)] :
        /\ g[0] = <<>>
        /\ \A i \in 1 .. k : g[i] = PickOne(s, places, g[i - 1], i)
        /\ Picked(s, places) = g[k]
  BY PickRuns
<1>2. k \in Nat /\ DOMAIN s = 1 .. k
  OBVIOUS
<1> DEFINE Chosen(q) == \A j \in 1 .. Len(q) :
              \E i \in places \cap DOMAIN s : s[i] = q[j]
           all(t) == \A i \in DOMAIN s : s[i] = t => i \in places
           Fine(i) == /\ Chosen(g[i])
                      /\ \A t \in {"text", "thought"} : all(t) =>
                           CountOf(t, g[i]) = CountOf(t, SubSeq(s, 1, i))
           U == {i \in Nat : i <= k => Fine(i)}
<1>3. 0 \in U
  <2>1. SubSeq(s, 1, 0) = <<>>
    BY SubSeqEmpty
  <2>2. Chosen(g[0])
    <3>1. \A j \in 1 .. Len(<<>>) : FALSE
      OBVIOUS
    <3>2. QED
      BY <1>1, <3>1
  <2> HIDE DEF Chosen
  <2>3. Fine(0)
    BY <1>1, <2>1, <2>2
  <2> HIDE DEF Fine
  <2>4. QED
    BY <2>3
<1>4. ASSUME NEW i \in U PROVE i + 1 \in U
  <2> SUFFICES ASSUME i + 1 <= k PROVE Fine(i + 1)
    OBVIOUS
  <2> DEFINE m == i + 1
             p == g[i]
             q == g[m]
             x == s[m]
             take == m \in places
             one == <<x>>
  <2>1. i \in Nat /\ i <= k /\ m \in 1 .. k /\ m - 1 = i /\ i \in 0 .. k /\ m \in 0 .. k
    BY <1>2
  <2>2. Fine(i)
    BY <2>1
  <2>3. p \in Seq(Tokens) /\ q \in Seq(Tokens) /\ x \in Tokens
    <3>1. x \in Tokens
      BY <2>1, ElementOfSeq
    <3>2. QED
      BY <2>1, <3>1
  <2>4. q = IF take THEN Append(p, x) ELSE p
    <3>1. g[m] = PickOne(s, places, g[m - 1], m)
      BY <1>1, <2>1
    <3>2. QED
      BY <2>1, <3>1 DEF PickOne
  <2>5. Chosen(q)
    <3>1. CASE ~take
      BY <2>2, <2>4, <3>1
    <3>2. CASE take
      <4>1. q = Append(p, x)
        BY <2>4, <3>2
      <4>2. /\ Len(q) = Len(p) + 1 /\ q[Len(p) + 1] = x /\ Len(p) \in Nat
            /\ \A j \in 1 .. Len(p) : q[j] = p[j]
        <5> HIDE DEF p, x, q, Tokens
        <5>1. Len(p) \in Nat
          BY <2>3
        <5>2. QED
          BY <2>3, <4>1, <5>1, AppendProperties
      <4>3. m \in places \cap DOMAIN s /\ s[m] = x
        BY <1>2, <2>1, <3>2
      <4>4. Chosen(p)
        BY <2>2
      <4> HIDE DEF p, q, x, m
      <4>5. \A j \in 1 .. Len(q) : j \in 1 .. Len(p) \/ j = Len(p) + 1
        BY <4>2
      <4>6. QED
        BY <4>2, <4>3, <4>4, <4>5
    <3>3. QED
      BY <3>1, <3>2
  <2>6. ASSUME NEW t \in {"text", "thought"}, all(t)
        PROVE  CountOf(t, q) = CountOf(t, SubSeq(s, 1, m))
    <3> DEFINE u == SubSeq(s, 1, i)
               v == SubSeq(s, 1, m)
    <3>1. v = u \o one
      <4>1. 1 \in 1 .. Len(s) /\ m \in 1 .. Len(s)
        BY <2>1
      <4>2. SubSeq(s, 1, m) = SubSeq(s, 1, m - 1) \o <<s[m]>>
        BY <4>1, SubSeqRecursiveSecond
      <4>3. QED
        BY <2>1, <4>2
    <3>2. u \in Seq(Tokens) /\ one \in Seq(Tokens)
      <4>1. \A j \in 1 .. i : s[j] \in Tokens
        <5>1. \A j \in 1 .. i : j \in 1 .. Len(s)
          BY <2>1
        <5>2. QED
          BY <5>1, ElementOfSeq
      <4>2. 1 \in Int /\ i \in Int
        BY <2>1
      <4>3. u \in Seq(Tokens)
        BY <4>1, <4>2, SubSeqProperties
      <4>4. one \in Seq(Tokens)
        BY <2>3
      <4>5. QED
        BY <4>3, <4>4
    <3>3. CountOf(t, u) = CountOf(t, p) /\ CountOf(t, p) \in Nat
      BY <2>2, <2>3, <2>6, CountIsNumber
    <3> HIDE DEF u, v, p, q
    <3>4. CountOf(t, v) = CountOf(t, u) + CountOf(t, one)
      BY <3>1, <3>2, CountConcat
    <3>5. CASE take
      <4>1. q = p \o one
        BY <2>3, <2>4, <3>5, AppendIsConcat
      <4>2. CountOf(t, q) = CountOf(t, p) + CountOf(t, one)
        BY <2>3, <3>2, <4>1, CountConcat
      <4>3. QED
        BY <3>3, <3>4, <4>2 DEF v
    <3>6. CASE ~take
      <4>1. q = p
        BY <2>4, <3>6
      <4>2. x # t
        BY <1>2, <2>1, <2>6, <3>6
      <4>3. CountOf(t, one) = 0
        BY <4>2, CountOne
      <4>4. QED
        BY <3>3, <3>4, <4>1, <4>3 DEF v
    <3>7. QED
      BY <3>5, <3>6 DEF v, q
  <2> HIDE DEF Chosen, all
  <2>7. QED
    BY <2>5, <2>6
<1>5. U = Nat
  <2> HIDE DEF Fine
  <2>1. U \in SUBSET Nat
    OBVIOUS
  <2> HIDE DEF U
  <2>2. QED
    BY <1>3, <1>4, <2>1, NumbersByInduction
<1>6. Fine(k)
  <2> HIDE DEF Fine
  <2>1. k \in U /\ k <= k
    BY <1>2, <1>5
  <2>2. QED
    BY <2>1
<1>7. SubSeq(s, 1, k) = s
  BY SubSeqFull
<1>8. g[k] \in Seq(Tokens)
  BY <1>1, <1>2
<1> DEFINE r == Picked(s, places)
<1>9. r \in Seq(Tokens) /\ r = g[k]
  BY <1>1, <1>8
<1> HIDE DEF r, k
<1>10. Chosen(r) /\ \A t \in {"text", "thought"} : all(t) => CountOf(t, r) = CountOf(t, s)
  BY <1>6, <1>7, <1>9
<1>11. \A x \in ToSet(r) : \E j \in 1 .. Len(r) : r[j] = x
  BY <1>9 DEF ToSet
<1>12. QED
  BY <1>9, <1>10, <1>11 DEF r

\* A client of a whole answer that does not end in a passage is told its text
\* and, unless the backend sent reasoning, its thoughts, without tags.
LEMMA AnswerReadIs ==
  ASSUME NEW a, a.content \in Seq(Tokens), a.reasoning \in Seq(Tokens),
         ToSet(a.reasoning) \subseteq {"thought"},
         NEW q \in {"text", "opening"}, Leads(WholeSteps, "text", a.content, q),
         ~Mixed(a.content)
  PROVE  /\ ~AnswerRead(a).leaked
         /\ AnswerRead(a).text = CountOf("text", a.content)
         /\ a.reasoning = <<>> => AnswerRead(a).thoughts = CountOf("thought", a.content)
<1> DEFINE s == a.content
           inside == {i \in DOMAIN s : Enclosed(s, i)}
           outside == {i \in DOMAIN s \ inside : s[i] \notin {"open", "close"}}
           texts == Picked(s, outside)
           found == Picked(s, inside)
           thoughts == IF a.reasoning # <<>> THEN a.reasoning ELSE found
           said == [kind |-> "content", tokens |-> texts]
           thought == [kind |-> "reasoning", tokens |-> thoughts]
           first == PlainRead(NewPlainReader, said)
           m == PlainRead(first, thought)
<1>1. AnswerRead(a) = [m EXCEPT !.calls = Understood(a.calls)]
  BY DEF AnswerRead, NormalizeContent
<1>2. \A i \in DOMAIN s :
        /\ s[i] \in {"text", "open1", "thought", "close1", "open", "close"}
        /\ s[i] \in {"text", "open1"} => i \in outside
        /\ s[i] \in {"open", "close"} => i \notin inside
        /\ s[i] \in {"thought", "close1"} => i \in inside
  BY EnclosedIs
<1>3. /\ texts \in Seq(Tokens) /\ ToSet(texts) \subseteq {"text", "open1"}
      /\ CountOf("text", texts) = CountOf("text", s)
  <2>1. \A i \in outside \cap DOMAIN s : s[i] \in {"text", "open1"}
    BY <1>2
  <2>2. \A i \in DOMAIN s : s[i] = "text" => i \in outside
    BY <1>2
  <2> HIDE DEF outside
  <2>3. QED
    BY <2>1, <2>2, PickedIs
<1>4. /\ found \in Seq(Tokens) /\ ToSet(found) \subseteq {"thought", "close1"}
      /\ CountOf("thought", found) = CountOf("thought", s)
  <2>1. \A i \in inside \cap DOMAIN s : s[i] \in {"thought", "close1"}
    BY <1>2
  <2>2. \A i \in DOMAIN s : s[i] = "thought" => i \in inside
    BY <1>2
  <2> HIDE DEF inside
  <2>3. QED
    BY <2>1, <2>2, PickedIs
<1> HIDE DEF texts, found
<1>5. thoughts \in Seq(Tokens) /\ ToSet(thoughts) \subseteq {"thought", "close1"}
  BY <1>4
<1>6. a.reasoning = <<>> => thoughts = found
  OBVIOUS
<1> HIDE DEF thoughts
<1>7. /\ said \in NormalizedPieces /\ said.kind = "content" /\ said.tokens = texts
      /\ thought \in NormalizedPieces /\ thought.kind = "reasoning" /\ thought.tokens = thoughts
  BY <1>3, <1>5 DEF NormalizedPieces
<1> HIDE DEF said, thought
<1>8. /\ first \in PlainReaders(NoCalls) /\ first.text = 0 + CountOf("text", texts)
      /\ first.thoughts = 0 + 0 /\ ~first.leaked
  <2>1. ToSet(said.tokens) \subseteq Fit(said.kind)
    BY <1>3, <1>7 DEF Fit
  <2>2. /\ NewPlainReader \in PlainReaders(NoCalls)
        /\ NewPlainReader.text = 0 /\ NewPlainReader.thoughts = 0 /\ ~NewPlainReader.leaked
    BY HeardNothing
  <2>3. QED
    BY <1>7, <2>1, <2>2, PlainReadIs
<1> HIDE DEF first
<1>9. /\ m \in PlainReaders(NoCalls) /\ m.text = first.text + 0
      /\ m.thoughts = first.thoughts + CountOf("thought", thoughts) /\ ~m.leaked
  <2>1. ToSet(thought.tokens) \subseteq Fit(thought.kind)
    BY <1>5, <1>7 DEF Fit
  <2>2. QED
    BY <1>7, <1>8, <2>1, PlainReadIs
<1> HIDE DEF m
<1>10. /\ AnswerRead(a).text = m.text /\ AnswerRead(a).thoughts = m.thoughts
       /\ AnswerRead(a).leaked = m.leaked
  BY <1>1, <1>9 DEF PlainReaders
<1>11. CountOf("text", texts) \in Nat /\ CountOf("thought", thoughts) \in Nat
  BY <1>3, <1>5, CountIsNumber
<1>12. QED
  BY <1>3, <1>4, <1>6, <1>8, <1>9, <1>10, <1>11

-----------------------------------------------------------------------------
(*****************************************************************************)
(* The whole answer so far has all that the model said, and takes it to      *)
(* where it is.                                                              *)
(*****************************************************************************)
AnswerSoFar ==
  LET content == answer.content
      reasoning == answer.reasoning
  IN /\ content \in Seq(Tokens) /\ reasoning \in Seq(Tokens)
     /\ ToSet(reasoning) \subseteq {"thought"}
     /\ Leads(WholeSteps, "text", content, place)
     /\ CountOf("text", content) = sent.text
     /\ CountOf("thought", content) + CountOf("thought", reasoning) = sent.thoughts
     /\ ~sent.field => reasoning = <<>>
     /\ "mixedTags" \notin odd => ~Mixed(content)

AnswerTold == (~ended => AnswerSoFar) /\ WholeAnswerExact

LEMMA AnswerAtFirst == Init => AnswerTold
<1> SUFFICES ASSUME Init PROVE AnswerTold
  OBVIOUS
<1> DEFINE none == <<>>
<1>1. /\ place = "text" /\ ~ended
      /\ sent.text = 0 /\ sent.thoughts = 0
      /\ answer.content = none /\ answer.reasoning = none
  BY DEF Init, NewAnswer
<1>2. none \in Seq(Tokens) /\ ToSet(none) \subseteq {"thought"}
  BY DEF ToSet
<1>3. CountOf("text", none) = 0 /\ CountOf("thought", none) = 0
  BY CountEmpty
<1>4. Leads(WholeSteps, "text", none, "text")
  <2> DEFINE g == [i \in 0 .. 0 |-> "text"]
  <2>1. Len(none) = 0 /\ g \in [0 .. 0 -> ModelPlaces] /\ g[0] = "text"
    BY DEF ModelPlaces
  <2>2. \A i \in 1 .. Len(none) : FALSE
    BY <2>1
  <2> HIDE DEF g, none
  <2>3. QED
    BY <2>1, <2>2 DEF Leads
<1> HIDE DEF none
<1>5. 0 + 0 = 0
  OBVIOUS
<1>6. ~Mixed(none)
  BY DEF Mixed, none
<1>7. AnswerSoFar
  BY <1>1, <1>2, <1>3, <1>4, <1>5, <1>6 DEF AnswerSoFar, none
<1>8. QED
  BY <1>1, <1>7 DEF AnswerTold, WholeAnswerExact

\* Thoughts and thoughts are thoughts.
LEMMA ThoughtsConcat ==
  ASSUME NEW s \in Seq(Tokens), NEW t \in Seq(Tokens),
         ToSet(s) \subseteq {"thought"}, ToSet(t) \subseteq {"thought"}
  PROVE  ToSet(s \o t) \subseteq {"thought"}
<1> DEFINE u == s \o t
           k == Len(s)
           l == Len(t)
<1>1. k \in Nat /\ l \in Nat /\ DOMAIN s = 1 .. k /\ DOMAIN t = 1 .. l
  OBVIOUS
<1>2. (\A i \in 1 .. k : s[i] = "thought") /\ (\A i \in 1 .. l : t[i] = "thought")
  BY <1>1 DEF ToSet
<1>3. u \in Seq(Tokens) /\ Len(u) = k + l /\ DOMAIN u = 1 .. k + l
      /\ \A i \in 1 .. k + l : u[i] = IF i <= k THEN s[i] ELSE t[i - k]
  <2> HIDE DEF Tokens
  <2>1. QED
    OBVIOUS
<1> HIDE DEF u, k, l
<1>4. \A i \in 1 .. k + l : u[i] = "thought"
  <2>1. \A i \in 1 .. k + l : (i \in 1 .. k /\ i <= k) \/ (i - k \in 1 .. l /\ ~(i <= k))
    BY <1>1
  <2>2. QED
    BY <1>2, <1>3, <2>1
<1>5. QED
  BY <1>3, <1>4 DEF ToSet, u

LEMMA ReceiveKeepsAnswer == StreamsInv /\ AnswerTold /\ Receive => AnswerTold'
<1> SUFFICES ASSUME StreamsInv, AnswerTold, Receive PROVE AnswerTold'
  OBVIOUS
<1>1. PICK chunk \in Chunks(place, sent.inputs) :
        LET path == Path(place, chunk.content)
        IN /\ place' = Last(path)
           /\ Written(chunk, path)
           /\ odd' = odd \cup Oddities(chunk, path)
           /\ answer' = Accumulated(answer, chunk)
  BY DEF Receive
<1> DEFINE content == chunk.content
           reasoning == chunk.reasoning
           path == Path(place, content)
           s == answer.content
           r == answer.reasoning
<1>2. /\ place' = Last(path) /\ Written(chunk, path)
      /\ answer'.content = Glued(s, content) /\ answer'.reasoning = r \o reasoning
      /\ ~ended /\ ended' = ended
  BY <1>1 DEF Receive, Accumulated
<1>3. place \in ModelPlaces /\ sent \in Sents
  BY DEF StreamsInv, Typed
<1>4. sent.inputs \in Seq(CallStates) /\ sent.text \in Nat /\ sent.thoughts \in Nat
  BY <1>3 DEF Sents
<1>5. /\ content \in Seq(Tokens) /\ OneChunk(content) /\ "nowhere" \notin ToSet(path)
      /\ reasoning \in Seq(Tokens) /\ ToSet(reasoning) \subseteq {"thought"}
  BY <1>3, <1>4, ChunkIs
<1>6. PICK g : Passes(g, place, content) /\ Last(path) = g[Len(content)]
  BY <1>3, <1>5, PathIs
<1>7. /\ s \in Seq(Tokens) /\ r \in Seq(Tokens) /\ ToSet(r) \subseteq {"thought"}
      /\ Leads(WholeSteps, "text", s, place)
      /\ CountOf("text", s) = sent.text
      /\ CountOf("thought", s) + CountOf("thought", r) = sent.thoughts
      /\ ~sent.field => r = <<>>
  BY <1>2 DEF AnswerTold, AnswerSoFar
<1>8. /\ sent'.text = sent.text + CountOf("text", content)
      /\ sent'.thoughts = sent.thoughts + CountOf("thought", content \o reasoning)
      /\ sent'.field = (sent.field \/ reasoning # <<>>)
  BY <1>2 DEF Written
<1> DEFINE into == Glued(s, content)
           more == r \o reasoning
<1>9. /\ into \in Seq(Tokens) /\ Leads(WholeSteps, "text", into, g[Len(content)])
      /\ CountOf("text", into) = CountOf("text", s) + CountOf("text", content)
      /\ CountOf("thought", into) = CountOf("thought", s) + CountOf("thought", content)
  BY <1>3, <1>5, <1>6, <1>7, GluedLeads
<1>10. /\ more \in Seq(Tokens) /\ ToSet(more) \subseteq {"thought"}
       /\ CountOf("thought", more) = CountOf("thought", r) + CountOf("thought", reasoning)
  <2>1. more \in Seq(Tokens)
    BY <1>5, <1>7
  <2>2. ToSet(more) \subseteq {"thought"}
    BY <1>5, <1>7, ThoughtsConcat
  <2>3. QED
    BY <1>5, <1>7, <2>1, <2>2, CountConcat
<1>11. CountOf("thought", content \o reasoning)
         = CountOf("thought", content) + CountOf("thought", reasoning)
  BY <1>5, CountConcat
<1>12. /\ CountOf("thought", s) \in Nat /\ CountOf("thought", content) \in Nat
       /\ CountOf("thought", r) \in Nat /\ CountOf("thought", reasoning) \in Nat
  BY <1>5, <1>7, CountIsNumber
<1>13. ~sent'.field => more = <<>>
  <2>1. <<>> \o <<>> = <<>>
    OBVIOUS
  <2>2. ~sent'.field => r = <<>> /\ reasoning = <<>>
    BY <1>7, <1>8
  <2>3. QED
    BY <2>1, <2>2
<1>18. "mixedTags" \notin odd' => ~Mixed(into)
  <2>1. odd' = odd \cup Oddities(chunk, path)
    BY <1>1
  <2>2. OddIf("mixedTags", Mixed(into)) \subseteq Oddities(chunk, path)
    BY DEF Oddities
  <2>3. Mixed(into) => "mixedTags" \in OddIf("mixedTags", Mixed(into))
    BY DEF OddIf
  <2>4. QED
    BY <2>1, <2>2, <2>3
<1> HIDE DEF into, more, s, r, content, reasoning, path
<1>14. CountOf("thought", into) + CountOf("thought", more) = sent'.thoughts
  BY <1>7, <1>8, <1>9, <1>10, <1>11, <1>12
<1>15. answer'.content = into /\ answer'.reasoning = more /\ place' = g[Len(content)]
  BY <1>2, <1>6 DEF into, more
<1>16. AnswerSoFar'
  BY <1>7, <1>8, <1>9, <1>10, <1>13, <1>14, <1>15, <1>18 DEF AnswerSoFar
<1>17. QED
  BY <1>2, <1>16 DEF AnswerTold, WholeAnswerExact

LEMMA EndStreamKeepsAnswer == AnswerTold /\ EndStream => AnswerTold'
<1> SUFFICES ASSUME AnswerTold, EndStream PROVE AnswerTold'
  OBVIOUS
<1>1. /\ ~ended /\ ended' /\ reader' = AnswerRead(answer) /\ place' = place /\ sent' = sent
      /\ odd \subseteq odd'
  BY DEF EndStream
<1>2. AnswerSoFar
  BY <1>1 DEF AnswerTold
<1>3. ASSUME place \in {"text", "opening"}, "mixedTags" \notin odd
      PROVE  /\ ~reader'.leaked /\ reader'.text = sent.text
             /\ ~sent.field => reader'.thoughts = sent.thoughts
  <2> DEFINE s == answer.content
             r == answer.reasoning
  <2>1. /\ s \in Seq(Tokens) /\ r \in Seq(Tokens) /\ ToSet(r) \subseteq {"thought"}
        /\ Leads(WholeSteps, "text", s, place)
        /\ CountOf("text", s) = sent.text
        /\ CountOf("thought", s) + CountOf("thought", r) = sent.thoughts
        /\ ~sent.field => r = <<>>
        /\ ~Mixed(s)
    BY <1>2, <1>3 DEF AnswerSoFar
  <2>2. /\ ~AnswerRead(answer).leaked
        /\ AnswerRead(answer).text = CountOf("text", s)
        /\ r = <<>> => AnswerRead(answer).thoughts = CountOf("thought", s)
    BY <1>3, <2>1, AnswerReadIs
  <2>3. CountOf("thought", <<>>) = 0 /\ CountOf("thought", s) \in Nat
    BY <2>1, CountEmpty, CountIsNumber
  <2> HIDE DEF s, r
  <2>4. QED
    BY <1>1, <2>1, <2>2, <2>3
<1>4. QED
  BY <1>1, <1>3 DEF AnswerTold, WholeAnswerExact

LEMMA StutterKeepsAnswer == AnswerTold /\ UNCHANGED vars => AnswerTold'
  BY DEF AnswerTold, AnswerSoFar, WholeAnswerExact, vars, backendVars

(*****************************************************************************)
(* However a stream is cut into chunks, what parseSSEToOpenAIResponse puts   *)
(* together of it has all that the model said, the halves of tags that were  *)
(* cut apart are one tag again, and it takes the model from place to place   *)
(* as the stream did.  The inductive invariant of the next theorem, beside   *)
(* StreamsInv.                                                               *)
(*****************************************************************************)
THEOREM AnswersAreWhole == Spec => []AnswerTold
<1>1. StreamsInv /\ AnswerTold /\ [Next]_vars => AnswerTold'
  BY ReceiveKeepsAnswer, EndStreamKeepsAnswer, StutterKeepsAnswer DEF Next
<1>2. QED
  BY AnswerAtFirst, StreamsHangTogether, <1>1, PTL DEF Spec

(*****************************************************************************)
(* A stream that answers a request for a whole answer gives that answer: the *)
(* regular expressions of NormalizeContent (normalize.go) find in it all of  *)
(* the text and all of the thoughts, apart and without tags, however it was  *)
(* cut, if it does not end inside a passage, and if the closing tags are of  *)
(* the kind of the opening tags: sse_compat.go.                              *)
(*****************************************************************************)
THEOREM WholeAnswersArrive == Spec => []WholeAnswerExact
<1>1. AnswerTold => WholeAnswerExact
  BY DEF AnswerTold
<1>2. QED
  BY AnswersAreWhole, <1>1, PTL

=============================================================================
