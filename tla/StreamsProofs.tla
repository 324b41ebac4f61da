---------------------------- MODULE StreamsProofs ----------------------------
(*****************************************************************************)
(* What holds of Streams for any number of chunks, of any length, in two     *)
(* parts.                                                                    *)
(* The first: the types, EndsOnce and MessageFollows, from one invariant,    *)
(* StreamsInv.  Before it: folds; what each operation of the two translators *)
(* leaves of the translator and its client; how the loop of the normalizer   *)
(* runs; and that it is where the backend's model is (`placement'), chunk by *)
(* chunk.                                                                    *)
(* The second: TextIntact and ThoughtsIntact, from an invariant that relates *)
(* what the model said to what each client was told and what the buffers of  *)
(* the normalizer hold back, StreamsTold, which rests on the first.  Before  *)
(* it: counts; what a list of pieces says (Heard); that a run of the loop, a *)
(* chunk and the end tell or keep every token they take; and that each of    *)
(* the four translations tells its client what the pieces say.               *)
(* ItemsProofs goes on from here with the output items of the Responses      *)
(* protocol.                                                                 *)
(*****************************************************************************)
EXTENDS Streams, SetInduction

-----------------------------------------------------------------------------
(*****************************************************************************)
(* Folds.  FoldLeft takes the places of a sequence from the last to the      *)
(* first; what a step keeps, the whole keeps.  It is stated once for a       *)
(* function, which the provers can instantiate, and then for each operator   *)
(* that the translators fold with.                                           *)
(*****************************************************************************)

LEMMA LastPlace ==
  ASSUME NEW k \in Nat \ {0}
  PROVE  Max(1 .. k) = k /\ (1 .. k) \ {k} = 1 .. (k - 1) /\ 1 .. k # {}
<1>1. k \in 1 .. k /\ \A y \in 1 .. k : k >= y
  OBVIOUS
<1>2. \A x \in 1 .. k : (\A y \in 1 .. k : x >= y) => x = k
  OBVIOUS
<1>3. Max(1 .. k) = k
  BY <1>1, <1>2 DEF Max
<1>4. QED
  BY <1>1, <1>3

\* A set of places has a last one.
LEMMA LastOf ==
  ASSUME NEW n \in Nat, NEW T \in SUBSET (1 .. n), T # {}
  PROVE  Max(T) \in T /\ \A y \in T : Max(T) >= y
<1> DEFINE U == {m \in Nat : \E t \in T : m = n - t}
<1>1. U \in SUBSET Nat /\ U # {}
  <2>1. PICK t \in T : TRUE
    OBVIOUS
  <2>2. t \in 1 .. n /\ n - t \in Nat
    OBVIOUS
  <2>3. n - t \in U
    BY <2>1, <2>2
  <2>4. QED
    BY <2>3
<1>2. PICK m \in U : \A y \in U : m <= y
  BY <1>1, Least
<1>3. n - m \in T /\ \A y \in T : n - m >= y
  BY <1>2
<1>4. QED
  BY <1>3 DEF Max

FoldOf(it, F, b, n) ==
  \A T \in SUBSET (1 .. n) :
    it[T] = IF T = {} THEN b ELSE F[<<it[T \ {Max(T)}], Max(T)>>]

LEMMA FoldExists ==
  ASSUME NEW S, NEW b \in S, NEW n \in Nat, NEW F \in [S \X (1 .. n) -> S]
  PROVE  \E it \in [SUBSET (1 .. n) -> S] : FoldOf(it, F, b, n)
<1> DEFINE has(k) == \E it \in [SUBSET (1 .. k) -> S] : FoldOf(it, F, b, k)
           U == {k \in Nat : k <= n => has(k)}
<1>1. 0 \in U
  <2> DEFINE it == [T \in SUBSET (1 .. 0) |-> b]
  <2>1. it \in [SUBSET (1 .. 0) -> S]
    OBVIOUS
  <2>2. \A T \in SUBSET (1 .. 0) : T = {} /\ it[T] = b
    OBVIOUS
  <2> HIDE DEF it
  <2>3. FoldOf(it, F, b, 0)
    BY <2>2 DEF FoldOf
  <2>4. has(0)
    BY <2>1, <2>3
  <2> HIDE DEF has
  <2>5. QED
    BY <2>4
<1>2. ASSUME NEW k \in U PROVE k + 1 \in U
  <2> SUFFICES ASSUME k + 1 <= n PROVE has(k + 1)
    <3> HIDE DEF has
    <3>1. QED
      OBVIOUS
  <2>1. PICK old \in [SUBSET (1 .. k) -> S] : FoldOf(old, F, b, k)
    <3>1. has(k)
      <4> HIDE DEF has
      <4>1. QED
        OBVIOUS
    <3>2. QED
      BY <3>1
  <2> DEFINE it == [T \in SUBSET (1 .. k + 1) |->
                      IF k + 1 \in T THEN F[<<old[T \ {k + 1}], k + 1>>] ELSE old[T]]
  <2>2. k + 1 \in 1 .. n
    OBVIOUS
  <2>3. \A T \in SUBSET (1 .. k + 1) :
          /\ T \ {k + 1} \in SUBSET (1 .. k)
          /\ k + 1 \notin T => T \in SUBSET (1 .. k)
    OBVIOUS
  <2>4. it \in [SUBSET (1 .. k + 1) -> S]
    BY <2>2, <2>3
  <2>5. \A T \in SUBSET (1 .. k) : it[T] = old[T]
    OBVIOUS
  <2>6. \A T \in SUBSET (1 .. k + 1) :
          k + 1 \in T => it[T] = F[<<old[T \ {k + 1}], k + 1>>]
    OBVIOUS
  <2> HIDE DEF it
  <2>7. ASSUME NEW T \in SUBSET (1 .. k + 1)
        PROVE  it[T] = IF T = {} THEN b ELSE F[<<it[T \ {Max(T)}], Max(T)>>]
    <3>1. CASE k + 1 \in T
      <4>1. Max(T) \in T /\ \A y \in T : Max(T) >= y
        BY <3>1, LastOf
      <4>2. Max(T) \in 1 .. k + 1 /\ Max(T) >= k + 1
        BY <3>1, <4>1
      <4>3. Max(T) = k + 1
        BY <4>2
      <4>4. QED
        BY <2>3, <2>5, <2>6, <3>1, <4>3
    <3>2. CASE k + 1 \notin T
      <4>1. T \in SUBSET (1 .. k) /\ T \ {Max(T)} \in SUBSET (1 .. k)
        BY <2>3, <3>2
      <4>2. QED
        BY <2>1, <2>5, <4>1 DEF FoldOf
    <3>3. QED
      BY <3>1, <3>2
  <2>8. FoldOf(it, F, b, k + 1)
    BY <2>7 DEF FoldOf
  <2>9. QED
    BY <2>4, <2>8
<1>3. U = Nat
  <2> HIDE DEF U
  <2>1. U \in SUBSET Nat
    BY DEF U
  <2>2. QED
    BY <1>1, <1>2, <2>1, NumbersByInduction
<1>4. has(n)
  <2> HIDE DEF has
  <2>1. QED
    BY <1>3
<1>5. QED
  BY <1>4

\* What holds at the start of a fold, and after a place if before it, holds
\* in the end.
LEMMA FoldKeeps ==
  ASSUME NEW S, NEW n \in Nat, NEW it, it[{}] \in S,
         \A k \in 1 .. n : it[1 .. (k - 1)] \in S => it[1 .. k] \in S
  PROVE  it[1 .. n] \in S
<1> DEFINE U == {k \in Nat : k <= n => it[1 .. k] \in S}
<1>1. 0 \in U
  <2>1. 1 .. 0 = {}
    OBVIOUS
  <2>2. QED
    BY <2>1
<1>2. ASSUME NEW k \in U PROVE k + 1 \in U
  <2>1. (k + 1) - 1 = k
    OBVIOUS
  <2>2. QED
    BY <2>1
<1>3. U = Nat
  <2> HIDE DEF U
  <2>1. U \in SUBSET Nat
    BY DEF U
  <2>2. QED
    BY <1>1, <1>2, <2>1, NumbersByInduction
<1>4. QED
  BY <1>3

LEMMA PieceFold ==
  ASSUME NEW S, NEW E, NEW b \in S, NEW s \in Seq(E),
         \A x \in S, e \in E : Piece(x, e) \in S
  PROVE  /\ FoldLeft(Piece, b, s) \in S
         /\ s # <<>> => \E x \in S : FoldLeft(Piece, b, s) = Piece(x, s[Len(s)])
         /\ Len(s) = 1 => FoldLeft(Piece, b, s) = Piece(b, s[1])
<1> DEFINE n == Len(s)
           F == [p \in S \X (1 .. n) |-> Piece(p[1], s[p[2]])]
           G(it) == it = [T \in SUBSET (1 .. n) |->
                            IF T = {} THEN b ELSE Piece(it[T \ {Max(T)}], s[Max(T)])]
           c == CHOOSE it : G(it)
<1>1. n \in Nat /\ DOMAIN s = 1 .. n /\ \A i \in 1 .. n : s[i] \in E
  OBVIOUS
<1>2. F \in [S \X (1 .. n) -> S]
  BY <1>1
<1>3. \A x \in S, i \in 1 .. n : F[<<x, i>>] = Piece(x, s[i])
  OBVIOUS
<1> HIDE DEF F
<1>4. PICK it \in [SUBSET (1 .. n) -> S] : FoldOf(it, F, b, n)
  BY <1>1, <1>2, FoldExists
<1>5. ASSUME NEW T \in SUBSET (1 .. n)
      PROVE  it[T] = IF T = {} THEN b ELSE Piece(it[T \ {Max(T)}], s[Max(T)])
  <2>1. T # {} => Max(T) \in T
    BY <1>1, LastOf
  <2>2. QED
    BY <1>3, <1>4, <2>1 DEF FoldOf
<1>6. G(c)
  BY <1>5
<1>7. FoldLeft(Piece, b, s) = c[1 .. n]
  BY <1>1 DEF FoldLeft, MapThenFoldSet
<1> HIDE DEF c
<1>8. ASSUME NEW k \in 1 .. n PROVE c[1 .. k] = Piece(c[1 .. (k - 1)], s[k])
  <2>1. Max(1 .. k) = k /\ (1 .. k) \ {k} = 1 .. (k - 1) /\ 1 .. k # {}
    BY <1>1, LastPlace
  <2>2. 1 .. k \in SUBSET (1 .. n)
    BY <1>1
  <2>3. QED
    BY <1>6, <2>1, <2>2
<1>9. c[{}] = b
  BY <1>6
<1>10. ASSUME NEW m \in 0 .. n PROVE c[1 .. m] \in S
  <2>1. \A k \in 1 .. m : c[1 .. (k - 1)] \in S => c[1 .. k] \in S
    BY <1>1, <1>8
  <2>2. QED
    BY <1>1, <1>9, <2>1, FoldKeeps
<1>11. c[1 .. n] \in S
  BY <1>1, <1>10
<1>12. ASSUME s # <<>> PROVE \E x \in S : c[1 .. n] = Piece(x, s[n])
  <2>1. n \in 1 .. n /\ n - 1 \in 0 .. n
    BY <1>1, <1>12
  <2>2. QED
    BY <1>8, <1>10, <2>1
<1>13. ASSUME n = 1 PROVE c[1 .. n] = Piece(b, s[1])
  <2>1. 1 \in 1 .. n /\ 1 .. (1 - 1) = {}
    BY <1>13
  <2>2. c[1 .. 1] = Piece(c[1 .. (1 - 1)], s[1])
    BY <1>8, <2>1
  <2>3. QED
    BY <1>9, <1>13, <2>1, <2>2
<1>14. QED
  BY <1>7, <1>11, <1>12, <1>13

LEMMA ToolDeltaFold ==
  ASSUME NEW S, NEW E, NEW b \in S, NEW s \in Seq(E),
         \A x \in S, e \in E : ToolDelta(x, e) \in S
  PROVE  /\ FoldLeft(ToolDelta, b, s) \in S
         /\ s # <<>> => \E x \in S : FoldLeft(ToolDelta, b, s) = ToolDelta(x, s[Len(s)])
         /\ Len(s) = 1 => FoldLeft(ToolDelta, b, s) = ToolDelta(b, s[1])
<1> DEFINE n == Len(s)
           F == [p \in S \X (1 .. n) |-> ToolDelta(p[1], s[p[2]])]
           G(it) == it = [T \in SUBSET (1 .. n) |->
                            IF T = {} THEN b ELSE ToolDelta(it[T \ {Max(T)}], s[Max(T)])]
           c == CHOOSE it : G(it)
<1>1. n \in Nat /\ DOMAIN s = 1 .. n /\ \A i \in 1 .. n : s[i] \in E
  OBVIOUS
<1>2. F \in [S \X (1 .. n) -> S]
  BY <1>1
<1>3. \A x \in S, i \in 1 .. n : F[<<x, i>>] = ToolDelta(x, s[i])
  OBVIOUS
<1> HIDE DEF F
<1>4. PICK it \in [SUBSET (1 .. n) -> S] : FoldOf(it, F, b, n)
  BY <1>1, <1>2, FoldExists
<1>5. ASSUME NEW T \in SUBSET (1 .. n)
      PROVE  it[T] = IF T = {} THEN b ELSE ToolDelta(it[T \ {Max(T)}], s[Max(T)])
  <2>1. T # {} => Max(T) \in T
    BY <1>1, LastOf
  <2>2. QED
    BY <1>3, <1>4, <2>1 DEF FoldOf
<1>6. G(c)
  BY <1>5
<1>7. FoldLeft(ToolDelta, b, s) = c[1 .. n]
  BY <1>1 DEF FoldLeft, MapThenFoldSet
<1> HIDE DEF c
<1>8. ASSUME NEW k \in 1 .. n PROVE c[1 .. k] = ToolDelta(c[1 .. (k - 1)], s[k])
  <2>1. Max(1 .. k) = k /\ (1 .. k) \ {k} = 1 .. (k - 1) /\ 1 .. k # {}
    BY <1>1, LastPlace
  <2>2. 1 .. k \in SUBSET (1 .. n)
    BY <1>1
  <2>3. QED
    BY <1>6, <2>1, <2>2
<1>9. c[{}] = b
  BY <1>6
<1>10. ASSUME NEW m \in 0 .. n PROVE c[1 .. m] \in S
  <2>1. \A k \in 1 .. m : c[1 .. (k - 1)] \in S => c[1 .. k] \in S
    BY <1>1, <1>8
  <2>2. QED
    BY <1>1, <1>9, <2>1, FoldKeeps
<1>11. c[1 .. n] \in S
  BY <1>1, <1>10
<1>12. ASSUME s # <<>> PROVE \E x \in S : c[1 .. n] = ToolDelta(x, s[n])
  <2>1. n \in 1 .. n /\ n - 1 \in 0 .. n
    BY <1>1, <1>12
  <2>2. QED
    BY <1>8, <1>10, <2>1
<1>13. ASSUME n = 1 PROVE c[1 .. n] = ToolDelta(b, s[1])
  <2>1. 1 \in 1 .. n /\ 1 .. (1 - 1) = {}
    BY <1>13
  <2>2. c[1 .. 1] = ToolDelta(c[1 .. (1 - 1)], s[1])
    BY <1>8, <2>1
  <2>3. QED
    BY <1>9, <1>13, <2>1, <2>2
<1>14. QED
  BY <1>7, <1>11, <1>12, <1>13

LEMMA RPieceFold ==
  ASSUME NEW S, NEW E, NEW b \in S, NEW s \in Seq(E),
         \A x \in S, e \in E : RPiece(x, e) \in S
  PROVE  /\ FoldLeft(RPiece, b, s) \in S
         /\ s # <<>> => \E x \in S : FoldLeft(RPiece, b, s) = RPiece(x, s[Len(s)])
         /\ Len(s) = 1 => FoldLeft(RPiece, b, s) = RPiece(b, s[1])
<1> DEFINE n == Len(s)
           F == [p \in S \X (1 .. n) |-> RPiece(p[1], s[p[2]])]
           G(it) == it = [T \in SUBSET (1 .. n) |->
                            IF T = {} THEN b ELSE RPiece(it[T \ {Max(T)}], s[Max(T)])]
           c == CHOOSE it : G(it)
<1>1. n \in Nat /\ DOMAIN s = 1 .. n /\ \A i \in 1 .. n : s[i] \in E
  OBVIOUS
<1>2. F \in [S \X (1 .. n) -> S]
  BY <1>1
<1>3. \A x \in S, i \in 1 .. n : F[<<x, i>>] = RPiece(x, s[i])
  OBVIOUS
<1> HIDE DEF F
<1>4. PICK it \in [SUBSET (1 .. n) -> S] : FoldOf(it, F, b, n)
  BY <1>1, <1>2, FoldExists
<1>5. ASSUME NEW T \in SUBSET (1 .. n)
      PROVE  it[T] = IF T = {} THEN b ELSE RPiece(it[T \ {Max(T)}], s[Max(T)])
  <2>1. T # {} => Max(T) \in T
    BY <1>1, LastOf
  <2>2. QED
    BY <1>3, <1>4, <2>1 DEF FoldOf
<1>6. G(c)
  BY <1>5
<1>7. FoldLeft(RPiece, b, s) = c[1 .. n]
  BY <1>1 DEF FoldLeft, MapThenFoldSet
<1> HIDE DEF c
<1>8. ASSUME NEW k \in 1 .. n PROVE c[1 .. k] = RPiece(c[1 .. (k - 1)], s[k])
  <2>1. Max(1 .. k) = k /\ (1 .. k) \ {k} = 1 .. (k - 1) /\ 1 .. k # {}
    BY <1>1, LastPlace
  <2>2. 1 .. k \in SUBSET (1 .. n)
    BY <1>1
  <2>3. QED
    BY <1>6, <2>1, <2>2
<1>9. c[{}] = b
  BY <1>6
<1>10. ASSUME NEW m \in 0 .. n PROVE c[1 .. m] \in S
  <2>1. \A k \in 1 .. m : c[1 .. (k - 1)] \in S => c[1 .. k] \in S
    BY <1>1, <1>8
  <2>2. QED
    BY <1>1, <1>9, <2>1, FoldKeeps
<1>11. c[1 .. n] \in S
  BY <1>1, <1>10
<1>12. ASSUME s # <<>> PROVE \E x \in S : c[1 .. n] = RPiece(x, s[n])
  <2>1. n \in 1 .. n /\ n - 1 \in 0 .. n
    BY <1>1, <1>12
  <2>2. QED
    BY <1>8, <1>10, <2>1
<1>13. ASSUME n = 1 PROVE c[1 .. n] = RPiece(b, s[1])
  <2>1. 1 \in 1 .. n /\ 1 .. (1 - 1) = {}
    BY <1>13
  <2>2. c[1 .. 1] = RPiece(c[1 .. (1 - 1)], s[1])
    BY <1>8, <2>1
  <2>3. QED
    BY <1>9, <1>13, <2>1, <2>2
<1>14. QED
  BY <1>7, <1>11, <1>12, <1>13

LEMMA RToolDeltaFold ==
  ASSUME NEW S, NEW E, NEW b \in S, NEW s \in Seq(E),
         \A x \in S, e \in E : RToolDelta(x, e) \in S
  PROVE  /\ FoldLeft(RToolDelta, b, s) \in S
         /\ s # <<>> => \E x \in S : FoldLeft(RToolDelta, b, s) = RToolDelta(x, s[Len(s)])
         /\ Len(s) = 1 => FoldLeft(RToolDelta, b, s) = RToolDelta(b, s[1])
<1> DEFINE n == Len(s)
           F == [p \in S \X (1 .. n) |-> RToolDelta(p[1], s[p[2]])]
           G(it) == it = [T \in SUBSET (1 .. n) |->
                            IF T = {} THEN b ELSE RToolDelta(it[T \ {Max(T)}], s[Max(T)])]
           c == CHOOSE it : G(it)
<1>1. n \in Nat /\ DOMAIN s = 1 .. n /\ \A i \in 1 .. n : s[i] \in E
  OBVIOUS
<1>2. F \in [S \X (1 .. n) -> S]
  BY <1>1
<1>3. \A x \in S, i \in 1 .. n : F[<<x, i>>] = RToolDelta(x, s[i])
  OBVIOUS
<1> HIDE DEF F
<1>4. PICK it \in [SUBSET (1 .. n) -> S] : FoldOf(it, F, b, n)
  BY <1>1, <1>2, FoldExists
<1>5. ASSUME NEW T \in SUBSET (1 .. n)
      PROVE  it[T] = IF T = {} THEN b ELSE RToolDelta(it[T \ {Max(T)}], s[Max(T)])
  <2>1. T # {} => Max(T) \in T
    BY <1>1, LastOf
  <2>2. QED
    BY <1>3, <1>4, <2>1 DEF FoldOf
<1>6. G(c)
  BY <1>5
<1>7. FoldLeft(RToolDelta, b, s) = c[1 .. n]
  BY <1>1 DEF FoldLeft, MapThenFoldSet
<1> HIDE DEF c
<1>8. ASSUME NEW k \in 1 .. n PROVE c[1 .. k] = RToolDelta(c[1 .. (k - 1)], s[k])
  <2>1. Max(1 .. k) = k /\ (1 .. k) \ {k} = 1 .. (k - 1) /\ 1 .. k # {}
    BY <1>1, LastPlace
  <2>2. 1 .. k \in SUBSET (1 .. n)
    BY <1>1
  <2>3. QED
    BY <1>6, <2>1, <2>2
<1>9. c[{}] = b
  BY <1>6
<1>10. ASSUME NEW m \in 0 .. n PROVE c[1 .. m] \in S
  <2>1. \A k \in 1 .. m : c[1 .. (k - 1)] \in S => c[1 .. k] \in S
    BY <1>1, <1>8
  <2>2. QED
    BY <1>1, <1>9, <2>1, FoldKeeps
<1>11. c[1 .. n] \in S
  BY <1>1, <1>10
<1>12. ASSUME s # <<>> PROVE \E x \in S : c[1 .. n] = RToolDelta(x, s[n])
  <2>1. n \in 1 .. n /\ n - 1 \in 0 .. n
    BY <1>1, <1>12
  <2>2. QED
    BY <1>8, <1>10, <2>1
<1>13. ASSUME n = 1 PROVE c[1 .. n] = RToolDelta(b, s[1])
  <2>1. 1 \in 1 .. n /\ 1 .. (1 - 1) = {}
    BY <1>13
  <2>2. c[1 .. 1] = RToolDelta(c[1 .. (1 - 1)], s[1])
    BY <1>8, <2>1
  <2>3. QED
    BY <1>9, <1>13, <2>1, <2>2
<1>14. QED
  BY <1>7, <1>11, <1>12, <1>13

LEMMA CloseCallFold ==
  ASSUME NEW S, NEW E, NEW b \in S, NEW s \in Seq(E),
         \A x \in S, e \in E : CloseCall(x, e) \in S
  PROVE  /\ FoldLeft(CloseCall, b, s) \in S
         /\ s # <<>> => \E x \in S : FoldLeft(CloseCall, b, s) = CloseCall(x, s[Len(s)])
         /\ Len(s) = 1 => FoldLeft(CloseCall, b, s) = CloseCall(b, s[1])
<1> DEFINE n == Len(s)
           F == [p \in S \X (1 .. n) |-> CloseCall(p[1], s[p[2]])]
           G(it) == it = [T \in SUBSET (1 .. n) |->
                            IF T = {} THEN b ELSE CloseCall(it[T \ {Max(T)}], s[Max(T)])]
           c == CHOOSE it : G(it)
<1>1. n \in Nat /\ DOMAIN s = 1 .. n /\ \A i \in 1 .. n : s[i] \in E
  OBVIOUS
<1>2. F \in [S \X (1 .. n) -> S]
  BY <1>1
<1>3. \A x \in S, i \in 1 .. n : F[<<x, i>>] = CloseCall(x, s[i])
  OBVIOUS
<1> HIDE DEF F
<1>4. PICK it \in [SUBSET (1 .. n) -> S] : FoldOf(it, F, b, n)
  BY <1>1, <1>2, FoldExists
<1>5. ASSUME NEW T \in SUBSET (1 .. n)
      PROVE  it[T] = IF T = {} THEN b ELSE CloseCall(it[T \ {Max(T)}], s[Max(T)])
  <2>1. T # {} => Max(T) \in T
    BY <1>1, LastOf
  <2>2. QED
    BY <1>3, <1>4, <2>1 DEF FoldOf
<1>6. G(c)
  BY <1>5
<1>7. FoldLeft(CloseCall, b, s) = c[1 .. n]
  BY <1>1 DEF FoldLeft, MapThenFoldSet
<1> HIDE DEF c
<1>8. ASSUME NEW k \in 1 .. n PROVE c[1 .. k] = CloseCall(c[1 .. (k - 1)], s[k])
  <2>1. Max(1 .. k) = k /\ (1 .. k) \ {k} = 1 .. (k - 1) /\ 1 .. k # {}
    BY <1>1, LastPlace
  <2>2. 1 .. k \in SUBSET (1 .. n)
    BY <1>1
  <2>3. QED
    BY <1>6, <2>1, <2>2
<1>9. c[{}] = b
  BY <1>6
<1>10. ASSUME NEW m \in 0 .. n PROVE c[1 .. m] \in S
  <2>1. \A k \in 1 .. m : c[1 .. (k - 1)] \in S => c[1 .. k] \in S
    BY <1>1, <1>8
  <2>2. QED
    BY <1>1, <1>9, <2>1, FoldKeeps
<1>11. c[1 .. n] \in S
  BY <1>1, <1>10
<1>12. ASSUME s # <<>> PROVE \E x \in S : c[1 .. n] = CloseCall(x, s[n])
  <2>1. n \in 1 .. n /\ n - 1 \in 0 .. n
    BY <1>1, <1>12
  <2>2. QED
    BY <1>8, <1>10, <2>1
<1>13. ASSUME n = 1 PROVE c[1 .. n] = CloseCall(b, s[1])
  <2>1. 1 \in 1 .. n /\ 1 .. (1 - 1) = {}
    BY <1>13
  <2>2. c[1 .. 1] = CloseCall(c[1 .. (1 - 1)], s[1])
    BY <1>8, <2>1
  <2>3. QED
    BY <1>9, <1>13, <2>1, <2>2
<1>14. QED
  BY <1>7, <1>11, <1>12, <1>13

\* Nothing is folded with nothing.
LEMMA EmptyFolds ==
  ASSUME NEW a
  PROVE  /\ FoldLeft(Piece, a, <<>>) = a /\ FoldLeft(ToolDelta, a, <<>>) = a
         /\ FoldLeft(RPiece, a, <<>>) = a /\ FoldLeft(RToolDelta, a, <<>>) = a
<1> DEFINE S == {a}
           E == {}
<1>1. a \in S /\ <<>> \in Seq(E)
  OBVIOUS
<1> HIDE DEF S, E
<1>2. FoldLeft(Piece, a, <<>>) = a
  <2>1. \A x \in S, e \in E : Piece(x, e) \in S
    BY DEF E
  <2>2. FoldLeft(Piece, a, <<>>) \in S
    BY <1>1, <2>1, PieceFold
  <2>3. QED
    BY <2>2 DEF S
<1>3. FoldLeft(ToolDelta, a, <<>>) = a
  <2>1. \A x \in S, e \in E : ToolDelta(x, e) \in S
    BY DEF E
  <2>2. FoldLeft(ToolDelta, a, <<>>) \in S
    BY <1>1, <2>1, ToolDeltaFold
  <2>3. QED
    BY <2>2 DEF S
<1>4. FoldLeft(RPiece, a, <<>>) = a
  <2>1. \A x \in S, e \in E : RPiece(x, e) \in S
    BY DEF E
  <2>2. FoldLeft(RPiece, a, <<>>) \in S
    BY <1>1, <2>1, RPieceFold
  <2>3. QED
    BY <2>2 DEF S
<1>5. FoldLeft(RToolDelta, a, <<>>) = a
  <2>1. \A x \in S, e \in E : RToolDelta(x, e) \in S
    BY DEF E
  <2>2. FoldLeft(RToolDelta, a, <<>>) \in S
    BY <1>1, <2>1, RToolDeltaFold
  <2>3. QED
    BY <2>2 DEF S
<1>6. QED
  BY <1>2, <1>3, <1>4, <1>5

-----------------------------------------------------------------------------
(*****************************************************************************)
(* The Anthropic translator: what its records are, and what each event that  *)
(* it emits does to it and to its client.                                    *)
(*****************************************************************************)

MessageReaders ==
  [at : {"none", "open", "ending", "stopped"},
   open : {"", "text", "thinking", "tool_use"}, next : Nat, stops : Nat,
   confused : BOOLEAN, text : Nat, thoughts : Nat, calls : Seq(Nat), leaked : BOOLEAN]

Translators ==
  [started : BOOLEAN, blockOpen : BOOLEAN, blockIndex : Nat, finished : BOOLEAN,
   inThinking : BOOLEAN, skipThinking : BOOLEAN, client : MessageReaders]

MessageEvents ==
  [type : {"message_start", "block_start", "block_delta", "block_stop",
           "message_delta", "message_stop"},
   index : Nat, block : {"", "text", "thinking", "tool_use"}, tokens : Seq(Tokens)]

NormalizedPieces == [kind : {"content", "reasoning"}, tokens : Seq(Tokens)]

ArgumentTokens == {"word", "quote"}
ToolCalls == [index : Nat, new : BOOLEAN, custom : BOOLEAN, piece : Seq(ArgumentTokens)]

\* A count is a number.
LEMMA CountIsNumber == ASSUME NEW t, NEW X, NEW s \in Seq(X) PROVE CountOf(t, s) \in Nat
<1> DEFINE at == {i \in DOMAIN s : s[i] = t}
<1>1. IsFiniteSet(DOMAIN s)
  BY FS_Interval
<1>2. IsFiniteSet(at)
  BY <1>1, FS_Subset
<1>3. Cardinality(at) \in Nat
  BY <1>2, FS_CardinalityType
<1>4. QED
  BY <1>3 DEF CountOf

LEMMA MessageReadType ==
  ASSUME NEW m \in MessageReaders, NEW e \in MessageEvents
  PROVE  MessageRead(m, e) \in MessageReaders
<1>1. CountOf("text", e.tokens) \in Nat /\ CountOf("thought", e.tokens) \in Nat
  BY CountIsNumber DEF MessageEvents
<1>2. ToolRead(m.calls, e) \in Seq(Nat)
  <2>1. m.calls \in Seq(Nat)
    BY DEF MessageReaders
  <2>2. CASE e.block # "tool_use"
    BY <2>1, <2>2 DEF ToolRead
  <2>3. CASE e.block = "tool_use" /\ e.type = "block_start"
    <3>1. Append(m.calls, 0) \in Seq(Nat)
      BY <2>1
    <3>2. QED
      BY <2>3, <3>1 DEF ToolRead
  <2>4. CASE e.block = "tool_use" /\ e.type # "block_start"
    <3>1. CASE m.calls = <<>>
      BY <2>1, <2>4, <3>1 DEF ToolRead
    <3>2. CASE m.calls # <<>>
      <4>1. [m.calls EXCEPT ![Len(m.calls)] = @ + 1] \in Seq(Nat)
        BY <2>1, <3>2
      <4>2. QED
        BY <2>4, <3>2, <4>1 DEF ToolRead
    <3>3. QED
      BY <3>1, <3>2
  <2>5. QED
    BY <2>2, <2>3, <2>4
<1> DEFINE r == MessageRead(m, e)
<1>3. r.at \in {"none", "open", "ending", "stopped"}
      /\ r.open \in {"", "text", "thinking", "tool_use"}
  BY DEF MessageRead, MessageReaders, MessageEvents
<1>4. /\ r.next \in Nat /\ r.stops \in Nat
      /\ r.text \in Nat /\ r.thoughts \in Nat
  <2>1. m.next \in Nat /\ m.stops \in Nat /\ m.text \in Nat /\ m.thoughts \in Nat
    BY DEF MessageReaders
  <2>2. \A x \in Nat, y \in Nat : x + y \in Nat /\ x + 1 \in Nat /\ x + 0 \in Nat
    OBVIOUS
  <2>3. /\ r.next \in {m.next, m.next + 1} /\ r.stops \in {m.stops, m.stops + 1}
        /\ r.text \in {m.text + CountOf("text", e.tokens), m.text + 0}
        /\ r.thoughts \in {m.thoughts + CountOf("thought", e.tokens), m.thoughts + 0}
    BY DEF MessageRead
  <2>4. QED
    BY <1>1, <2>1, <2>2, <2>3
<1>5. r.calls \in Seq(Nat)
  BY <1>2 DEF MessageRead
<1>6. r.confused \in BOOLEAN /\ r.leaked \in BOOLEAN
  BY DEF MessageRead
<1>7. r = [at |-> r.at, open |-> r.open, next |-> r.next, stops |-> r.stops,
           confused |-> r.confused, text |-> r.text, thoughts |-> r.thoughts,
           calls |-> r.calls, leaked |-> r.leaked]
  BY DEF MessageRead
<1> HIDE DEF r
<1>8. r \in MessageReaders
  BY <1>3, <1>4, <1>5, <1>6, <1>7 DEF MessageReaders
<1>9. QED
  BY <1>8 DEF r

\* How a client takes an event, whatever it says.
LEMMA MessageReadEffect ==
  ASSUME NEW m \in MessageReaders, NEW e \in MessageEvents
  PROVE  LET r == MessageRead(m, e)
         IN /\ r.at = CASE e.type = "message_start" -> "open"
                        [] e.type = "message_delta" -> "ending"
                        [] e.type = "message_stop"  -> "stopped"
                        [] OTHER -> m.at
            /\ r.open = CASE e.type = "block_start" -> e.block
                          [] e.type = "block_stop"  -> ""
                          [] OTHER -> m.open
            /\ r.next = IF e.type = "block_stop" THEN m.next + 1 ELSE m.next
            /\ r.stops = IF e.type = "message_stop" THEN m.stops + 1 ELSE m.stops
            /\ r.confused = (m.confused \/ ~MakesSense(m, e))
  BY DEF MessageRead

Blocks == {"text", "thinking", "tool_use"}

\* The fields of a translator that no event touches.
SameBut(a, b) ==
  /\ b.started = a.started /\ b.finished = a.finished
  /\ b.inThinking = a.inThinking /\ b.skipThinking = a.skipThinking

LEMMA EmittedIs ==
  ASSUME NEW a \in Translators, NEW e \in MessageEvents
  PROVE  LET b == Emitted(a, e)
         IN /\ b \in Translators
            /\ SameBut(a, b)
            /\ b.blockOpen = a.blockOpen /\ b.blockIndex = a.blockIndex
            /\ b.client = MessageRead(a.client, e)
<1>1. a.client \in MessageReaders
  BY DEF Translators
<1>2. MessageRead(a.client, e) \in MessageReaders
  BY <1>1, MessageReadType
<1> HIDE DEF MessageReaders
<1>3. QED
  BY <1>2 DEF Emitted, SameBut, Translators

\* What signals, openings, deltas and closings of blocks do.
LEMMA SignalIs ==
  ASSUME NEW a \in Translators,
         NEW t \in {"message_start", "message_delta", "message_stop"}
  PROVE  LET b == Signal(a, t)
             m == a.client
         IN /\ b \in Translators
            /\ SameBut(a, b)
            /\ b.blockOpen = a.blockOpen /\ b.blockIndex = a.blockIndex
            /\ b.client.at = CASE t = "message_start" -> "open"
                               [] t = "message_delta" -> "ending"
                               [] t = "message_stop"  -> "stopped"
            /\ b.client.open = m.open /\ b.client.next = m.next
            /\ b.client.stops = IF t = "message_stop" THEN m.stops + 1 ELSE m.stops
            /\ ~m.confused
               /\ (\/ t = "message_start" /\ m.at = "none"
                   \/ t = "message_delta" /\ m.at = "open" /\ m.open = ""
                   \/ t = "message_stop" /\ m.at = "ending")
               => ~b.client.confused
<1> DEFINE e == Event(t, 0, "", <<>>)
<1>1. e \in MessageEvents /\ e.type = t
  BY DEF Event, MessageEvents
<1>2. a.client \in MessageReaders
  BY DEF Translators
<1> HIDE DEF e
<1>3. MessageRead(a.client, e).at = CASE t = "message_start" -> "open"
                                      [] t = "message_delta" -> "ending"
                                      [] t = "message_stop"  -> "stopped"
  BY <1>1, <1>2, MessageReadEffect
<1>4. /\ MessageRead(a.client, e).open = a.client.open
      /\ MessageRead(a.client, e).next = a.client.next
      /\ MessageRead(a.client, e).stops =
           IF t = "message_stop" THEN a.client.stops + 1 ELSE a.client.stops
      /\ MessageRead(a.client, e).confused = (a.client.confused \/ ~MakesSense(a.client, e))
  BY <1>1, <1>2, MessageReadEffect
<1>5. (\/ t = "message_start" /\ a.client.at = "none"
       \/ t = "message_delta" /\ a.client.at = "open" /\ a.client.open = ""
       \/ t = "message_stop" /\ a.client.at = "ending")
      => MakesSense(a.client, e)
  BY <1>1 DEF MakesSense
<1>6. Signal(a, t) = Emitted(a, e)
  BY DEF Signal, e
<1>7. LET b == Emitted(a, e)
      IN /\ b \in Translators
         /\ SameBut(a, b)
         /\ b.blockOpen = a.blockOpen /\ b.blockIndex = a.blockIndex
         /\ b.client = MessageRead(a.client, e)
  BY <1>1, EmittedIs
<1>8. QED
  BY <1>3, <1>4, <1>5, <1>6, <1>7, Zenon

LEMMA OpenBlockIs ==
  ASSUME NEW a \in Translators, NEW block \in Blocks
  PROVE  LET b == OpenBlock(a, block)
             m == a.client
         IN /\ b \in Translators
            /\ SameBut(a, b)
            /\ b.blockOpen /\ b.blockIndex = a.blockIndex
            /\ b.client.at = m.at /\ b.client.open = block
            /\ b.client.next = m.next /\ b.client.stops = m.stops
            /\ ~m.confused /\ m.at = "open" /\ m.open = "" /\ m.next = a.blockIndex
               => ~b.client.confused
<1> DEFINE e == Event("block_start", a.blockIndex, block, <<>>)
<1>1. /\ e \in MessageEvents
      /\ e.type = "block_start" /\ e.index = a.blockIndex /\ e.block = block
  <2>1. a.blockIndex \in Nat
    BY DEF Translators
  <2>2. block \in {"", "text", "thinking", "tool_use"}
    BY DEF Blocks
  <2>3. <<>> \in Seq(Tokens)
    OBVIOUS
  <2>4. QED
    BY <2>1, <2>2, <2>3 DEF Event, MessageEvents
<1>2. a.client \in MessageReaders
  BY DEF Translators
<1> HIDE DEF e
<1>3. LET r == MessageRead(a.client, e)
      IN /\ r.at = a.client.at /\ r.open = block
         /\ r.next = a.client.next /\ r.stops = a.client.stops
         /\ r.confused = (a.client.confused \/ ~MakesSense(a.client, e))
  BY <1>1, <1>2, MessageReadEffect
<1>4. a.client.at = "open" /\ a.client.open = "" /\ a.client.next = a.blockIndex
      => MakesSense(a.client, e)
  BY <1>1 DEF MakesSense
<1>5. OpenBlock(a, block) = [Emitted(a, e) EXCEPT !.blockOpen = TRUE]
  BY DEF OpenBlock, e
<1>6. LET b == Emitted(a, e)
      IN /\ b \in Translators
         /\ SameBut(a, b)
         /\ b.blockIndex = a.blockIndex
         /\ b.client = MessageRead(a.client, e)
  BY <1>1, EmittedIs
<1>7. ASSUME NEW x \in Translators
      PROVE  LET b == [x EXCEPT !.blockOpen = TRUE]
             IN /\ b \in Translators /\ SameBut(x, b) /\ b.blockOpen
                /\ b.blockIndex = x.blockIndex /\ b.client = x.client
  <2> HIDE DEF MessageReaders
  <2>1. QED
    BY DEF Translators, SameBut
<1>8. QED
  BY <1>3, <1>4, <1>5, <1>6, <1>7 DEF SameBut

LEMMA DeltaIs ==
  ASSUME NEW a \in Translators, NEW block \in Blocks, NEW tokens \in Seq(Tokens)
  PROVE  LET b == Delta(a, block, tokens)
             m == a.client
         IN /\ b \in Translators
            /\ SameBut(a, b)
            /\ b.blockOpen = a.blockOpen /\ b.blockIndex = a.blockIndex
            /\ b.client.at = m.at /\ b.client.open = m.open
            /\ b.client.next = m.next /\ b.client.stops = m.stops
            /\ ~m.confused /\ m.at = "open" /\ m.open = block /\ m.next = a.blockIndex
               => ~b.client.confused
<1> DEFINE e == Event("block_delta", a.blockIndex, block, tokens)
<1>1. /\ e \in MessageEvents
      /\ e.type = "block_delta" /\ e.index = a.blockIndex /\ e.block = block
  BY DEF Event, MessageEvents, Translators, Blocks
<1>2. a.client \in MessageReaders
  BY DEF Translators
<1> HIDE DEF e
<1>3. LET r == MessageRead(a.client, e)
      IN /\ r.at = a.client.at /\ r.open = a.client.open
         /\ r.next = a.client.next /\ r.stops = a.client.stops
         /\ r.confused = (a.client.confused \/ ~MakesSense(a.client, e))
  BY <1>1, <1>2, MessageReadEffect
<1>4. a.client.at = "open" /\ a.client.open = block /\ a.client.next = a.blockIndex
      => MakesSense(a.client, e)
  BY <1>1 DEF MakesSense
<1>5. Delta(a, block, tokens) = Emitted(a, e)
  BY DEF Delta, e
<1>6. QED
  BY <1>1, <1>3, <1>4, <1>5, EmittedIs

LEMMA CloseBlockIs ==
  ASSUME NEW a \in Translators
  PROVE  LET b == CloseBlock(a)
             m == a.client
         IN /\ b \in Translators
            /\ SameBut(a, b)
            /\ ~b.blockOpen /\ b.blockIndex = a.blockIndex + 1
            /\ b.client.at = m.at /\ b.client.open = ""
            /\ b.client.next = m.next + 1 /\ b.client.stops = m.stops
            /\ ~m.confused /\ m.at = "open" /\ m.open # "" /\ m.next = a.blockIndex
               => ~b.client.confused
<1> DEFINE e == Event("block_stop", a.blockIndex, "", <<>>)
<1>1. e \in MessageEvents /\ e.type = "block_stop" /\ e.index = a.blockIndex
  BY DEF Event, MessageEvents, Translators
<1>2. a.client \in MessageReaders
  BY DEF Translators
<1> HIDE DEF e
<1>3. LET r == MessageRead(a.client, e)
      IN /\ r.at = a.client.at /\ r.open = ""
         /\ r.next = a.client.next + 1 /\ r.stops = a.client.stops
         /\ r.confused = (a.client.confused \/ ~MakesSense(a.client, e))
  BY <1>1, <1>2, MessageReadEffect
<1>4. a.client.at = "open" /\ a.client.open # "" /\ a.client.next = a.blockIndex
      => MakesSense(a.client, e)
  BY <1>1 DEF MakesSense
<1>5. CloseBlock(a) = [Emitted(a, e) EXCEPT !.blockIndex = @ + 1, !.blockOpen = FALSE]
  BY DEF CloseBlock, e
<1>6. LET b == Emitted(a, e)
      IN /\ b \in Translators
         /\ SameBut(a, b)
         /\ b.blockIndex = a.blockIndex
         /\ b.client = MessageRead(a.client, e)
  BY <1>1, EmittedIs
<1>7. ASSUME NEW x \in Translators
      PROVE  LET b == [x EXCEPT !.blockIndex = @ + 1, !.blockOpen = FALSE]
             IN /\ b \in Translators /\ SameBut(x, b) /\ ~b.blockOpen
                /\ b.blockIndex = x.blockIndex + 1 /\ b.client = x.client
  <2>1. x.blockIndex + 1 \in Nat
    BY DEF Translators
  <2> HIDE DEF MessageReaders
  <2> DEFINE index == x.blockIndex + 1
             b == [x EXCEPT !.blockIndex = index, !.blockOpen = FALSE]
  <2> HIDE DEF index
  <2>2. index \in Nat
    BY <2>1 DEF index
  <2>3. /\ b \in Translators /\ SameBut(x, b) /\ ~b.blockOpen
        /\ b.blockIndex = index /\ b.client = x.client
    BY <2>2 DEF Translators, SameBut
  <2>4. QED
    BY <2>3 DEF index
<1>8. QED
  BY <1>3, <1>4, <1>5, <1>6, <1>7 DEF SameBut

\* The client understood everything so far and knows the same open block, if
\* any, and the same index as the translator.
InStep(a) ==
  /\ ~a.client.confused
  /\ a.client.next = a.blockIndex
  /\ a.blockOpen <=> a.client.open # ""

\* What keeps a translator's beginning, end and count of stops.
SameEnds(a, b) ==
  /\ b.started = a.started /\ b.finished = a.finished
  /\ b.skipThinking = a.skipThinking
  /\ b.client.at = a.client.at /\ b.client.stops = a.client.stops

\* A translator in the middle of text or thoughts, in step with its client.
Speaking ==
  {a \in Translators :
     /\ InStep(a) /\ a.client.at = "open" /\ a.started /\ ~a.finished
     /\ a.inThinking => a.client.open = "thinking"
     /\ ~a.inThinking => a.client.open \in {"", "text"}}

\* One that has announced a tool call.
Calling ==
  {a \in Translators :
     /\ InStep(a) /\ a.client.at = "open" /\ a.started /\ ~a.finished
     /\ a.client.open = "tool_use"}

LEMMA ClosedIfOpenIs ==
  ASSUME NEW a \in Translators
  PROVE  LET b == ClosedIfOpen(a)
         IN /\ b \in Translators /\ SameEnds(a, b) /\ ~b.blockOpen
            /\ b.inThinking = a.inThinking
            /\ InStep(a) /\ a.client.at = "open" => InStep(b) /\ b.client.open = ""
<1>1. CASE a.blockOpen
  <2>1. ClosedIfOpen(a) = CloseBlock(a)
    BY <1>1 DEF ClosedIfOpen
  <2> DEFINE b == CloseBlock(a)
  <2>2. /\ b \in Translators /\ SameBut(a, b)
        /\ ~b.blockOpen /\ b.blockIndex = a.blockIndex + 1
        /\ b.client.at = a.client.at /\ b.client.open = ""
        /\ b.client.next = a.client.next + 1 /\ b.client.stops = a.client.stops
        /\ ~a.client.confused /\ a.client.at = "open" /\ a.client.open # ""
             /\ a.client.next = a.blockIndex => ~b.client.confused
    BY CloseBlockIs
  <2> HIDE DEF b, Translators
  <2>3. SameEnds(a, b) /\ b.inThinking = a.inThinking
    BY <2>2 DEF SameBut, SameEnds
  <2>4. InStep(a) /\ a.client.at = "open" => InStep(b)
    BY <1>1, <2>2 DEF InStep
  <2>5. QED
    BY <2>1, <2>2, <2>3, <2>4 DEF b
<1>2. CASE ~a.blockOpen
  <2>1. ClosedIfOpen(a) = a
    BY <1>2 DEF ClosedIfOpen
  <2>2. QED
    BY <1>2, <2>1 DEF SameEnds, InStep
<1>3. QED
  BY <1>1, <1>2

LEMMA ThinkingSet ==
  ASSUME NEW a \in Translators, NEW v \in BOOLEAN
  PROVE  LET b == [a EXCEPT !.inThinking = v]
         IN /\ b \in Translators /\ SameEnds(a, b) /\ b.inThinking = v
            /\ b.blockOpen = a.blockOpen /\ b.client = a.client
            /\ b.blockIndex = a.blockIndex
<1> HIDE DEF MessageReaders
<1>1. QED
  BY DEF Translators, SameEnds

LEMMA ContentIs ==
  ASSUME NEW a \in Translators, NEW tokens \in Seq(Tokens)
  PROVE  LET b == Content(a, tokens)
         IN /\ b \in Translators /\ SameEnds(a, b)
            /\ a \in Speaking => b \in Speaking
<1> DEFINE ready == IF a.inThinking THEN [ClosedIfOpen(a) EXCEPT !.inThinking = FALSE] ELSE a
           open == IF ready.blockOpen THEN ready ELSE OpenBlock(ready, "text")
           b == Delta(open, "text", tokens)
<1>1. /\ ready \in Translators /\ SameEnds(a, ready) /\ ~ready.inThinking
      /\ a \in Speaking => ready \in Speaking
  <2>1. CASE a.inThinking
    <3> DEFINE c == ClosedIfOpen(a)
    <3>1. /\ c \in Translators /\ SameEnds(a, c) /\ ~c.blockOpen
          /\ InStep(a) /\ a.client.at = "open" => InStep(c) /\ c.client.open = ""
      BY ClosedIfOpenIs
    <3> HIDE DEF c
    <3>2. /\ [c EXCEPT !.inThinking = FALSE] \in Translators
          /\ SameEnds(c, [c EXCEPT !.inThinking = FALSE])
          /\ [c EXCEPT !.inThinking = FALSE].inThinking = FALSE
          /\ [c EXCEPT !.inThinking = FALSE].blockOpen = c.blockOpen
          /\ [c EXCEPT !.inThinking = FALSE].blockIndex = c.blockIndex
          /\ [c EXCEPT !.inThinking = FALSE].client = c.client
      BY <3>1, ThinkingSet
    <3>3. ready = [c EXCEPT !.inThinking = FALSE]
      BY <2>1 DEF c
    <3> HIDE DEF ready
    <3>4. QED
      BY <3>1, <3>2, <3>3 DEF SameEnds, InStep, Speaking
  <2>2. CASE ~a.inThinking
    BY <2>2 DEF SameEnds
  <2>3. QED
    BY <2>1, <2>2
<1> HIDE DEF ready
<1>2. /\ open \in Translators /\ SameEnds(ready, open)
      /\ ready \in Speaking => open \in Speaking /\ open.client.open = "text"
      /\ ~open.inThinking
  <2>1. CASE ready.blockOpen
    BY <1>1, <2>1 DEF SameEnds, InStep, Speaking
  <2>2. CASE ~ready.blockOpen
    <3>1. open = OpenBlock(ready, "text")
      BY <2>2
    <3>2. ready \in Speaking => ready.client.open = ""
      BY <1>1, <2>2 DEF InStep, Speaking
    <3>3. LET o == OpenBlock(ready, "text")
          IN /\ o \in Translators /\ SameBut(ready, o)
             /\ o.blockOpen /\ o.blockIndex = ready.blockIndex
             /\ o.client.at = ready.client.at /\ o.client.open = "text"
             /\ o.client.next = ready.client.next /\ o.client.stops = ready.client.stops
             /\ ~ready.client.confused /\ ready.client.at = "open" /\ ready.client.open = ""
                  /\ ready.client.next = ready.blockIndex
                => ~o.client.confused
      BY <1>1, OpenBlockIs DEF Blocks
    <3>4. QED
      BY <1>1, <3>1, <3>2, <3>3 DEF SameBut, SameEnds, InStep, Speaking
  <2>3. QED
    BY <2>1, <2>2
<1> HIDE DEF open
<1>3. /\ b \in Translators /\ SameBut(open, b)
      /\ b.blockOpen = open.blockOpen /\ b.blockIndex = open.blockIndex
      /\ b.client.at = open.client.at /\ b.client.open = open.client.open
      /\ b.client.next = open.client.next /\ b.client.stops = open.client.stops
      /\ ~open.client.confused /\ open.client.at = "open" /\ open.client.open = "text"
           /\ open.client.next = open.blockIndex
         => ~b.client.confused
  BY <1>2, DeltaIs DEF Blocks
<1>4. Content(a, tokens) = b
  BY DEF Content, ready, open
<1> HIDE DEF b
<1>5. b \in Translators /\ SameEnds(a, b)
  BY <1>1, <1>2, <1>3 DEF SameBut, SameEnds
<1>6. a \in Speaking => b \in Speaking
  BY <1>1, <1>2, <1>3 DEF SameBut, SameEnds, InStep, Speaking
<1>7. QED
  BY <1>4, <1>5, <1>6

LEMMA ReasoningIs ==
  ASSUME NEW a \in Translators, NEW tokens \in Seq(Tokens)
  PROVE  LET b == Reasoning(a, tokens)
         IN /\ b \in Translators /\ SameEnds(a, b)
            /\ a \in Speaking => b \in Speaking
<1> DEFINE closed == ClosedIfOpen(a)
           opened == OpenBlock(closed, "thinking")
           open == IF a.inThinking THEN a ELSE [opened EXCEPT !.inThinking = TRUE]
           b == Delta(open, "thinking", tokens)
<1>1. /\ closed \in Translators /\ SameEnds(a, closed) /\ ~closed.blockOpen
      /\ InStep(a) /\ a.client.at = "open" => InStep(closed) /\ closed.client.open = ""
  BY ClosedIfOpenIs
<1> HIDE DEF closed
<1>2. /\ opened \in Translators /\ SameBut(closed, opened)
      /\ opened.blockOpen /\ opened.blockIndex = closed.blockIndex
      /\ opened.client.at = closed.client.at /\ opened.client.open = "thinking"
      /\ opened.client.next = closed.client.next
      /\ opened.client.stops = closed.client.stops
      /\ ~closed.client.confused /\ closed.client.at = "open" /\ closed.client.open = ""
           /\ closed.client.next = closed.blockIndex
         => ~opened.client.confused
  BY <1>1, OpenBlockIs DEF Blocks
<1> HIDE DEF opened
<1>3. LET o == [opened EXCEPT !.inThinking = TRUE]
      IN /\ o \in Translators /\ SameEnds(opened, o) /\ o.inThinking = TRUE
         /\ o.blockOpen = opened.blockOpen /\ o.client = opened.client
         /\ o.blockIndex = opened.blockIndex
  BY <1>2, ThinkingSet
<1>4. /\ open \in Translators /\ SameEnds(a, open)
      /\ a \in Speaking => open \in Speaking /\ open.client.open = "thinking"
      /\ open.inThinking
  <2>1. CASE a.inThinking
    BY <2>1 DEF SameEnds, Speaking
  <2>2. CASE ~a.inThinking
    <3>1. open = [opened EXCEPT !.inThinking = TRUE]
      BY <2>2
    <3> HIDE DEF open
    <3>2. QED
      BY <1>1, <1>2, <1>3, <3>1 DEF SameBut, SameEnds, InStep, Speaking
  <2>3. QED
    BY <2>1, <2>2
<1>5. Reasoning(a, tokens) = IF a.skipThinking THEN a ELSE b
  BY DEF Reasoning, opened, closed
<1> HIDE DEF open
<1>6. /\ b \in Translators /\ SameBut(open, b)
      /\ b.blockOpen = open.blockOpen /\ b.blockIndex = open.blockIndex
      /\ b.client.at = open.client.at /\ b.client.open = open.client.open
      /\ b.client.next = open.client.next /\ b.client.stops = open.client.stops
      /\ ~open.client.confused /\ open.client.at = "open" /\ open.client.open = "thinking"
           /\ open.client.next = open.blockIndex
         => ~b.client.confused
  BY <1>4, DeltaIs DEF Blocks
<1> HIDE DEF b
<1>7. b \in Translators /\ SameEnds(a, b)
  BY <1>4, <1>6 DEF SameBut, SameEnds
<1>8. a \in Speaking => b \in Speaking
  BY <1>4, <1>6 DEF SameBut, SameEnds, InStep, Speaking
<1>9. SameEnds(a, a)
  BY DEF SameEnds
<1>10. QED
  BY <1>5, <1>7, <1>8, <1>9

\* The pieces of a chunk, all together.
LEMMA PiecesAre ==
  ASSUME NEW a \in Translators, NEW pieces \in Seq(NormalizedPieces)
  PROVE  LET b == FoldLeft(Piece, a, pieces)
         IN /\ b \in Translators /\ SameEnds(a, b)
            /\ a \in Speaking => b \in Speaking
<1> DEFINE S == {x \in Translators : SameEnds(a, x) /\ (a \in Speaking => x \in Speaking)}
<1>1. a \in S
  BY DEF SameEnds
<1>2. ASSUME NEW x \in S, NEW p \in NormalizedPieces PROVE Piece(x, p) \in S
  <2>1. p.tokens \in Seq(Tokens)
    BY DEF NormalizedPieces
  <2>2. Piece(x, p) \in {Content(x, p.tokens), Reasoning(x, p.tokens)}
    BY DEF Piece
  <2>3. \A y \in {Content(x, p.tokens), Reasoning(x, p.tokens)} :
          y \in Translators /\ SameEnds(x, y) /\ (x \in Speaking => y \in Speaking)
    BY <2>1, ContentIs, ReasoningIs
  <2> HIDE DEF Translators, Speaking
  <2>4. QED
    BY <2>2, <2>3 DEF SameEnds
<1> HIDE DEF S
<1>3. FoldLeft(Piece, a, pieces) \in S
  BY <1>1, <1>2, PieceFold
<1>4. QED
  BY <1>3 DEF S

\* What an entry of tool_calls does: it may open a block, never end anything.
LEMMA ToolDeltaIs ==
  ASSUME NEW a \in Translators, NEW tc \in ToolCalls
  PROVE  LET b == ToolDelta(a, tc)
         IN /\ b \in Translators /\ SameEnds(a, b)
            /\ a \in Speaking /\ tc.new => b \in Calling
            /\ a \in Calling => b \in Calling
<1> DEFINE closed == ClosedIfOpen(a)
           opened == OpenBlock(closed, "tool_use")
           open == IF tc.new THEN opened ELSE a
           b == Delta(open, "tool_use", <<>>)
<1>1. /\ closed \in Translators /\ SameEnds(a, closed) /\ ~closed.blockOpen
      /\ InStep(a) /\ a.client.at = "open" => InStep(closed) /\ closed.client.open = ""
  BY ClosedIfOpenIs
<1> HIDE DEF closed
<1>3. /\ opened \in Translators /\ SameBut(closed, opened)
      /\ opened.blockOpen /\ opened.blockIndex = closed.blockIndex
      /\ opened.client.at = closed.client.at /\ opened.client.open = "tool_use"
      /\ opened.client.next = closed.client.next
      /\ opened.client.stops = closed.client.stops
      /\ ~closed.client.confused /\ closed.client.at = "open" /\ closed.client.open = ""
           /\ closed.client.next = closed.blockIndex
         => ~opened.client.confused
  BY <1>1, OpenBlockIs DEF Blocks
<1>4. ToolDelta(a, tc) = IF tc.piece # <<>> THEN b ELSE open
  BY DEF ToolDelta, opened, closed
<1> HIDE DEF opened
<1>5. /\ open \in Translators /\ SameEnds(a, open)
      /\ a \in Speaking /\ tc.new => open \in Calling
      /\ a \in Calling => open \in Calling
  <2>1. CASE tc.new
    <3>1. open = opened
      BY <2>1
    <3> HIDE DEF open
    <3>2. QED
      BY <1>1, <1>3, <3>1 DEF SameBut, SameEnds, InStep, Speaking, Calling
  <2>2. CASE ~tc.new
    BY <2>2 DEF SameEnds
  <2>3. QED
    BY <2>1, <2>2
<1> HIDE DEF open
<1>6. <<>> \in Seq(Tokens)
  OBVIOUS
<1>7. /\ b \in Translators /\ SameBut(open, b)
      /\ b.blockOpen = open.blockOpen /\ b.blockIndex = open.blockIndex
      /\ b.client.at = open.client.at /\ b.client.open = open.client.open
      /\ b.client.next = open.client.next /\ b.client.stops = open.client.stops
      /\ ~open.client.confused /\ open.client.at = "open" /\ open.client.open = "tool_use"
           /\ open.client.next = open.blockIndex
         => ~b.client.confused
  BY <1>5, <1>6, DeltaIs DEF Blocks
<1> HIDE DEF b
<1>8. b \in Translators /\ SameEnds(a, b)
  BY <1>5, <1>7 DEF SameBut, SameEnds
<1>9. open \in Calling => b \in Calling
  BY <1>5, <1>7 DEF SameBut, SameEnds, InStep, Calling
<1>10. QED
  BY <1>4, <1>5, <1>8, <1>9

LEMMA ToolDeltasAre ==
  ASSUME NEW a \in Translators, NEW calls \in Seq(ToolCalls)
  PROVE  LET b == FoldLeft(ToolDelta, a, calls)
         IN /\ b \in Translators /\ SameEnds(a, b)
            /\ a \in Calling => b \in Calling
            /\ a \in Speaking /\ (\A i \in DOMAIN calls : calls[i].new)
               => b \in IF calls = <<>> THEN Speaking ELSE Calling
<1> DEFINE E == {tc \in ToolCalls : (\A i \in DOMAIN calls : calls[i].new) => tc.new}
           S == {x \in Translators :
                   /\ SameEnds(a, x)
                   /\ a \in Calling => x \in Calling
                   /\ a \in Speaking /\ (\A i \in DOMAIN calls : calls[i].new)
                      => x \in Speaking \cup Calling}
<1>1. a \in S
  BY DEF SameEnds
<1>2. calls \in Seq(E)
  OBVIOUS
<1>3. ASSUME NEW x \in S, NEW tc \in E PROVE ToolDelta(x, tc) \in S
  <2>1. LET y == ToolDelta(x, tc)
        IN /\ y \in Translators /\ SameEnds(x, y)
           /\ x \in Speaking /\ tc.new => y \in Calling
           /\ x \in Calling => y \in Calling
    BY ToolDeltaIs
  <2> HIDE DEF Translators, Speaking, Calling
  <2>2. QED
    BY <2>1 DEF SameEnds
<1> HIDE DEF S, E
<1>4. /\ FoldLeft(ToolDelta, a, calls) \in S
      /\ calls # <<>> => \E x \in S : FoldLeft(ToolDelta, a, calls)
                                       = ToolDelta(x, calls[Len(calls)])
  BY <1>1, <1>2, <1>3, ToolDeltaFold
<1>5. ASSUME calls = <<>> PROVE FoldLeft(ToolDelta, a, calls) = a
  BY <1>5, EmptyFolds
<1>6. ASSUME calls # <<>>, a \in Speaking, \A i \in DOMAIN calls : calls[i].new
      PROVE  FoldLeft(ToolDelta, a, calls) \in Calling
  <2>1. PICK x \in S : FoldLeft(ToolDelta, a, calls) = ToolDelta(x, calls[Len(calls)])
    BY <1>4, <1>6
  <2>2. Len(calls) \in DOMAIN calls /\ calls[Len(calls)] \in ToolCalls
    BY <1>6
  <2>3. x \in Translators /\ x \in Speaking \cup Calling
    BY <1>6 DEF S
  <2>4. calls[Len(calls)].new
    BY <1>6, <2>2
  <2>5. QED
    BY <2>1, <2>2, <2>3, <2>4, ToolDeltaIs
<1>7. QED
  BY <1>4, <1>5, <1>6 DEF S

\* The end is announced once by whoever announces it.
LEMMA FinishIs ==
  ASSUME NEW a \in Translators
  PROVE  LET b == Finish(a)
         IN /\ b \in Translators /\ b.finished /\ b.started = a.started
            /\ b.skipThinking = a.skipThinking /\ ~b.blockOpen
            /\ b.client.stops = a.client.stops + 1
            /\ a \in Speaking \cup Calling => ~b.client.confused
<1> DEFINE c == ClosedIfOpen(a)
           d == Signal(c, "message_delta")
           s == Signal(d, "message_stop")
<1>1. /\ c \in Translators /\ SameEnds(a, c) /\ ~c.blockOpen
      /\ InStep(a) /\ a.client.at = "open" => InStep(c) /\ c.client.open = ""
  BY ClosedIfOpenIs
<1>2. Finish(a) = [s EXCEPT !.finished = TRUE]
  BY DEF Finish
<1> HIDE DEF c
<1>3. /\ d \in Translators /\ SameBut(c, d) /\ d.blockOpen = c.blockOpen
      /\ d.client.at = "ending" /\ d.client.stops = c.client.stops
      /\ ~c.client.confused /\ c.client.at = "open" /\ c.client.open = ""
         => ~d.client.confused
  BY <1>1, SignalIs
<1> HIDE DEF d
<1>4. /\ s \in Translators /\ SameBut(d, s) /\ s.blockOpen = d.blockOpen
      /\ s.client.stops = d.client.stops + 1
      /\ ~d.client.confused /\ d.client.at = "ending" => ~s.client.confused
  BY <1>3, SignalIs
<1> HIDE DEF s
<1>5. LET b == [s EXCEPT !.finished = TRUE]
      IN /\ b \in Translators /\ b.finished /\ b.client = s.client
         /\ b.started = s.started /\ b.skipThinking = s.skipThinking
         /\ b.blockOpen = s.blockOpen
  <2> HIDE DEF MessageReaders
  <2>1. QED
    BY <1>4 DEF Translators
<1>6. a \in Speaking \cup Calling => ~s.client.confused
  BY <1>1, <1>3, <1>4 DEF SameEnds, InStep, Speaking, Calling
<1>7. s.client.stops = a.client.stops + 1 /\ s.started = a.started
      /\ s.skipThinking = a.skipThinking /\ ~s.blockOpen
  BY <1>1, <1>3, <1>4 DEF SameBut, SameEnds
<1>8. QED
  BY <1>2, <1>5, <1>6, <1>7

\* A translator that has not been given anything.
Fresh ==
  {a \in Translators :
     /\ InStep(a) /\ a.client.at = "none" /\ a.client.open = ""
     /\ ~a.started /\ ~a.finished /\ ~a.inThinking}

\* A chunk with a choice: it starts the message if nothing did and ends it if
\* it is the first with a finish_reason.
LEMMA AnthropicChunkIs ==
  ASSUME NEW a \in Translators, NEW pieces \in Seq(NormalizedPieces),
         NEW calls \in Seq(ToolCalls), NEW finish \in BOOLEAN
  PROVE  LET b == AnthropicChunk(a, pieces, calls, finish)
             ends == finish /\ ~a.finished
         IN /\ b \in Translators /\ b.started /\ b.skipThinking = a.skipThinking
            /\ b.finished = (a.finished \/ finish)
            /\ b.client.stops = IF ends THEN a.client.stops + 1 ELSE a.client.stops
            /\ a \in Fresh \cup Speaking /\ (\A i \in DOMAIN calls : calls[i].new)
               => IF ends THEN ~b.client.confused
                  ELSE b \in IF calls = <<>> THEN Speaking ELSE Calling
            /\ a \in Calling /\ pieces = <<>>
               => IF ends THEN ~b.client.confused ELSE b \in Calling
            /\ ~a.client.confused /\ a.started /\ ~ends /\ pieces = <<>> /\ calls = <<>>
               => ~b.client.confused
<1> DEFINE lit == [a EXCEPT !.started = TRUE]
           begun == IF a.started THEN a ELSE Signal(lit, "message_start")
           said == FoldLeft(Piece, begun, pieces)
           told == FoldLeft(ToolDelta, said, calls)
           b == AnthropicChunk(a, pieces, calls, finish)
<1>1. lit \in Translators /\ lit.started /\ lit.client = a.client
      /\ lit.finished = a.finished /\ lit.skipThinking = a.skipThinking
      /\ lit.inThinking = a.inThinking /\ lit.blockOpen = a.blockOpen
      /\ lit.blockIndex = a.blockIndex
  <2> HIDE DEF MessageReaders
  <2>1. QED
    BY DEF Translators
<1>2. b = IF finish /\ ~told.finished THEN Finish(told) ELSE told
  BY DEF AnthropicChunk
<1> HIDE DEF lit
<1>3. /\ begun \in Translators /\ begun.started /\ begun.finished = a.finished
      /\ begun.skipThinking = a.skipThinking /\ begun.client.stops = a.client.stops
      /\ a \in Fresh \cup Speaking => begun \in Speaking
      /\ a.started => begun = a
  <2>1. CASE a.started
    BY <2>1 DEF Fresh
  <2>2. CASE ~a.started
    <3> DEFINE o == Signal(lit, "message_start")
    <3>1. /\ o \in Translators /\ SameBut(lit, o)
          /\ o.blockOpen = lit.blockOpen /\ o.blockIndex = lit.blockIndex
          /\ o.client.at = "open"
          /\ o.client.open = lit.client.open /\ o.client.next = lit.client.next
          /\ o.client.stops = lit.client.stops
          /\ ~lit.client.confused /\ lit.client.at = "none" => ~o.client.confused
      BY <1>1, SignalIs
    <3>2. begun = o
      BY <2>2
    <3> HIDE DEF o, begun
    <3>3. QED
      BY <1>1, <2>2, <3>1, <3>2 DEF SameBut, Fresh, Speaking, InStep
  <2>3. QED
    BY <2>1, <2>2
<1> HIDE DEF begun
<1>4. /\ said \in Translators /\ SameEnds(begun, said)
      /\ begun \in Speaking => said \in Speaking
  BY <1>3, PiecesAre
<1>5. pieces = <<>> => said = begun
  BY EmptyFolds
<1> HIDE DEF said
<1>6. /\ told \in Translators /\ SameEnds(said, told)
      /\ said \in Calling => told \in Calling
      /\ said \in Speaking /\ (\A i \in DOMAIN calls : calls[i].new)
         => told \in IF calls = <<>> THEN Speaking ELSE Calling
  BY <1>4, ToolDeltasAre
<1>7. calls = <<>> => told = said
  BY EmptyFolds
<1> HIDE DEF told
<1>8. /\ Finish(told) \in Translators /\ Finish(told).finished
      /\ Finish(told).started = told.started
      /\ Finish(told).skipThinking = told.skipThinking /\ ~Finish(told).blockOpen
      /\ Finish(told).client.stops = told.client.stops + 1
      /\ told \in Speaking \cup Calling => ~Finish(told).client.confused
  BY <1>6, FinishIs
<1>9. /\ told.started /\ told.finished = a.finished
      /\ told.skipThinking = a.skipThinking /\ told.client.stops = a.client.stops
  BY <1>3, <1>4, <1>6 DEF SameEnds
<1>10. a.finished \in BOOLEAN
  BY DEF Translators
<1>11. a \in Fresh \cup Speaking /\ (\A i \in DOMAIN calls : calls[i].new)
       => told \in IF calls = <<>> THEN Speaking ELSE Calling
  BY <1>3, <1>4, <1>6
<1>12. a \in Calling /\ pieces = <<>> => told \in Calling
  BY <1>3, <1>5, <1>6 DEF Calling
<1>13. a.started /\ pieces = <<>> /\ calls = <<>> => told = a
  BY <1>3, <1>5, <1>7
<1> HIDE DEF b
<1>14. CASE finish /\ ~a.finished
  <2>1. b = Finish(told)
    BY <1>2, <1>9, <1>14
  <2>2. QED
    BY <1>8, <1>9, <1>10, <1>11, <1>12, <1>14, <2>1 DEF b
<1>15. CASE ~(finish /\ ~a.finished)
  <2>1. b = told
    BY <1>2, <1>9, <1>15
  <2>2. b.finished = (a.finished \/ finish)
    BY <1>9, <1>10, <1>15, <2>1
  <2>3. QED
    BY <1>6, <1>9, <1>11, <1>12, <1>13, <1>15, <2>1, <2>2 DEF b
<1>16. QED
  BY <1>14, <1>15

\* Flush ends the message unless a finish_reason did.
LEMMA AnthropicFlushIs ==
  ASSUME NEW a \in Translators, NEW pieces \in Seq(NormalizedPieces)
  PROVE  LET b == AnthropicFlush(a, pieces)
         IN /\ b \in Translators /\ b.finished /\ b.started = a.started
            /\ b.skipThinking = a.skipThinking
            /\ b.client.stops = IF a.finished THEN a.client.stops ELSE a.client.stops + 1
            /\ a \in Speaking => ~b.client.confused
            /\ a \in Calling /\ pieces = <<>> => ~b.client.confused
            /\ ~a.client.confused /\ a.finished /\ pieces = <<>> => ~b.client.confused
            /\ ~a.blockOpen /\ pieces = <<>> => ~b.blockOpen
<1> DEFINE told == FoldLeft(Piece, a, pieces)
           b == AnthropicFlush(a, pieces)
<1>1. /\ told \in Translators /\ SameEnds(a, told)
      /\ a \in Speaking => told \in Speaking
  BY PiecesAre
<1>2. pieces = <<>> => told = a
  BY EmptyFolds
<1>3. b = IF told.finished THEN told ELSE Finish(told)
  BY DEF AnthropicFlush
<1> HIDE DEF told, b
<1>4. /\ Finish(told) \in Translators /\ Finish(told).finished
      /\ Finish(told).started = told.started
      /\ Finish(told).skipThinking = told.skipThinking /\ ~Finish(told).blockOpen
      /\ Finish(told).client.stops = told.client.stops + 1
      /\ told \in Speaking \cup Calling => ~Finish(told).client.confused
  BY <1>1, FinishIs
<1>5. CASE a.finished
  <2>1. b = told
    BY <1>1, <1>3, <1>5 DEF SameEnds
  <2>2. a \notin Speaking /\ a \notin Calling
    BY <1>5 DEF Speaking, Calling
  <2>3. QED
    BY <1>1, <1>2, <1>5, <2>1, <2>2 DEF SameEnds, b
<1>6. CASE ~a.finished
  <2>1. b = Finish(told)
    BY <1>1, <1>3, <1>6 DEF SameEnds
  <2>2. QED
    BY <1>1, <1>2, <1>4, <1>6, <2>1 DEF SameEnds, b
<1>7. QED
  BY <1>5, <1>6

-----------------------------------------------------------------------------
(*****************************************************************************)
(* The Responses translator, in the same order.                              *)
(*****************************************************************************)

AllTokens == Tokens \cup ArgumentTokens

ResponseReaders ==
  [at : {"none", "open", "completed"},
   items : SUBSET [index : Nat, item : Nat, open : BOOLEAN],
   ends : Nat, confused : BOOLEAN, text : Nat,
   calls : Seq([heard : Seq(AllTokens), final : Seq(AllTokens)])]

\* A call: what was sent of its input is never longer than its arguments.
CallStates ==
  {call \in [custom : BOOLEAN, arguments : Seq(ArgumentTokens), inputEmitted : Nat] :
     call.inputEmitted <= Len(call.arguments)}

ResponsesTranslators ==
  [started : BOOLEAN, finished : BOOLEAN, outputIndex : 0 .. 1, contentIndex : Nat,
   hasText : BOOLEAN, inReasoning : BOOLEAN, toolCalls : Seq(CallStates),
   client : ResponseReaders]

EventTypes ==
  {"created", "item_added", "part_added", "reasoning_delta", "reasoning_done",
   "text_delta", "text_done", "part_done", "item_done", "args_delta", "args_done",
   "completed"}

ResponseEvents ==
  [type : EventTypes, index : Nat, item : Nat, part : Nat, tokens : Seq(AllTokens),
   output : Seq(Nat)]

LEMMA ItemReadType ==
  ASSUME NEW calls \in Seq([heard : Seq(AllTokens), final : Seq(AllTokens)]),
         NEW e \in ResponseEvents
  PROVE  ItemRead(calls, e) \in Seq([heard : Seq(AllTokens), final : Seq(AllTokens)])
<1> DEFINE H == [heard : Seq(AllTokens), final : Seq(AllTokens)]
<1>1. e.tokens \in Seq(AllTokens)
  BY DEF ResponseEvents
<1> HIDE DEF AllTokens
<1>2. CASE e.type = "item_added"
  <2>1. [heard |-> <<>>, final |-> <<>>] \in H
    OBVIOUS
  <2>2. Append(calls, [heard |-> <<>>, final |-> <<>>]) \in Seq(H)
    BY <2>1
  <2>3. QED
    BY <1>2, <2>2 DEF ItemRead
<1>3. CASE e.type = "args_delta"
  <2>1. ASSUME NEW h \in H PROVE [h EXCEPT !.heard = @ \o e.tokens] \in H
    <3>1. h.heard \o e.tokens \in Seq(AllTokens)
      <4>1. h.heard \in Seq(AllTokens)
        OBVIOUS
      <4>2. QED
        BY <1>1, <4>1
    <3>2. QED
      BY <3>1
  <2>2. [calls EXCEPT ![e.item].heard = @ \o e.tokens] \in Seq(H)
    <3>1. CASE e.item \in DOMAIN calls
      <4>1. calls[e.item] \in H
        <5>1. calls \in Seq(H)
          OBVIOUS
        <5> HIDE DEF H
        <5>2. QED
          BY <3>1, <5>1
      <4>2. [calls[e.item] EXCEPT !.heard = @ \o e.tokens] \in H
        BY <2>1, <4>1
      <4> DEFINE h == [calls[e.item] EXCEPT !.heard = @ \o e.tokens]
      <4>3. [calls EXCEPT ![e.item] = h] \in Seq(H)
        <5> HIDE DEF h, H
        <5>1. h \in H
          BY <4>2 DEF h, H
        <5>2. calls \in Seq(H)
          BY DEF H
        <5>3. QED
          BY <3>1, <5>1, <5>2
      <4>4. QED
        BY <4>3
    <3>2. CASE e.item \notin DOMAIN calls
      <4>1. [calls EXCEPT ![e.item].heard = @ \o e.tokens] = calls
        BY <3>2
      <4>2. QED
        BY <4>1
    <3>3. QED
      BY <3>1, <3>2
  <2>3. QED
    BY <1>3, <2>2 DEF ItemRead
<1>4. CASE e.type = "args_done"
  <2>1. \A h \in H : [h EXCEPT !.final = e.tokens] \in H
    BY <1>1
  <2>2. [calls EXCEPT ![e.item].final = e.tokens] \in Seq(H)
    <3>1. CASE e.item \in DOMAIN calls
      <4>1. calls[e.item] \in H
        <5>1. calls \in Seq(H)
          OBVIOUS
        <5> HIDE DEF H
        <5>2. QED
          BY <3>1, <5>1
      <4>2. [calls[e.item] EXCEPT !.final = e.tokens] \in H
        BY <2>1, <4>1
      <4> DEFINE h == [calls[e.item] EXCEPT !.final = e.tokens]
      <4>3. [calls EXCEPT ![e.item] = h] \in Seq(H)
        <5> HIDE DEF h, H
        <5>1. h \in H
          BY <4>2 DEF h, H
        <5>2. calls \in Seq(H)
          BY DEF H
        <5>3. QED
          BY <3>1, <5>1, <5>2
      <4>4. QED
        BY <4>3
    <3>2. CASE e.item \notin DOMAIN calls
      <4>1. [calls EXCEPT ![e.item].final = e.tokens] = calls
        BY <3>2
      <4>2. QED
        BY <4>1
    <3>3. QED
      BY <3>1, <3>2
  <2>3. QED
    BY <1>4, <2>2 DEF ItemRead
<1>5. CASE e.type \notin {"item_added", "args_delta", "args_done"}
  BY <1>5 DEF ItemRead
<1>6. QED
  BY <1>2, <1>3, <1>4, <1>5

LEMMA ResponseReadType ==
  ASSUME NEW m \in ResponseReaders, NEW e \in ResponseEvents
  PROVE  ResponseRead(m, e) \in ResponseReaders
<1> DEFINE r == ResponseRead(m, e)
           X == [index : Nat, item : Nat, open : BOOLEAN]
<1>1. r.at \in {"none", "open", "completed"}
  BY DEF ResponseRead, ResponseReaders
<1>2. r.items \in SUBSET X
  <2>1. e.index \in Nat /\ e.item \in Nat
    BY DEF ResponseEvents
  <2>2. OpenItem(m, e) \in X /\ [OpenItem(m, e) EXCEPT !.open = FALSE] \in X
    BY <2>1 DEF OpenItem
  <2>3. m.items \in SUBSET X
    BY DEF ResponseReaders
  <2> HIDE DEF X
  <2>4. QED
    BY <2>2, <2>3 DEF ResponseRead
<1>3. r.ends \in Nat
  <2>1. m.ends \in Nat /\ m.ends + 1 \in Nat
    BY DEF ResponseReaders
  <2>2. QED
    BY <2>1 DEF ResponseRead
<1>4. r.text \in Nat
  <2>1. m.text \in Nat
    BY DEF ResponseReaders
  <2>2. CountOf("text", e.tokens) \in Nat
    BY CountIsNumber DEF ResponseEvents
  <2>3. \A x \in Nat, y \in Nat : x + y \in Nat /\ x + 0 \in Nat
    OBVIOUS
  <2>4. r.text \in {m.text + CountOf("text", e.tokens), m.text + 0}
    BY DEF ResponseRead
  <2>5. QED
    BY <2>1, <2>2, <2>3, <2>4
<1>5. r.calls \in Seq([heard : Seq(AllTokens), final : Seq(AllTokens)])
  <2>1. m.calls \in Seq([heard : Seq(AllTokens), final : Seq(AllTokens)])
    BY DEF ResponseReaders
  <2>2. r.calls = ItemRead(m.calls, e)
    BY DEF ResponseRead
  <2>3. QED
    BY <2>1, <2>2, ItemReadType
<1>6. r.confused \in BOOLEAN
  BY DEF ResponseRead
<1>7. r = [at |-> r.at, items |-> r.items, ends |-> r.ends, confused |-> r.confused,
           calls |-> r.calls, text |-> r.text]
  BY DEF ResponseRead
<1> HIDE DEF r, AllTokens
<1>8. r \in ResponseReaders
  BY <1>1, <1>2, <1>3, <1>4, <1>5, <1>6, <1>7 DEF ResponseReaders
<1>9. QED
  BY <1>8 DEF r

\* Events that neither end the answer nor have text.
QuietTypes == EventTypes \ {"completed", "text_delta"}

\* What an event that has text leaves alone, and what any other does.
RAlike(r, q) ==
  /\ q.started = r.started /\ q.finished = r.finished
  /\ q.outputIndex = r.outputIndex /\ q.client.ends = r.client.ends

RSame(r, q) == RAlike(r, q) /\ q.client.text = r.client.text

\* Every event but the last: the client is told, and nothing else changes.
LEMMA RToldIs ==
  ASSUME NEW r \in ResponsesTranslators, NEW e \in ResponseEvents
  PROVE  LET q == RTold(r, e)
         IN /\ q \in ResponsesTranslators
            /\ q.client = ResponseRead(r.client, e)
            /\ q.started = r.started /\ q.finished = r.finished
            /\ q.outputIndex = r.outputIndex /\ q.contentIndex = r.contentIndex
            /\ q.hasText = r.hasText /\ q.inReasoning = r.inReasoning
            /\ q.toolCalls = r.toolCalls
            /\ q.client.ends = IF e.type = "completed" THEN r.client.ends + 1
                               ELSE r.client.ends
            /\ q.client.text = IF e.type = "text_delta"
                               THEN r.client.text + CountOf("text", e.tokens)
                               ELSE r.client.text
<1>1. r.client \in ResponseReaders
  BY DEF ResponsesTranslators
<1>2. ResponseRead(r.client, e) \in ResponseReaders
  BY <1>1, ResponseReadType
<1>3. ResponseRead(r.client, e).ends =
        IF e.type = "completed" THEN r.client.ends + 1 ELSE r.client.ends
  BY DEF ResponseRead
<1>4. ResponseRead(r.client, e).text = IF e.type = "text_delta"
                                       THEN r.client.text + CountOf("text", e.tokens)
                                       ELSE r.client.text
  <2>1. r.client.text \in Nat /\ \A x \in Nat : x + 0 = x
    BY <1>1 DEF ResponseReaders
  <2>2. QED
    BY <2>1 DEF ResponseRead
<1> HIDE DEF ResponseReaders, CallStates
<1>5. QED
  BY <1>2, <1>3, <1>4 DEF RTold, ResponsesTranslators

LEMMA TellIs ==
  ASSUME NEW r \in ResponsesTranslators, NEW t \in QuietTypes,
         NEW index \in Nat, NEW item \in Nat
  PROVE  LET q == Tell(r, t, index, item)
         IN /\ q \in ResponsesTranslators /\ RSame(r, q)
            /\ q.inReasoning = r.inReasoning /\ q.contentIndex = r.contentIndex
            /\ q.hasText = r.hasText /\ q.toolCalls = r.toolCalls
<1> DEFINE e == Full(t, index, item, 0, <<>>, <<>>)
<1>1. e \in ResponseEvents /\ e.type \notin {"completed", "text_delta"}
  <2>1. <<>> \in Seq(AllTokens) /\ <<>> \in Seq(Nat)
    OBVIOUS
  <2>2. QED
    BY <2>1 DEF Full, ResponseEvents, QuietTypes
<1>2. Tell(r, t, index, item) = RTold(r, e)
  BY DEF Tell
<1> HIDE DEF e
<1>3. QED
  BY <1>1, <1>2, RToldIs DEF RSame, RAlike

LEMMA TellPartIs ==
  ASSUME NEW r \in ResponsesTranslators, NEW t \in QuietTypes,
         NEW tokens \in Seq(Tokens)
  PROVE  LET q == TellPart(r, t, tokens)
         IN /\ q \in ResponsesTranslators /\ RSame(r, q)
            /\ q.inReasoning = r.inReasoning /\ q.contentIndex = r.contentIndex
            /\ q.hasText = r.hasText /\ q.toolCalls = r.toolCalls
<1> DEFINE e == Full(t, r.outputIndex, TheMessage, r.contentIndex, tokens, <<>>)
<1>1. e \in ResponseEvents /\ e.type \notin {"completed", "text_delta"}
  <2>1. <<>> \in Seq(Nat) /\ TheMessage \in Nat
    BY DEF TheMessage
  <2>2. r.outputIndex \in Nat /\ r.contentIndex \in Nat
    BY DEF ResponsesTranslators
  <2>3. tokens \in Seq(AllTokens)
    BY DEF AllTokens
  <2>4. QED
    BY <2>1, <2>2, <2>3 DEF Full, ResponseEvents, QuietTypes
<1>2. TellPart(r, t, tokens) = RTold(r, e)
  BY DEF TellPart
<1> HIDE DEF e
<1>3. QED
  BY <1>1, <1>2, RToldIs DEF RSame, RAlike

LEMMA TextToldIs ==
  ASSUME NEW r \in ResponsesTranslators, NEW tokens \in Seq(Tokens)
  PROVE  LET q == TellPart(r, "text_delta", tokens)
         IN /\ q \in ResponsesTranslators /\ RAlike(r, q) /\ q.toolCalls = r.toolCalls
            /\ q.client.text = r.client.text + CountOf("text", tokens)
<1> DEFINE e == Full("text_delta", r.outputIndex, TheMessage, r.contentIndex, tokens, <<>>)
<1>1. e \in ResponseEvents /\ e.type = "text_delta" /\ e.tokens = tokens
  <2>1. <<>> \in Seq(Nat) /\ TheMessage \in Nat
    BY DEF TheMessage
  <2>2. r.outputIndex \in Nat /\ r.contentIndex \in Nat
    BY DEF ResponsesTranslators
  <2>3. tokens \in Seq(AllTokens) /\ "text_delta" \in EventTypes
    BY DEF AllTokens, EventTypes
  <2>4. QED
    BY <2>1, <2>2, <2>3 DEF Full, ResponseEvents
<1>2. TellPart(r, "text_delta", tokens) = RTold(r, e)
  BY DEF TellPart
<1> HIDE DEF e
<1>3. QED
  BY <1>1, <1>2, RToldIs DEF RAlike

LEMMA TellCallIs ==
  ASSUME NEW r \in ResponsesTranslators, NEW t \in QuietTypes,
         NEW i \in Nat \ {0}, NEW tokens \in Seq(ArgumentTokens)
  PROVE  LET q == TellCall(r, t, i, tokens)
         IN /\ q \in ResponsesTranslators /\ RSame(r, q)
            /\ q.inReasoning = r.inReasoning /\ q.contentIndex = r.contentIndex
            /\ q.hasText = r.hasText /\ q.toolCalls = r.toolCalls
<1> DEFINE e == Full(t, (i - 1) + OutputIndexOffset(r), i, 0, tokens, <<>>)
<1>1. e \in ResponseEvents /\ e.type \notin {"completed", "text_delta"}
  <2>1. <<>> \in Seq(Nat) /\ (i - 1) + OutputIndexOffset(r) \in Nat
    BY DEF OutputIndexOffset
  <2>2. tokens \in Seq(AllTokens)
    BY DEF AllTokens
  <2>3. QED
    BY <2>1, <2>2 DEF Full, ResponseEvents, QuietTypes
<1>2. TellCall(r, t, i, tokens) = RTold(r, e)
  BY DEF TellCall
<1> HIDE DEF e
<1>3. QED
  BY <1>1, <1>2, RToldIs DEF RSame, RAlike

LEMMA AddMessageIs ==
  ASSUME NEW r \in ResponsesTranslators
  PROVE  LET q == AddMessage(r)
         IN /\ q \in ResponsesTranslators /\ RSame(r, q)
            /\ q.inReasoning = r.inReasoning /\ q.hasText = r.hasText
            /\ q.toolCalls = r.toolCalls
<1> DEFINE p == Tell(r, "item_added", r.outputIndex, TheMessage)
<1>1. /\ p \in ResponsesTranslators /\ RSame(r, p) /\ p.inReasoning = r.inReasoning
      /\ p.hasText = r.hasText /\ p.toolCalls = r.toolCalls
  <2>1. TheMessage \in Nat /\ r.outputIndex \in Nat
    BY DEF TheMessage, ResponsesTranslators
  <2>2. "item_added" \in QuietTypes
    BY DEF QuietTypes, EventTypes
  <2>3. QED
    BY <2>1, <2>2, TellIs
<1>2. AddMessage(r) = TellPart(p, "part_added", <<>>)
  BY DEF AddMessage
<1> HIDE DEF p
<1>3. <<>> \in Seq(Tokens) /\ "part_added" \in QuietTypes
  BY DEF QuietTypes, EventTypes
<1>4. LET q == TellPart(p, "part_added", <<>>)
      IN /\ q \in ResponsesTranslators /\ RSame(p, q) /\ q.inReasoning = p.inReasoning
         /\ q.hasText = p.hasText /\ q.toolCalls = p.toolCalls
  BY <1>1, <1>3, TellPartIs
<1>5. QED
  BY <1>1, <1>2, <1>4 DEF RSame, RAlike

\* Fields that the translator sets on its own.
LEMMA RFieldsSet ==
  ASSUME NEW r \in ResponsesTranslators, NEW v \in BOOLEAN
  PROVE  /\ LET q == [r EXCEPT !.inReasoning = v]
            IN q \in ResponsesTranslators /\ RSame(r, q) /\ q.toolCalls = r.toolCalls
         /\ LET q == [r EXCEPT !.hasText = v]
            IN q \in ResponsesTranslators /\ RSame(r, q) /\ q.toolCalls = r.toolCalls
         /\ LET q == [r EXCEPT !.inReasoning = v, !.contentIndex = @ + 1]
            IN q \in ResponsesTranslators /\ RSame(r, q) /\ q.toolCalls = r.toolCalls
<1> HIDE DEF ResponseReaders, CallStates
<1> DEFINE index == r.contentIndex + 1
<1>1. index \in Nat
  BY DEF ResponsesTranslators
<1> HIDE DEF index
<1>2. LET q == [r EXCEPT !.inReasoning = v]
      IN q \in ResponsesTranslators /\ RSame(r, q) /\ q.toolCalls = r.toolCalls
  BY DEF ResponsesTranslators, RSame, RAlike
<1>3. LET q == [r EXCEPT !.hasText = v]
      IN q \in ResponsesTranslators /\ RSame(r, q) /\ q.toolCalls = r.toolCalls
  BY DEF ResponsesTranslators, RSame, RAlike
<1>4. LET q == [r EXCEPT !.inReasoning = v, !.contentIndex = index]
      IN q \in ResponsesTranslators /\ RSame(r, q) /\ q.toolCalls = r.toolCalls
  BY <1>1 DEF ResponsesTranslators, RSame, RAlike
<1>5. QED
  BY <1>2, <1>3, <1>4 DEF index

LEMMA RReasoningIs ==
  ASSUME NEW r \in ResponsesTranslators, NEW tokens \in Seq(Tokens)
  PROVE  LET q == RReasoning(r, tokens)
         IN q \in ResponsesTranslators /\ RSame(r, q) /\ q.toolCalls = r.toolCalls
<1> DEFINE added == AddMessage(r)
           open == IF r.inReasoning THEN r ELSE [added EXCEPT !.inReasoning = TRUE]
<1>1. added \in ResponsesTranslators /\ RSame(r, added) /\ added.toolCalls = r.toolCalls
  BY AddMessageIs
<1>2. RReasoning(r, tokens) = TellPart(open, "reasoning_delta", tokens)
  BY DEF RReasoning
<1> HIDE DEF added
<1>3. LET q == [added EXCEPT !.inReasoning = TRUE]
      IN q \in ResponsesTranslators /\ RSame(added, q) /\ q.toolCalls = added.toolCalls
  BY <1>1, RFieldsSet
<1>4. open \in ResponsesTranslators /\ RSame(r, open) /\ open.toolCalls = r.toolCalls
  BY <1>1, <1>3 DEF RSame, RAlike
<1> HIDE DEF open
<1>5. "reasoning_delta" \in QuietTypes
  BY DEF QuietTypes, EventTypes
<1>6. LET q == TellPart(open, "reasoning_delta", tokens)
      IN q \in ResponsesTranslators /\ RSame(open, q) /\ q.toolCalls = open.toolCalls
  BY <1>4, <1>5, TellPartIs
<1>7. QED
  BY <1>2, <1>4, <1>6 DEF RSame, RAlike

LEMMA RContentIs ==
  ASSUME NEW r \in ResponsesTranslators, NEW tokens \in Seq(Tokens)
  PROVE  LET q == RContent(r, tokens)
         IN /\ q \in ResponsesTranslators /\ RAlike(r, q) /\ q.toolCalls = r.toolCalls
            /\ q.client.text = r.client.text + CountOf("text", tokens)
<1> DEFINE done == TellPart(r, "reasoning_done", <<>>)
           ready == IF r.inReasoning
                    THEN [done EXCEPT !.inReasoning = FALSE, !.contentIndex = @ + 1]
                    ELSE r
           added == AddMessage(ready)
           open == IF ready.hasText THEN ready ELSE [added EXCEPT !.hasText = TRUE]
<1>1. RContent(r, tokens) = TellPart(open, "text_delta", tokens)
  BY DEF RContent
<1>2. done \in ResponsesTranslators /\ RSame(r, done) /\ done.toolCalls = r.toolCalls
  <2>1. <<>> \in Seq(Tokens) /\ "reasoning_done" \in QuietTypes
    BY DEF QuietTypes, EventTypes
  <2>2. QED
    BY <2>1, TellPartIs
<1> HIDE DEF done
<1>3. LET q == [done EXCEPT !.inReasoning = FALSE, !.contentIndex = @ + 1]
      IN q \in ResponsesTranslators /\ RSame(done, q) /\ q.toolCalls = done.toolCalls
  BY <1>2, RFieldsSet
<1>4. ready \in ResponsesTranslators /\ RSame(r, ready) /\ ready.toolCalls = r.toolCalls
  BY <1>2, <1>3 DEF RSame, RAlike
<1> HIDE DEF ready
<1>5. /\ added \in ResponsesTranslators /\ RSame(ready, added)
      /\ added.toolCalls = ready.toolCalls
  BY <1>4, AddMessageIs
<1> HIDE DEF added
<1>6. LET q == [added EXCEPT !.hasText = TRUE]
      IN q \in ResponsesTranslators /\ RSame(added, q) /\ q.toolCalls = added.toolCalls
  BY <1>5, RFieldsSet
<1>7. open \in ResponsesTranslators /\ RSame(r, open) /\ open.toolCalls = r.toolCalls
  BY <1>4, <1>5, <1>6 DEF RSame, RAlike
<1> HIDE DEF open
<1>8. LET q == TellPart(open, "text_delta", tokens)
      IN /\ q \in ResponsesTranslators /\ RAlike(open, q)
         /\ q.toolCalls = open.toolCalls
         /\ q.client.text = open.client.text + CountOf("text", tokens)
  BY <1>7, TextToldIs
<1>9. QED
  BY <1>1, <1>7, <1>8 DEF RSame, RAlike

LEMMA RPiecesAre ==
  ASSUME NEW r \in ResponsesTranslators, NEW pieces \in Seq(NormalizedPieces)
  PROVE  LET q == FoldLeft(RPiece, r, pieces)
         IN q \in ResponsesTranslators /\ RAlike(r, q) /\ q.toolCalls = r.toolCalls
<1> DEFINE S == {x \in ResponsesTranslators : RAlike(r, x) /\ x.toolCalls = r.toolCalls}
<1>1. r \in S
  BY DEF RSame, RAlike
<1>2. ASSUME NEW x \in S, NEW p \in NormalizedPieces PROVE RPiece(x, p) \in S
  <2>1. p.tokens \in Seq(Tokens)
    BY DEF NormalizedPieces
  <2>2. RPiece(x, p) \in {RContent(x, p.tokens), RReasoning(x, p.tokens)}
    BY DEF RPiece
  <2>3. \A y \in {RContent(x, p.tokens), RReasoning(x, p.tokens)} :
          y \in ResponsesTranslators /\ RAlike(x, y) /\ y.toolCalls = x.toolCalls
    BY <2>1, RContentIs, RReasoningIs DEF RSame
  <2>4. QED
    BY <2>2, <2>3 DEF RSame, RAlike
<1> HIDE DEF S
<1>3. FoldLeft(RPiece, r, pieces) \in S
  BY <1>1, <1>2, RPieceFold
<1>4. QED
  BY <1>3 DEF S

\* A part of a sequence, which may be empty.
LEMMA PartIs ==
  ASSUME NEW X, NEW s \in Seq(X), NEW m \in Nat \ {0}, NEW k \in Nat, k <= Len(s)
  PROVE  /\ SubSeq(s, m, k) \in Seq(X)
         /\ Len(SubSeq(s, m, k)) = IF m <= k THEN (k - m) + 1 ELSE 0
<1>1. Len(s) \in Nat
  OBVIOUS
<1>2. CASE m <= k
  <2>1. m \in 1 .. Len(s) + 1 /\ k \in m - 1 .. Len(s)
    BY <1>1, <1>2
  <2>2. QED
    BY <1>2, <2>1, SubSeqProperties
<1>3. CASE ~(m <= k)
  <2>1. SubSeq(s, m, k) = <<>>
    BY <1>1, <1>3
  <2>2. QED
    BY <1>3, <2>1
<1>4. QED
  BY <1>2, <1>3

LEMMA InputIs ==
  ASSUME NEW call \in CallStates
  PROVE  /\ Input(call) \in Seq(ArgumentTokens)
         /\ Len(Input(call)) <= Len(call.arguments)
         /\ Unsent(call) \in Seq(ArgumentTokens)
         /\ Sent(call) \in CallStates /\ Sent(call).arguments = call.arguments
<1> DEFINE args == call.arguments
           n == Len(args)
<1>1. args \in Seq(ArgumentTokens) /\ call.inputEmitted \in Nat /\ call.inputEmitted <= n
      /\ n \in Nat
  BY DEF CallStates
<1> HIDE DEF ArgumentTokens
<1>2. Input(call) \in Seq(ArgumentTokens) /\ Len(Input(call)) <= n
  <2> DEFINE inner == SubSeq(args, 2, n - 1)
  <2>1. n > 1 => inner \in Seq(ArgumentTokens) /\ Len(inner) <= n
    <3> SUFFICES ASSUME n > 1 PROVE inner \in Seq(ArgumentTokens) /\ Len(inner) <= n
      OBVIOUS
    <3>1. n - 1 \in Nat /\ n - 1 <= n /\ 2 \in Nat \ {0}
      BY <1>1
    <3>2. /\ inner \in Seq(ArgumentTokens)
          /\ Len(inner) = IF 2 <= n - 1 THEN ((n - 1) - 2) + 1 ELSE 0
      BY <1>1, <3>1, PartIs
    <3> HIDE DEF inner
    <3>3. QED
      BY <1>1, <3>2
  <2>2. Input(call) = args \/ (n > 1 /\ Input(call) = inner)
    BY DEF Input, Unwrapped
  <2> HIDE DEF inner, args
  <2>3. QED
    BY <1>1, <2>1, <2>2
<1> DEFINE input == Input(call)
           already == call.inputEmitted
<1>3. Len(input) \in Nat
  BY <1>2
<1>4. /\ SubSeq(input, already + 1, Len(input)) \in Seq(ArgumentTokens)
      /\ Len(SubSeq(input, already + 1, Len(input))) =
           IF already + 1 <= Len(input) THEN (Len(input) - (already + 1)) + 1 ELSE 0
  <2>1. already + 1 \in Nat \ {0} /\ Len(input) <= Len(input)
    BY <1>1, <1>3
  <2> HIDE DEF input, already
  <2>2. QED
    BY <1>2, <1>3, <2>1, PartIs DEF input
<1>5. Unsent(call) = SubSeq(input, already + 1, Len(input))
  BY DEF Unsent
<1> DEFINE new == already + Len(Unsent(call))
<1>6. new \in Nat /\ new <= n
  <2> HIDE DEF input, already, args
  <2>1. Len(Unsent(call)) = IF already + 1 <= Len(input)
                            THEN (Len(input) - (already + 1)) + 1 ELSE 0
    BY <1>4, <1>5
  <2>2. already \in Nat /\ already <= n /\ Len(input) <= n
    BY <1>1, <1>2 DEF already, input
  <2>3. QED
    BY <1>1, <1>3, <2>1, <2>2
<1>7. Sent(call) = [call EXCEPT !.inputEmitted = new]
  BY DEF Sent
<1> HIDE DEF new
<1>8. Sent(call) \in CallStates /\ Sent(call).arguments = call.arguments
  BY <1>1, <1>6, <1>7 DEF CallStates
<1>9. QED
  BY <1>1, <1>2, <1>4, <1>5, <1>8

\* Arguments go to the last call and change no other.
LEMMA ArguedIs ==
  ASSUME NEW r \in ResponsesTranslators, NEW piece \in Seq(ArgumentTokens)
  PROVE  LET q == Argued(r, piece)
         IN /\ q \in ResponsesTranslators /\ RSame(r, q)
            /\ Len(q.toolCalls) = Len(r.toolCalls)
<1> DEFINE last == Len(r.toolCalls)
<1>1. last \in Nat /\ r.toolCalls \in Seq(CallStates)
  BY DEF ResponsesTranslators
<1>2. CASE piece = <<>> \/ last = 0
  <2>1. Argued(r, piece) = r
    BY <1>2 DEF Argued
  <2>2. QED
    BY <2>1 DEF RSame, RAlike
<1>3. CASE piece # <<>> /\ last # 0
  <2> DEFINE call == [r.toolCalls[last] EXCEPT !.arguments = @ \o piece]
             delta == IF call.custom THEN Unsent(call) ELSE piece
             state == IF call.custom THEN Sent(call) ELSE call
             kept == [r EXCEPT !.toolCalls[last] = state]
  <2>1. r.toolCalls[last] \in CallStates
    BY <1>1, <1>3
  <2>2. call \in CallStates
    <3> DEFINE old == r.toolCalls[last]
               args == old.arguments \o piece
    <3>1. old.arguments \in Seq(ArgumentTokens) /\ Len(old.arguments) \in Nat
      BY <2>1 DEF CallStates
    <3>2. args \in Seq(ArgumentTokens) /\ Len(args) = Len(old.arguments) + Len(piece)
          /\ Len(piece) \in Nat
      BY <3>1
    <3>3. call = [old EXCEPT !.arguments = args]
      OBVIOUS
    <3> HIDE DEF args, old
    <3>4. old \in CallStates
      BY <2>1 DEF old
    <3>5. old.inputEmitted \in Nat /\ old.inputEmitted <= Len(args)
      BY <3>1, <3>2, <3>4 DEF CallStates
    <3>6. [old EXCEPT !.arguments = args] \in CallStates
      BY <3>2, <3>4, <3>5 DEF CallStates
    <3>7. QED
      BY <3>3, <3>6
  <2> HIDE DEF call
  <2>3. /\ Unsent(call) \in Seq(ArgumentTokens) /\ Sent(call) \in CallStates
    BY <2>2, InputIs
  <2>4. delta \in Seq(ArgumentTokens) /\ state \in CallStates
    BY <2>2, <2>3
  <2>5. Argued(r, piece) = IF delta = <<>> THEN kept ELSE TellCall(kept, "args_delta", last, delta)
    BY <1>3 DEF Argued, call
  <2> HIDE DEF delta, state
  <2>6. [r.toolCalls EXCEPT ![last] = state] \in Seq(CallStates)
        /\ Len([r.toolCalls EXCEPT ![last] = state]) = last
    <3> HIDE DEF CallStates
    <3>1. QED
      BY <1>1, <1>3, <2>4
  <2>7. kept \in ResponsesTranslators /\ RSame(r, kept) /\ Len(kept.toolCalls) = last
    <3> DEFINE states == [r.toolCalls EXCEPT ![last] = state]
    <3>1. kept = [r EXCEPT !.toolCalls = states]
      BY DEF ResponsesTranslators
    <3>2. states \in Seq(CallStates) /\ Len(states) = last
      BY <2>6
    <3> HIDE DEF states, kept, CallStates, ResponseReaders
    <3>3. QED
      BY <3>1, <3>2 DEF ResponsesTranslators, RSame, RAlike
  <2> HIDE DEF kept
  <2>8. LET q == TellCall(kept, "args_delta", last, delta)
        IN /\ q \in ResponsesTranslators /\ RSame(kept, q)
           /\ q.toolCalls = kept.toolCalls
    <3>1. last \in Nat \ {0} /\ "args_delta" \in QuietTypes
      BY <1>1, <1>3 DEF QuietTypes, EventTypes
    <3> HIDE DEF last
    <3>2. QED
      BY <2>4, <2>7, <3>1, TellCallIs
  <2>9. QED
    BY <2>5, <2>7, <2>8 DEF RSame, RAlike
<1>4. QED
  BY <1>2, <1>3

LEMMA RToolDeltaIs ==
  ASSUME NEW r \in ResponsesTranslators, NEW tc \in ToolCalls
  PROVE  LET q == RToolDelta(r, tc)
         IN /\ q \in ResponsesTranslators /\ RSame(r, q)
            /\ Len(q.toolCalls) = Len(r.toolCalls) + (IF tc.new THEN 1 ELSE 0)
<1> DEFINE states == Append(r.toolCalls, NewCall(tc.custom))
           added == [r EXCEPT !.toolCalls = states]
           told == TellCall(added, "item_added", Len(states), <<>>)
           open == IF tc.new THEN told ELSE r
<1>1. tc.piece \in Seq(ArgumentTokens) /\ tc.custom \in BOOLEAN
  BY DEF ToolCalls
<1>2. r.toolCalls \in Seq(CallStates) /\ Len(r.toolCalls) \in Nat
  BY DEF ResponsesTranslators
<1>3. NewCall(tc.custom) \in CallStates
  BY <1>1 DEF NewCall, CallStates
<1>4. states \in Seq(CallStates) /\ Len(states) = Len(r.toolCalls) + 1
  <2> HIDE DEF CallStates
  <2>1. QED
    BY <1>2, <1>3
<1>5. RToolDelta(r, tc) = Argued(open, tc.piece)
  BY DEF RToolDelta
<1> HIDE DEF states
<1>6. added \in ResponsesTranslators /\ RSame(r, added) /\ added.toolCalls = states
  <2> HIDE DEF CallStates, ResponseReaders
  <2>1. QED
    BY <1>4 DEF ResponsesTranslators, RSame, RAlike
<1> HIDE DEF added
<1>7. told \in ResponsesTranslators /\ RSame(added, told) /\ told.toolCalls = states
  <2>1. Len(states) \in Nat \ {0} /\ "item_added" \in QuietTypes
    BY <1>2, <1>4 DEF QuietTypes, EventTypes
  <2>2. <<>> \in Seq(ArgumentTokens)
    OBVIOUS
  <2>3. QED
    BY <1>6, <2>1, <2>2, TellCallIs
<1> HIDE DEF told
<1>8. /\ open \in ResponsesTranslators /\ RSame(r, open)
      /\ Len(open.toolCalls) = Len(r.toolCalls) + (IF tc.new THEN 1 ELSE 0)
  <2>1. CASE tc.new
    BY <1>4, <1>6, <1>7, <2>1 DEF RSame, RAlike
  <2>2. CASE ~tc.new
    BY <1>2, <2>2 DEF RSame, RAlike
  <2>3. QED
    BY <2>1, <2>2
<1> HIDE DEF open
<1>9. LET q == Argued(open, tc.piece)
      IN /\ q \in ResponsesTranslators /\ RSame(open, q)
         /\ Len(q.toolCalls) = Len(open.toolCalls)
  BY <1>1, <1>8, ArguedIs
<1>10. QED
  BY <1>5, <1>8, <1>9 DEF RSame, RAlike

LEMMA RToolDeltasAre ==
  ASSUME NEW r \in ResponsesTranslators, NEW calls \in Seq(ToolCalls)
  PROVE  LET q == RToolDeltas(r, calls)
         IN /\ q \in ResponsesTranslators /\ RSame(r, q)
            /\ Len(calls) <= 1 => Len(q.toolCalls) <= Len(r.toolCalls) + Len(calls)
<1> DEFINE quiet == [r EXCEPT !.inReasoning = FALSE]
           S == {x \in ResponsesTranslators : RSame(r, x)}
           E == ToolCalls
           told == FoldLeft(RToolDelta, quiet, calls)
           m == Len(r.toolCalls)
<1>1. quiet \in ResponsesTranslators /\ RSame(r, quiet) /\ quiet.toolCalls = r.toolCalls
  BY RFieldsSet
<1>2. m \in Nat
  BY DEF ResponsesTranslators
<1>3. RToolDeltas(r, calls) = IF calls = <<>> THEN r ELSE told
  BY DEF RToolDeltas
<1> HIDE DEF quiet
<1>4. CASE calls = <<>>
  <2>1. RToolDeltas(r, calls) = r /\ Len(calls) = 0
    BY <1>3, <1>4
  <2>2. QED
    BY <1>2, <2>1 DEF RSame, RAlike
<1>5. CASE calls # <<>>
  <2>1. quiet \in S
    BY <1>1
  <2>2. calls \in Seq(E) /\ \A x \in S, tc \in E : RToolDelta(x, tc) \in S
    BY RToolDeltaIs DEF RSame, RAlike
  <2> HIDE DEF S, E
  <2>3. told \in S /\ (Len(calls) = 1 => told = RToolDelta(quiet, calls[1]))
    <3>1. told \in S
      BY <2>1, <2>2, RToolDeltaFold
    <3>2. Len(calls) = 1 => told = RToolDelta(quiet, calls[1])
      <4>1. quiet \in S /\ calls \in Seq(E) /\ \A x \in S, tc \in E : RToolDelta(x, tc) \in S
        BY <2>1, <2>2, Zenon
      <4>2. QED
        BY <4>1, RToolDeltaFold, ZenonT(60)
    <3>3. QED
      BY <3>1, <3>2
  <2> HIDE DEF told
  <2>4. ASSUME Len(calls) <= 1 PROVE Len(calls) = 1 /\ calls[1] \in ToolCalls
    <3> DEFINE n == Len(calls)
    <3>1. n \in Nat /\ n # 0 /\ n <= 1
      BY <1>5, <2>4, EmptySeq
    <3> HIDE DEF n
    <3>2. n = 1
      BY <3>1
    <3>3. QED
      BY <3>2 DEF n
  <2>5. ASSUME Len(calls) <= 1 PROVE Len(told.toolCalls) <= m + Len(calls)
    <3>1. told = RToolDelta(quiet, calls[1]) /\ calls[1] \in ToolCalls /\ Len(calls) = 1
      BY <2>3, <2>4, <2>5
    <3>2. Len(RToolDelta(quiet, calls[1]).toolCalls) =
            Len(quiet.toolCalls) + (IF calls[1].new THEN 1 ELSE 0)
      BY <1>1, <3>1, RToolDeltaIs
    <3>3. Len(told.toolCalls) = m + (IF calls[1].new THEN 1 ELSE 0)
      BY <1>1, <3>1, <3>2, Zenon
    <3> HIDE DEF m
    <3>4. QED
      BY <1>2, <3>1, <3>3
  <2>6. QED
    BY <1>3, <1>5, <2>3, <2>5 DEF S
<1>6. QED
  BY <1>4, <1>5

\* What the finish says of a call.
LEMMA CloseCallIs ==
  ASSUME NEW r \in ResponsesTranslators, NEW i \in DOMAIN r.toolCalls
  PROVE  LET q == CloseCall(r, i)
         IN q \in ResponsesTranslators /\ RSame(r, q) /\ q.toolCalls = r.toolCalls
<1> DEFINE call == r.toolCalls[i]
           rest == IF call.custom THEN Unsent(call) ELSE <<>>
           told == IF rest = <<>> THEN r ELSE TellCall(r, "args_delta", i, rest)
           done == TellCall(told, "args_done", i, Input(call))
<1>1. call \in CallStates /\ i \in Nat \ {0}
  <2>1. r.toolCalls \in Seq(CallStates)
    BY DEF ResponsesTranslators
  <2> HIDE DEF CallStates
  <2>2. QED
    BY <2>1
<1>2. CloseCall(r, i) = TellCall(done, "item_done", i, <<>>)
  BY DEF CloseCall
<1> HIDE DEF call
<1>3. Input(call) \in Seq(ArgumentTokens) /\ Unsent(call) \in Seq(ArgumentTokens)
  BY <1>1, InputIs
<1>4. rest \in Seq(ArgumentTokens) /\ <<>> \in Seq(ArgumentTokens)
  BY <1>3
<1>5. {"args_delta", "args_done", "item_done"} \subseteq QuietTypes
  BY DEF QuietTypes, EventTypes
<1> HIDE DEF rest
<1>6. LET q == TellCall(r, "args_delta", i, rest)
      IN q \in ResponsesTranslators /\ RSame(r, q) /\ q.toolCalls = r.toolCalls
  BY <1>1, <1>4, <1>5, TellCallIs
<1>7. told \in ResponsesTranslators /\ RSame(r, told) /\ told.toolCalls = r.toolCalls
  BY <1>6 DEF RSame, RAlike
<1> HIDE DEF told
<1>8. done \in ResponsesTranslators /\ RSame(told, done) /\ done.toolCalls = told.toolCalls
  BY <1>1, <1>3, <1>5, <1>7, TellCallIs
<1> HIDE DEF done
<1>9. LET q == TellCall(done, "item_done", i, <<>>)
      IN q \in ResponsesTranslators /\ RSame(done, q) /\ q.toolCalls = done.toolCalls
  <2>1. "item_done" \in QuietTypes /\ <<>> \in Seq(ArgumentTokens)
    BY <1>4, <1>5
  <2>2. QED
    BY <1>1, <1>8, <2>1, TellCallIs
<1>10. QED
  BY <1>2, <1>7, <1>8, <1>9 DEF RSame, RAlike

\* response.completed comes last, and once.
LEMMA RFinishIs ==
  ASSUME NEW r \in ResponsesTranslators, r.outputIndex = 0
  PROVE  LET q == RFinish(r)
         IN /\ q \in ResponsesTranslators /\ q.finished /\ q.started = r.started
            /\ q.client.ends = r.client.ends + 1 /\ q.toolCalls = r.toolCalls
            /\ q.client.text = r.client.text
<1> DEFINE Like(x) == /\ x \in ResponsesTranslators /\ x.started = r.started
                      /\ x.client.ends = r.client.ends /\ x.toolCalls = r.toolCalls
                      /\ x.client.text = r.client.text
           t1 == TellPart(r, "text_done", <<>>)
           t2 == TellPart(t1, "part_done", <<>>)
           t3 == Tell(t2, "item_done", r.outputIndex, TheMessage)
           moved == [t3 EXCEPT !.outputIndex = @ + 1]
           texted == IF r.hasText THEN moved ELSE r
           said == TellPart(texted, "reasoning_done", <<>>)
           quiet == [said EXCEPT !.inReasoning = FALSE]
           thought == IF r.inReasoning THEN quiet ELSE texted
           places == [i \in DOMAIN r.toolCalls |-> i]
           called == FoldLeft(CloseCall, thought, places)
           e == Full("completed", 0, TheMessage, 0, <<>>, BuildOutput(r))
           told == RTold(called, e)
<1>1. /\ {"text_done", "part_done", "item_done", "reasoning_done"}
           \subseteq QuietTypes
      /\ <<>> \in Seq(Tokens) /\ TheMessage \in Nat /\ 0 \in Nat
  BY DEF QuietTypes, EventTypes, TheMessage
<1>2. RFinish(r) = [told EXCEPT !.finished = TRUE]
  BY DEF RFinish
<1>3. Like(t1) /\ t1.outputIndex = 0
  BY <1>1, TellPartIs DEF RSame, RAlike
<1> HIDE DEF t1
<1>4. Like(t2) /\ t2.outputIndex = 0
  BY <1>1, <1>3, TellPartIs DEF RSame, RAlike
<1> HIDE DEF t2
<1>5. Like(t3) /\ t3.outputIndex = 0
  <2>1. "item_done" \in QuietTypes /\ r.outputIndex \in Nat
        /\ TheMessage \in Nat
    BY <1>1
  <2>2. QED
    BY <1>4, <2>1, TellIs DEF RSame, RAlike
<1> HIDE DEF t3
<1>6. Like(moved)
  <2>1. moved = [t3 EXCEPT !.outputIndex = 1]
    BY <1>5 DEF ResponsesTranslators
  <2> HIDE DEF moved, CallStates, ResponseReaders
  <2>2. QED
    BY <1>5, <2>1 DEF ResponsesTranslators
<1> HIDE DEF moved
<1>7. Like(texted)
  BY <1>6
<1> HIDE DEF texted
<1>8. Like(said)
  BY <1>1, <1>7, TellPartIs DEF RSame, RAlike
<1> HIDE DEF said
<1>9. Like(quiet)
  BY <1>8, RFieldsSet DEF RSame, RAlike
<1> HIDE DEF quiet
<1>10. Like(thought)
  BY <1>7, <1>9
<1> HIDE DEF thought
<1>11. r.toolCalls \in Seq(CallStates) /\ Len(r.toolCalls) \in Nat
       /\ DOMAIN r.toolCalls = 1 .. Len(r.toolCalls)
  BY DEF ResponsesTranslators
<1>12. Like(called)
  <2> DEFINE S == {x \in ResponsesTranslators : Like(x)}
             E == DOMAIN r.toolCalls
  <2>1. places \in Seq(E) /\ thought \in S
    BY <1>10, <1>11
  <2>2. ASSUME NEW x \in S, NEW i \in E PROVE CloseCall(x, i) \in S
    BY CloseCallIs DEF RSame, RAlike
  <2> HIDE DEF S, E, places
  <2>3. called \in S
    BY <2>1, <2>2, CloseCallFold
  <2>4. QED
    BY <2>3 DEF S
<1> HIDE DEF called
<1>13. e \in ResponseEvents /\ e.type = "completed"
  <2>1. BuildOutput(r) \in Seq(Nat)
    <3>1. places \in Seq(Nat)
      BY <1>11
    <3>2. <<TheMessage>> \in Seq(Nat) /\ <<>> \in Seq(Nat)
      BY <1>1
    <3> DEFINE first == IF r.hasText THEN <<TheMessage>> ELSE <<>>
    <3>3. BuildOutput(r) = first \o places
      BY DEF BuildOutput
    <3>4. first \in Seq(Nat)
      BY <3>2
    <3> HIDE DEF first, places
    <3>5. QED
      BY <3>1, <3>3, <3>4
  <2>2. <<>> \in Seq(AllTokens)
    OBVIOUS
  <2>3. "completed" \in EventTypes
    BY DEF QuietTypes, EventTypes
  <2>4. QED
    BY <1>1, <2>1, <2>2, <2>3 DEF Full, ResponseEvents
<1> HIDE DEF e
<1>14. /\ told \in ResponsesTranslators /\ told.started = r.started
       /\ told.client.ends = r.client.ends + 1 /\ told.toolCalls = r.toolCalls
       /\ told.client.text = r.client.text
  BY <1>12, <1>13, RToldIs
<1> HIDE DEF told
<1>15. LET q == [told EXCEPT !.finished = TRUE]
       IN /\ q \in ResponsesTranslators /\ q.finished /\ q.started = told.started
          /\ q.client = told.client /\ q.toolCalls = told.toolCalls
  <2> HIDE DEF CallStates, ResponseReaders
  <2>1. QED
    BY <1>14 DEF ResponsesTranslators
<1>16. QED
  BY <1>2, <1>14, <1>15

LEMMA ResponsesChunkIs ==
  ASSUME NEW r \in ResponsesTranslators, ~r.finished => r.outputIndex = 0,
         NEW pieces \in Seq(NormalizedPieces), NEW calls \in Seq(ToolCalls),
         NEW finish \in BOOLEAN
  PROVE  LET q == ResponsesChunk(r, pieces, calls, finish)
             ends == finish /\ ~r.finished
         IN /\ q \in ResponsesTranslators /\ q.started
            /\ q.finished = (r.finished \/ finish)
            /\ ~q.finished => q.outputIndex = 0
            /\ q.client.ends = IF ends THEN r.client.ends + 1 ELSE r.client.ends
            /\ Len(calls) <= 1 => Len(q.toolCalls) <= Len(r.toolCalls) + Len(calls)
<1> DEFINE lit == [r EXCEPT !.started = TRUE]
           created == Tell(lit, "created", 0, TheMessage)
           begun == IF r.started THEN r ELSE created
           said == FoldLeft(RPiece, begun, pieces)
           told == RToolDeltas(said, calls)
           q == ResponsesChunk(r, pieces, calls, finish)
<1>1. /\ lit \in ResponsesTranslators /\ lit.started /\ lit.client = r.client
      /\ lit.finished = r.finished /\ lit.outputIndex = r.outputIndex
      /\ lit.toolCalls = r.toolCalls
  <2> HIDE DEF CallStates, ResponseReaders
  <2>1. QED
    BY DEF ResponsesTranslators
<1>2. q = IF finish /\ ~told.finished THEN RFinish(told) ELSE told
  BY DEF ResponsesChunk
<1> HIDE DEF lit
<1>3. created \in ResponsesTranslators /\ RSame(lit, created)
      /\ created.toolCalls = lit.toolCalls
  <2>1. "created" \in QuietTypes /\ TheMessage \in Nat /\ 0 \in Nat
    BY DEF QuietTypes, EventTypes, TheMessage
  <2>2. QED
    BY <1>1, <2>1, TellIs
<1> HIDE DEF created
<1>4. /\ begun \in ResponsesTranslators /\ begun.started /\ begun.finished = r.finished
      /\ begun.outputIndex = r.outputIndex /\ begun.client.ends = r.client.ends
      /\ begun.toolCalls = r.toolCalls
  BY <1>1, <1>3 DEF RSame, RAlike
<1> HIDE DEF begun
<1>5. said \in ResponsesTranslators /\ RAlike(begun, said)
      /\ said.toolCalls = begun.toolCalls
  BY <1>4, RPiecesAre
<1> HIDE DEF said
<1>6. /\ told \in ResponsesTranslators /\ RSame(said, told)
      /\ Len(calls) <= 1 => Len(told.toolCalls) <= Len(said.toolCalls) + Len(calls)
  BY <1>5, RToolDeltasAre
<1> HIDE DEF told
<1>7. /\ told.started /\ told.finished = r.finished /\ told.client.ends = r.client.ends
      /\ ~told.finished => told.outputIndex = 0
      /\ Len(calls) <= 1 => Len(told.toolCalls) <= Len(r.toolCalls) + Len(calls)
  BY <1>4, <1>5, <1>6 DEF RSame, RAlike
<1>8. told.finished \in BOOLEAN /\ r.finished \in BOOLEAN
  BY <1>6 DEF ResponsesTranslators
<1> HIDE DEF q
<1>9. CASE finish /\ ~told.finished
  <2>1. /\ RFinish(told) \in ResponsesTranslators /\ RFinish(told).finished
        /\ RFinish(told).started = told.started
        /\ RFinish(told).client.ends = told.client.ends + 1
        /\ RFinish(told).toolCalls = told.toolCalls
    BY <1>6, <1>7, <1>9, RFinishIs
  <2>2. QED
    BY <1>2, <1>7, <1>8, <1>9, <2>1 DEF q
<1>10. CASE ~(finish /\ ~told.finished)
  <2>1. q = told
    BY <1>2, <1>10
  <2>2. q.finished = (r.finished \/ finish)
    BY <1>7, <1>8, <1>10, <2>1
  <2>3. QED
    BY <1>6, <1>7, <1>10, <2>1, <2>2 DEF q
<1>11. QED
  BY <1>9, <1>10

LEMMA ResponsesFlushIs ==
  ASSUME NEW r \in ResponsesTranslators, ~r.finished => r.outputIndex = 0,
         NEW pieces \in Seq(NormalizedPieces)
  PROVE  LET q == ResponsesFlush(r, pieces)
         IN /\ q \in ResponsesTranslators /\ q.finished /\ q.started = r.started
            /\ q.toolCalls = r.toolCalls
            /\ q.client.ends = IF r.finished THEN r.client.ends ELSE r.client.ends + 1
<1> DEFINE told == FoldLeft(RPiece, r, pieces)
<1>1. told \in ResponsesTranslators /\ RAlike(r, told) /\ told.toolCalls = r.toolCalls
  BY RPiecesAre
<1>2. ResponsesFlush(r, pieces) = IF told.finished THEN told ELSE RFinish(told)
  BY DEF ResponsesFlush
<1> HIDE DEF told
<1>3. CASE told.finished
  BY <1>1, <1>2, <1>3 DEF RSame, RAlike
<1>4. CASE ~told.finished
  <2>1. told.outputIndex = 0 /\ ~r.finished
    BY <1>1, <1>4 DEF RSame, RAlike
  <2>2. /\ RFinish(told) \in ResponsesTranslators /\ RFinish(told).finished
        /\ RFinish(told).started = told.started
        /\ RFinish(told).client.ends = told.client.ends + 1
        /\ RFinish(told).toolCalls = told.toolCalls
    BY <1>1, <2>1, RFinishIs
  <2>3. QED
    BY <1>1, <1>2, <1>4, <2>1, <2>2 DEF RSame, RAlike
<1>5. QED
  BY <1>3, <1>4

-----------------------------------------------------------------------------
(*****************************************************************************)
(* The normalizer: its records, and the loop over a chunk, whose runs are    *)
(* one longer than another up to the number of tokens.                       *)
(*****************************************************************************)

Normalizers ==
  [inThinkTag : BOOLEAN, tagBuffer : Seq(Tokens), openTagBuffer : Seq(Tokens),
   hasReasoning : BOOLEAN, out : Seq(NormalizedPieces), remaining : Seq(Tokens)]

\* The runs of the loop: the first has all the tokens, and each has what the
\* one before left.
LEMMA ParseRuns ==
  ASSUME NEW S, NEW n, NEW X, NEW tokens \in Seq(X), Continue(n, tokens) \in S,
         \A x \in S : Pass(x) \in S
  PROVE  \E g \in [0 .. Len(tokens) -> S] :
           /\ g[0] = Continue(n, tokens)
           /\ \A i \in 1 .. Len(tokens) : g[i] = Pass(g[i - 1])
           /\ Parse(n, tokens) = g[Len(tokens)]
<1> DEFINE k == Len(tokens)
           b == Continue(n, tokens)
           F == [p \in S \X (1 .. k) |-> Pass(p[1])]
           G(pass) == pass = [i \in 0 .. k |-> IF i = 0 THEN b ELSE Pass(pass[i - 1])]
           c == CHOOSE pass : G(pass)
<1>1. k \in Nat
  OBVIOUS
<1>2. Parse(n, tokens) = c[k]
  BY DEF Parse
<1>3. F \in [S \X (1 .. k) -> S] /\ \A x \in S, i \in 1 .. k : F[<<x, i>>] = Pass(x)
  OBVIOUS
<1>4. b \in S
  OBVIOUS
<1> HIDE DEF F, b, k
<1>5. PICK it \in [SUBSET (1 .. k) -> S] : FoldOf(it, F, b, k)
  BY <1>1, <1>3, <1>4, FoldExists
<1> DEFINE h == [i \in 0 .. k |-> it[1 .. i]]
<1>6. h \in [0 .. k -> S] /\ h[0] = b
  <2>1. \A i \in 0 .. k : 1 .. i \in SUBSET (1 .. k)
    BY <1>1
  <2>2. 1 .. 0 = {} /\ {} \in SUBSET (1 .. k) /\ 0 \in 0 .. k
    BY <1>1
  <2>3. it[{}] = b
    BY <1>5, <2>2 DEF FoldOf
  <2>4. \A i \in 0 .. k : h[i] \in S
    BY <1>5, <2>1
  <2>5. h[0] = b
    BY <2>2, <2>3
  <2>6. QED
    BY <2>4, <2>5
<1>7. ASSUME NEW i \in 1 .. k PROVE h[i] = Pass(h[i - 1])
  <2>1. i \in 0 .. k /\ i - 1 \in 0 .. k /\ i \in Nat \ {0}
    BY <1>1
  <2>2. Max(1 .. i) = i /\ (1 .. i) \ {i} = 1 .. (i - 1) /\ 1 .. i # {}
    BY <2>1, LastPlace
  <2>3. 1 .. i \in SUBSET (1 .. k) /\ 1 .. (i - 1) \in SUBSET (1 .. k)
    BY <1>1
  <2>4. it[1 .. i] = F[<<it[1 .. (i - 1)], i>>]
    BY <1>5, <2>2, <2>3 DEF FoldOf
  <2>5. it[1 .. (i - 1)] \in S
    BY <1>5, <2>3
  <2>6. QED
    BY <1>3, <2>1, <2>4, <2>5
<1>8. G(h)
  <2>1. \A i \in 0 .. k : h[i] = IF i = 0 THEN b ELSE Pass(h[i - 1])
    <3> SUFFICES ASSUME NEW i \in 0 .. k PROVE h[i] = IF i = 0 THEN b ELSE Pass(h[i - 1])
      OBVIOUS
    <3> HIDE DEF h
    <3>1. i = 0 \/ i \in 1 .. k
      BY <1>1
    <3>2. QED
      BY <1>6, <1>7, <3>1
  <2> DEFINE h2 == [i \in 0 .. k |-> IF i = 0 THEN b ELSE Pass(h[i - 1])]
  <2>2. h = h2
    BY <2>1
  <2>3. QED
    BY <2>2
<1>9. G(c)
  <2> HIDE DEF h, G
  <2>1. QED
    BY <1>8
<1>10. c = h
  <2> HIDE DEF h
  <2>1. c = [i \in 0 .. k |-> IF i = 0 THEN b ELSE Pass(c[i - 1])]
    BY <1>9
  <2> HIDE DEF c, G
  <2>2. c[0] = b /\ \A i \in 1 .. k : c[i] = Pass(c[i - 1])
    <3>1. 0 \in 0 .. k /\ \A i \in 1 .. k : i \in 0 .. k /\ i # 0
      BY <1>1
    <3>2. QED
      BY <2>1, <3>1
  <2> DEFINE U == {i \in Nat : i <= k => c[i] = h[i]}
  <2>3. 0 \in U
    BY <1>6, <2>2
  <2>4. ASSUME NEW i \in U PROVE i + 1 \in U
    <3> SUFFICES ASSUME i + 1 <= k PROVE c[i + 1] = h[i + 1]
      OBVIOUS
    <3>1. i + 1 \in 1 .. k /\ (i + 1) - 1 = i /\ i <= k
      BY <1>1
    <3>2. c[i + 1] = Pass(c[(i + 1) - 1]) /\ h[i + 1] = Pass(h[(i + 1) - 1])
      BY <1>7, <2>2, <3>1
    <3>3. QED
      BY <3>1, <3>2
  <2>5. U = Nat
    <3> HIDE DEF U
    <3>1. U \in SUBSET Nat
      BY DEF U
    <3>2. QED
      BY <2>3, <2>4, <3>1, NumbersByInduction
  <2>6. \A i \in 0 .. k : c[i] = h[i]
    BY <1>1, <2>5
  <2>7. h = [i \in 0 .. k |-> h[i]]
    BY <1>6
  <2>8. QED
    BY <2>1, <2>6, <2>7
<1>11. Parse(n, tokens) = h[k]
  BY <1>2, <1>10
<1> HIDE DEF h
<1>12. QED
  BY <1>6, <1>7, <1>11 DEF b, k

\* A tag is found where it comes first.
LEMMA FindIs ==
  ASSUME NEW X, NEW tag, NEW s \in Seq(X)
  PROVE  /\ Find(tag, s) \in 0 .. Len(s)
         /\ Find(tag, s) # 0 => s[Find(tag, s)] = tag
         /\ Find(tag, s) = 0 <=> \A i \in DOMAIN s : s[i] # tag
         /\ \A i \in DOMAIN s : s[i] = tag => Find(tag, s) <= i
<1> DEFINE places == {i \in DOMAIN s : s[i] = tag}
<1>1. CASE places = {}
  BY <1>1 DEF Find
<1>2. CASE places # {}
  <2>1. places \in SUBSET Nat
    OBVIOUS
  <2>2. PICK x \in places : \A y \in places : x <= y
    <3> HIDE DEF places
    <3>1. QED
      BY <1>2, <2>1, Least
  <2>3. Min(places) \in places /\ \A y \in places : Min(places) <= y
    BY <2>2 DEF Min
  <2>4. Find(tag, s) = Min(places)
    BY <1>2 DEF Find
  <2>5. QED
    BY <2>3, <2>4
<1>3. QED
  BY <1>1, <1>2

LEMMA PartsAre ==
  ASSUME NEW X, NEW s \in Seq(X), NEW i \in 1 .. Len(s)
  PROVE  /\ Before(s, i) \in Seq(X) /\ After(s, i) \in Seq(X)
         /\ Len(After(s, i)) = Len(s) - i
         /\ \A j \in 1 .. Len(s) - i : After(s, i)[j] = s[i + j]
  BY DEF Before, After

\* Behind a place behind a place.
LEMMA AfterAfter ==
  ASSUME NEW X, NEW s \in Seq(X), NEW i \in 1 .. Len(s),
         NEW j \in 1 .. Len(After(s, i))
  PROVE  /\ i + j \in 1 .. Len(s) /\ s[i + j] = After(s, i)[j]
         /\ After(After(s, i), j) = After(s, i + j)
<1>1. /\ After(s, i) \in Seq(X) /\ Len(After(s, i)) = Len(s) - i
      /\ \A x \in 1 .. Len(s) - i : After(s, i)[x] = s[i + x]
  BY PartsAre
<1>2. i + j \in 1 .. Len(s)
  BY <1>1
<1> DEFINE t == After(s, i)
<1> HIDE DEF t
<1>3. /\ After(t, j) \in Seq(X) /\ Len(After(t, j)) = Len(t) - j
      /\ \A x \in 1 .. Len(t) - j : After(t, j)[x] = t[j + x]
  BY <1>1, PartsAre DEF t
<1>4. /\ After(s, i + j) \in Seq(X) /\ Len(After(s, i + j)) = Len(s) - (i + j)
      /\ \A x \in 1 .. Len(s) - (i + j) : After(s, i + j)[x] = s[(i + j) + x]
  BY <1>2, PartsAre
<1>5. Len(After(t, j)) = Len(After(s, i + j))
  <2>1. Len(After(t, j)) = Len(t) - j /\ Len(t) = Len(s) - i /\ Len(s) \in Nat
        /\ i \in Int /\ j \in Int
    BY <1>1, <1>3 DEF t
  <2>2. (Len(s) - i) - j = Len(s) - (i + j)
    BY <2>1
  <2>3. QED
    BY <1>4, <2>1, <2>2
<1>6. ASSUME NEW x \in 1 .. Len(After(t, j)) PROVE After(t, j)[x] = After(s, i + j)[x]
  <2>1. x \in 1 .. Len(t) - j /\ j + x \in 1 .. Len(s) - i /\ x \in 1 .. Len(s) - (i + j)
    BY <1>1, <1>3 DEF t
  <2>2. i + (j + x) = (i + j) + x
    BY <2>1
  <2>3. After(t, j)[x] = t[j + x] /\ t[j + x] = s[i + (j + x)]
    BY <1>1, <1>3, <2>1 DEF t
  <2>4. QED
    BY <1>4, <2>1, <2>2, <2>3
<1>7. After(t, j) = After(s, i + j)
  BY <1>3, <1>4, <1>5, <1>6, SeqEqual
<1>8. QED
  BY <1>1, <1>2, <1>7 DEF t

\* What a run of the loop does besides emitting.
NormalizerSame(n, q) ==
  /\ q.inThinkTag = n.inThinkTag /\ q.tagBuffer = n.tagBuffer
  /\ q.openTagBuffer = n.openTagBuffer /\ q.remaining = n.remaining

LEMMA EmitIs ==
  ASSUME NEW n \in Normalizers, NEW kind \in {"content", "reasoning"},
         NEW tokens \in Seq(Tokens)
  PROVE  /\ Emit(n, kind, tokens) \in Normalizers
         /\ NormalizerSame(n, Emit(n, kind, tokens))
         /\ EmitTagged(n, tokens) \in Normalizers
         /\ NormalizerSame(n, EmitTagged(n, tokens))
<1>1. ASSUME NEW k \in {"content", "reasoning"}
      PROVE  Emit(n, k, tokens) \in Normalizers /\ NormalizerSame(n, Emit(n, k, tokens))
  <2> DEFINE p == [kind |-> k, tokens |-> tokens]
  <2>1. p \in NormalizedPieces
    BY DEF NormalizedPieces
  <2>2. Emit(n, k, tokens) = IF tokens = <<>> THEN n ELSE [n EXCEPT !.out = Append(@, p)]
    BY DEF Emit
  <2> HIDE DEF p, NormalizedPieces
  <2> DEFINE more == Append(n.out, p)
             q == [n EXCEPT !.out = more]
  <2>3. more \in Seq(NormalizedPieces)
    BY <2>1 DEF Normalizers
  <2> HIDE DEF more
  <2>4. q \in Normalizers /\ NormalizerSame(n, q)
    BY <2>3 DEF NormalizerSame, Normalizers
  <2>5. Emit(n, k, tokens) \in {n, q}
    BY <2>2 DEF more
  <2> HIDE DEF q
  <2>6. QED
    BY <2>4, <2>5 DEF NormalizerSame
<1>2. EmitTagged(n, tokens) \in {n, Emit(n, "reasoning", tokens)}
  BY DEF EmitTagged
<1>3. QED
  BY <1>1, <1>2 DEF NormalizerSame

LEMMA LeaveTagIs ==
  ASSUME NEW n \in Normalizers, NEW tokens \in Seq(Tokens)
  PROVE  LET q == LeaveTag(n, tokens)
         IN /\ q \in Normalizers /\ ~q.inThinkTag /\ q.tagBuffer = <<>>
            /\ q.openTagBuffer = n.openTagBuffer /\ q.remaining = n.remaining
<1> DEFINE s == n.tagBuffer \o tokens
           told == EmitTagged(n, s)
<1>1. s \in Seq(Tokens)
  BY DEF Normalizers
<1> HIDE DEF s
<1>2. told \in Normalizers /\ NormalizerSame(n, told)
  BY <1>1, EmitIs
<1>3. LeaveTag(n, tokens) = [told EXCEPT !.tagBuffer = <<>>, !.inThinkTag = FALSE]
  BY DEF LeaveTag, s
<1> HIDE DEF told, NormalizedPieces
<1>4. <<>> \in Seq(Tokens)
  OBVIOUS
<1>5. LeaveTag(n, tokens) \in Normalizers
  BY <1>2, <1>3, <1>4 DEF Normalizers
<1>6. LET q == LeaveTag(n, tokens)
      IN /\ ~q.inThinkTag /\ q.tagBuffer = <<>>
         /\ q.openTagBuffer = told.openTagBuffer /\ q.remaining = told.remaining
  BY <1>2, <1>3 DEF Normalizers
<1>7. QED
  BY <1>2, <1>5, <1>6 DEF NormalizerSame

LEMMA RemainingSet ==
  ASSUME NEW n \in Normalizers, NEW t \in Seq(Tokens)
  PROVE  LET q == [n EXCEPT !.remaining = t]
         IN /\ q \in Normalizers /\ q.remaining = t
            /\ q.inThinkTag = n.inThinkTag /\ q.tagBuffer = n.tagBuffer
            /\ q.openTagBuffer = n.openTagBuffer
<1> HIDE DEF NormalizedPieces
<1>1. QED
  BY DEF Normalizers

LEMMA ContinueIs ==
  ASSUME NEW n \in Normalizers, NEW tokens \in Seq(Tokens)
  PROVE  LET q == Continue(n, tokens)
         IN /\ q \in Normalizers /\ q.remaining = tokens
            /\ q.inThinkTag = n.inThinkTag /\ q.tagBuffer = n.tagBuffer
            /\ q.openTagBuffer = n.openTagBuffer
<1> HIDE DEF Normalizers
<1>1. QED
  BY RemainingSet DEF Continue

LEMMA ReturnIs ==
  ASSUME NEW n \in Normalizers
  PROVE  LET q == Return(n)
         IN /\ q \in Normalizers /\ q.remaining = <<>>
            /\ q.inThinkTag = n.inThinkTag /\ q.tagBuffer = n.tagBuffer
            /\ q.openTagBuffer = n.openTagBuffer
<1>1. ASSUME NEW none \in Seq(Tokens), none = <<>>
      PROVE  LET q == Return(n)
             IN /\ q \in Normalizers /\ q.remaining = none
                /\ q.inThinkTag = n.inThinkTag /\ q.tagBuffer = n.tagBuffer
                /\ q.openTagBuffer = n.openTagBuffer
  <2>1. Return(n) = [n EXCEPT !.remaining = none]
    BY <1>1 DEF Return
  <2> HIDE DEF Normalizers
  <2>2. QED
    BY <2>1, RemainingSet
<1>2. <<>> \in Seq(Tokens)
  OBVIOUS
<1>3. QED
  BY <1>1, <1>2

\* What a run of the loop may find: that the passage goes on, that one ends,
\* that there is none, or that one opens.
Stays(n, q) ==
  /\ n.inThinkTag /\ \A i \in DOMAIN n.remaining : n.remaining[i] # "close"
  /\ q.remaining = <<>> /\ q.inThinkTag /\ q.openTagBuffer = n.openTagBuffer

Closes(n, q) ==
  \E c \in 1 .. Len(n.remaining) :
    /\ n.remaining[c] = "close" /\ q.remaining = After(n.remaining, c)
    /\ ~q.inThinkTag /\ q.openTagBuffer = n.openTagBuffer
    /\ q.tagBuffer = IF n.inThinkTag THEN <<>> ELSE n.tagBuffer

NoTag(n, q) ==
  /\ ~n.inThinkTag
  /\ \A i \in DOMAIN n.remaining : n.remaining[i] \notin {"open", "close"}
  /\ q.remaining = <<>> /\ ~q.inThinkTag /\ q.tagBuffer = n.tagBuffer
  /\ q.openTagBuffer = IF Last(n.remaining) = "open1" THEN n.remaining
                       ELSE n.openTagBuffer

Opens(n, q) ==
  \E o \in 1 .. Len(n.remaining) :
    /\ n.remaining[o] = "open"
    /\ \A i \in DOMAIN After(n.remaining, o) : After(n.remaining, o)[i] # "close"
    /\ q.remaining = <<>> /\ q.inThinkTag /\ q.openTagBuffer = n.openTagBuffer

LEMMA InsidePassIs ==
  ASSUME NEW n \in Normalizers, n.inThinkTag
  PROVE  LET q == InsidePass(n) IN q \in Normalizers /\ (Stays(n, q) \/ Closes(n, q))
<1> DEFINE r == n.remaining
           close == Find("close", r)
<1>1. r \in Seq(Tokens) /\ n.tagBuffer \in Seq(Tokens)
  BY DEF Normalizers
<1>2. /\ close \in 0 .. Len(r) /\ (close # 0 => r[close] = "close")
      /\ close = 0 <=> \A i \in DOMAIN r : r[i] # "close"
  BY <1>1, FindIs
<1> HIDE DEF close, NormalizedPieces
<1>3. CASE close = 0
  <2> DEFINE buffer == n.tagBuffer \o r
             kept == [n EXCEPT !.tagBuffer = buffer]
  <2>1. buffer \in Seq(Tokens)
    BY <1>1
  <2>2. InsidePass(n) = Return(kept)
    BY <1>3 DEF InsidePass, close
  <2> HIDE DEF buffer
  <2>3. kept \in Normalizers /\ kept.inThinkTag /\ kept.openTagBuffer = n.openTagBuffer
    BY <2>1 DEF Normalizers
  <2> HIDE DEF kept
  <2>4. /\ Return(kept) \in Normalizers /\ Return(kept).remaining = <<>>
        /\ Return(kept).inThinkTag /\ Return(kept).openTagBuffer = n.openTagBuffer
    BY <2>3, ReturnIs
  <2>5. QED
    BY <1>2, <1>3, <2>2, <2>4 DEF Stays
<1>4. CASE close # 0
  <2> DEFINE left == LeaveTag(n, Before(r, close))
             rest == After(r, close)
  <2>1. close \in 1 .. Len(r)
    BY <1>2, <1>4
  <2>2. Before(r, close) \in Seq(Tokens) /\ rest \in Seq(Tokens)
    BY <1>1, <2>1, PartsAre
  <2>3. /\ left \in Normalizers /\ ~left.inThinkTag /\ left.tagBuffer = <<>>
        /\ left.openTagBuffer = n.openTagBuffer
    BY <2>2, LeaveTagIs
  <2>4. InsidePass(n) = Continue(left, rest)
    BY <1>4 DEF InsidePass, close
  <2> HIDE DEF left
  <2>5. LET q == Continue(left, rest)
        IN /\ q \in Normalizers /\ q.remaining = rest /\ ~q.inThinkTag
           /\ q.tagBuffer = <<>> /\ q.openTagBuffer = n.openTagBuffer
    BY <2>2, <2>3, ContinueIs
  <2>6. Closes(n, InsidePass(n))
    BY <1>2, <1>4, <2>1, <2>4, <2>5 DEF Closes
  <2>7. QED
    BY <2>4, <2>5, <2>6
<1>5. QED
  BY <1>3, <1>4

LEMMA PlainPassIs ==
  ASSUME NEW n \in Normalizers, ~n.inThinkTag,
         \A i \in DOMAIN n.remaining : n.remaining[i] \notin {"open", "close"}
  PROVE  LET q == PlainPass(n) IN q \in Normalizers /\ NoTag(n, q)
<1> DEFINE r == n.remaining
           kept == [n EXCEPT !.openTagBuffer = r]
           told == Emit(n, "content", r)
<1>1. r \in Seq(Tokens)
  BY DEF Normalizers
<1>2. told \in Normalizers /\ NormalizerSame(n, told)
  BY <1>1, EmitIs
<1> HIDE DEF told, NormalizedPieces
<1>3. /\ kept \in Normalizers /\ kept.inThinkTag = n.inThinkTag
      /\ kept.tagBuffer = n.tagBuffer /\ kept.openTagBuffer = r
  BY DEF Normalizers
<1>4. PlainPass(n) = IF Last(r) = "open1" THEN Return(kept) ELSE Return(told)
  BY DEF PlainPass, IncompleteOpenTag, told
<1> HIDE DEF kept
<1>5. LET q == Return(kept)
      IN /\ q \in Normalizers /\ q.remaining = <<>> /\ q.inThinkTag = n.inThinkTag
         /\ q.tagBuffer = n.tagBuffer /\ q.openTagBuffer = r
  BY <1>3, ReturnIs
<1>6. LET q == Return(told)
      IN /\ q \in Normalizers /\ q.remaining = <<>> /\ q.inThinkTag = n.inThinkTag
         /\ q.tagBuffer = n.tagBuffer /\ q.openTagBuffer = n.openTagBuffer
  BY <1>2, ReturnIs DEF NormalizerSame
<1>7. QED
  BY <1>4, <1>5, <1>6 DEF NoTag

LEMMA OpeningPassIs ==
  ASSUME NEW n \in Normalizers, ~n.inThinkTag, NEW o \in 1 .. Len(n.remaining),
         n.remaining[o] = "open"
  PROVE  LET q == OpeningPass(n, o) IN q \in Normalizers /\ (Opens(n, q) \/ Closes(n, q))
<1> DEFINE r == n.remaining
           told == Emit(n, "content", Before(r, o))
           inside == After(r, o)
           close == Find("close", inside)
<1>1. r \in Seq(Tokens)
  BY DEF Normalizers
<1>2. Before(r, o) \in Seq(Tokens) /\ inside \in Seq(Tokens)
  BY <1>1, PartsAre
<1>3. told \in Normalizers /\ NormalizerSame(n, told)
  BY <1>2, EmitIs
<1>4. OpeningPass(n, o) =
        IF close = 0 THEN Return([told EXCEPT !.inThinkTag = TRUE, !.tagBuffer = inside])
        ELSE Continue(EmitTagged(told, Before(inside, close)), After(inside, close))
  BY DEF OpeningPass
<1> HIDE DEF inside
<1>5. /\ close \in 0 .. Len(inside) /\ (close # 0 => inside[close] = "close")
      /\ close = 0 <=> \A i \in DOMAIN inside : inside[i] # "close"
  BY <1>2, FindIs
<1> HIDE DEF told, close, NormalizedPieces
<1>6. CASE close = 0
  <2> DEFINE kept == [told EXCEPT !.inThinkTag = TRUE, !.tagBuffer = inside]
  <2>1. kept \in Normalizers
    BY <1>2, <1>3 DEF Normalizers
  <2>2. kept.inThinkTag /\ kept.openTagBuffer = n.openTagBuffer
    BY <1>3 DEF Normalizers, NormalizerSame
  <2> HIDE DEF kept
  <2>3. /\ Return(kept) \in Normalizers /\ Return(kept).remaining = <<>>
        /\ Return(kept).inThinkTag /\ Return(kept).openTagBuffer = n.openTagBuffer
    BY <2>1, <2>2, ReturnIs
  <2>4. OpeningPass(n, o) = Return(kept)
    BY <1>4, <1>6 DEF kept
  <2>5. QED
    BY <1>5, <1>6, <2>3, <2>4 DEF Opens, inside
<1>7. CASE close # 0
  <2> DEFINE left == EmitTagged(told, Before(inside, close))
             rest == After(inside, close)
  <2>1. close \in 1 .. Len(inside)
    BY <1>2, <1>5, <1>7
  <2>2. Before(inside, close) \in Seq(Tokens) /\ rest \in Seq(Tokens)
    BY <1>2, <2>1, PartsAre
  <2>3. left \in Normalizers /\ NormalizerSame(n, left)
    BY <1>3, <2>2, EmitIs DEF NormalizerSame
  <2>4. OpeningPass(n, o) = Continue(left, rest)
    BY <1>4, <1>7
  <2> HIDE DEF left
  <2>5. LET q == Continue(left, rest)
        IN /\ q \in Normalizers /\ q.remaining = rest /\ ~q.inThinkTag
           /\ q.tagBuffer = n.tagBuffer /\ q.openTagBuffer = n.openTagBuffer
    BY <2>2, <2>3, ContinueIs DEF NormalizerSame
  <2>6. o + close \in 1 .. Len(r) /\ r[o + close] = "close" /\ rest = After(r, o + close)
    BY <1>1, <1>5, <1>7, <2>1, AfterAfter DEF inside
  <2>7. Closes(n, OpeningPass(n, o))
    BY <2>4, <2>5, <2>6 DEF Closes
  <2>8. QED
    BY <2>4, <2>5, <2>7
<1>8. QED
  BY <1>6, <1>7

\* A run with something to look at.
LEMMA PassIs ==
  ASSUME NEW n \in Normalizers, n.remaining # <<>>
  PROVE  LET q == Pass(n)
         IN /\ q \in Normalizers
            /\ Stays(n, q) \/ Closes(n, q) \/ NoTag(n, q) \/ Opens(n, q)
<1> DEFINE r == n.remaining
           open == Find("open", r)
           close == Find("close", r)
<1>1. r \in Seq(Tokens)
  BY DEF Normalizers
<1>2. /\ close \in 0 .. Len(r) /\ (close # 0 => r[close] = "close")
      /\ close = 0 <=> \A i \in DOMAIN r : r[i] # "close"
  BY <1>1, FindIs
<1>3. /\ open \in 0 .. Len(r) /\ (open # 0 => r[open] = "open")
      /\ open = 0 <=> \A i \in DOMAIN r : r[i] # "open"
  BY <1>1, FindIs
<1>4. /\ n.inThinkTag => Pass(n) = InsidePass(n)
      /\ ~n.inThinkTag => Pass(n) = IF close # 0 /\ open \notin 1 .. close
                                    THEN Continue(n, After(r, close))
                                    ELSE IF open = 0 THEN PlainPass(n)
                                    ELSE OpeningPass(n, open)
  BY DEF Pass, StandaloneClosing
<1> HIDE DEF open, close
<1>5. CASE n.inThinkTag
  BY <1>4, <1>5, InsidePassIs
<1>6. CASE ~n.inThinkTag /\ close # 0 /\ open \notin 1 .. close
  <2> DEFINE q == Continue(n, After(r, close))
  <2>1. close \in 1 .. Len(r)
    BY <1>2, <1>6
  <2>2. After(r, close) \in Seq(Tokens)
    BY <1>1, <2>1, PartsAre
  <2>3. /\ q \in Normalizers /\ q.remaining = After(r, close) /\ ~q.inThinkTag
        /\ q.tagBuffer = n.tagBuffer /\ q.openTagBuffer = n.openTagBuffer
    BY <1>6, <2>2, ContinueIs
  <2>4. Pass(n) = q
    BY <1>4, <1>6
  <2> HIDE DEF q
  <2>5. QED
    BY <1>2, <1>6, <2>1, <2>3, <2>4 DEF Closes
<1>7. CASE ~n.inThinkTag /\ ~(close # 0 /\ open \notin 1 .. close) /\ open = 0
  <2>1. close = 0
    BY <1>7
  <2>2. \A i \in DOMAIN r : r[i] \notin {"open", "close"}
    BY <1>2, <1>3, <1>7, <2>1
  <2>3. QED
    BY <1>4, <1>7, <2>2, PlainPassIs
<1>8. CASE ~n.inThinkTag /\ ~(close # 0 /\ open \notin 1 .. close) /\ open # 0
  <2>1. open \in 1 .. Len(r) /\ r[open] = "open"
    BY <1>3, <1>8
  <2>2. QED
    BY <1>4, <1>8, <2>1, OpeningPassIs
<1>9. QED
  BY <1>5, <1>6, <1>7, <1>8

-----------------------------------------------------------------------------
(*****************************************************************************)
(* Where the model is, and where the normalizer takes it to be: as long as   *)
(* no chunk ends inside a closing tag, the two agree after every chunk.      *)
(*****************************************************************************)

\* The moves of the model whose tags the loop is given whole.
Steps ==
  {<<"text", "text", "text">>, <<"text", "close", "text">>, <<"text", "open", "thought">>,
   <<"text", "open1", "opening">>, <<"opening", "text", "text">>,
   <<"thought", "thought", "thought">>, <<"thought", "close", "text">>}

\* Without closing tags that close nothing.
CleanSteps == Steps \ {<<"text", "close", "text">>}

\* Writing s takes the model from p to q, by steps of W.
Leads(W, p, s, q) ==
  \E g \in [0 .. Len(s) -> ModelPlaces] :
    /\ g[0] = p /\ g[Len(s)] = q
    /\ \A i \in 1 .. Len(s) : <<g[i - 1], s[i], g[i]>> \in W

PlaceOf(n) == IF n.inThinkTag THEN "thought" ELSE "text"

\* The normalizer has the model where it is, at e.
Settled(W, n, e) ==
  /\ n.inThinkTag <=> e = "thought"
  /\ n.openTagBuffer # <<>> <=> e = "opening"
  /\ e = "opening" => Leads(W, "text", n.openTagBuffer, "opening")
  /\ e # "closing"

\* What remains takes the model to e, or nothing remains and it is there.
Going(W, n, e) ==
  \/ n.openTagBuffer = <<>> /\ Leads(W, PlaceOf(n), n.remaining, e)
  \/ n.remaining = <<>> /\ Settled(W, n, e)

\* There is a passage's text in the buffer only inside a passage, and the start
\* of a tag only outside of one.
Buffered(n) ==
  /\ n.tagBuffer # <<>> => n.inThinkTag
  /\ n.openTagBuffer # <<>> =>
       n.remaining = <<>> /\ ~n.inThinkTag /\ Last(n.openTagBuffer) = "open1"

LEMMA StepsAre ==
  ASSUME NEW l, NEW x, NEW m, <<l, x, m>> \in Steps
  PROVE  /\ m \in ModelPlaces /\ m # "closing" /\ x \in Tokens
         /\ x = "close" => m = "text"
         /\ x = "open" => m = "thought"
         /\ l = "thought" /\ x # "close" => m = "thought"
         /\ l \in {"text", "opening"} /\ x # "open" => m \in {"text", "opening"}
         /\ x = "open1" <=> m = "opening"
  BY DEF Steps, ModelPlaces, Tokens

\* Writing on from the middle.
LEMMA LeadsOn ==
  ASSUME NEW W \in SUBSET Steps, NEW X, NEW s \in Seq(X), NEW p, NEW q,
         Leads(W, p, s, q), NEW i \in 1 .. Len(s)
  PROVE  \E m \in ModelPlaces :
           /\ Leads(W, m, After(s, i), q)
           /\ s[i] = "close" => m = "text"
           /\ s[i] = "open" => m = "thought"
<1>1. PICK g \in [0 .. Len(s) -> ModelPlaces] :
        /\ g[0] = p /\ g[Len(s)] = q
        /\ \A j \in 1 .. Len(s) : <<g[j - 1], s[j], g[j]>> \in W
  BY DEF Leads
<1> DEFINE t == After(s, i)
           k == Len(s) - i
           h == [j \in 0 .. k |-> g[i + j]]
<1>2. /\ t \in Seq(X) /\ Len(t) = k /\ k \in Nat /\ Len(s) \in Nat /\ i \in Nat
      /\ \A j \in 1 .. k : t[j] = s[i + j]
  <2>1. k \in Nat /\ Len(s) \in Nat /\ i \in Nat
    OBVIOUS
  <2>2. t \in Seq(X) /\ Len(t) = k /\ \A j \in 1 .. k : t[j] = s[i + j]
    BY PartsAre
  <2>3. QED
    BY <2>1, <2>2
<1> HIDE DEF t
<1>3. \A j \in 0 .. k : i + j \in 0 .. Len(s)
  BY <1>2
<1>4. h \in [0 .. k -> ModelPlaces] /\ h[0] = g[i] /\ h[k] = q
  <2>1. i + 0 = i /\ i + k = Len(s) /\ 0 \in 0 .. k /\ k \in 0 .. k
    BY <1>2
  <2> HIDE DEF k
  <2>2. \A j \in 0 .. k : h[j] \in ModelPlaces
    BY <1>1, <1>3
  <2>3. h[0] = g[i] /\ h[k] = q
    BY <1>1, <2>1
  <2>4. QED
    BY <2>2, <2>3
<1>5. ASSUME NEW j \in 1 .. k PROVE <<h[j - 1], t[j], h[j]>> \in W
  <2>1. /\ j - 1 \in 0 .. k /\ j \in 0 .. k /\ i + j \in 1 .. Len(s)
        /\ i + (j - 1) = (i + j) - 1
    BY <1>2
  <2>2. <<g[(i + j) - 1], s[i + j], g[i + j]>> \in W
    BY <1>1, <2>1
  <2>3. h[j - 1] = g[(i + j) - 1] /\ h[j] = g[i + j] /\ t[j] = s[i + j]
    <3> HIDE DEF k
    <3>1. h[j - 1] = g[i + (j - 1)] /\ h[j] = g[i + j]
      BY <2>1
    <3>2. QED
      BY <1>2, <2>1, <3>1
  <2>4. QED
    BY <2>2, <2>3, Zenon
<1> HIDE DEF h, k
<1>6. Leads(W, g[i], t, q)
  BY <1>2, <1>4, <1>5 DEF Leads
<1>7. <<g[i - 1], s[i], g[i]>> \in Steps
  BY <1>1
<1>8. QED
  BY <1>6, <1>7, StepsAre DEF t

\* A passage without a closing tag goes on.
LEMMA LeadsInside ==
  ASSUME NEW W \in SUBSET Steps, NEW X, NEW s \in Seq(X), NEW q, Leads(W, "thought", s, q),
         \A i \in DOMAIN s : s[i] # "close"
  PROVE  q = "thought"
<1>1. PICK g \in [0 .. Len(s) -> ModelPlaces] :
        /\ g[0] = "thought" /\ g[Len(s)] = q
        /\ \A j \in 1 .. Len(s) : <<g[j - 1], s[j], g[j]>> \in W
  BY DEF Leads
<1> DEFINE U == {i \in Nat : i <= Len(s) => g[i] = "thought"}
<1>2. 0 \in U
  BY <1>1
<1>3. ASSUME NEW i \in U PROVE i + 1 \in U
  <2> SUFFICES ASSUME i + 1 <= Len(s) PROVE g[i + 1] = "thought"
    OBVIOUS
  <2>1. i + 1 \in 1 .. Len(s) /\ (i + 1) - 1 = i /\ i <= Len(s)
    OBVIOUS
  <2>2. <<g[i], s[i + 1], g[i + 1]>> \in Steps /\ g[i] = "thought" /\ s[i + 1] # "close"
    BY <1>1, <2>1
  <2>3. QED
    BY <2>2, StepsAre
<1>4. U = Nat
  <2> HIDE DEF U
  <2>1. U \in SUBSET Nat
    BY DEF U
  <2>2. QED
    BY <1>2, <1>3, <2>1, NumbersByInduction
<1>5. QED
  BY <1>1, <1>4

\* Text without an opening tag goes on, up to the first half of one.
LEMMA LeadsPlain ==
  ASSUME NEW W \in SUBSET Steps, NEW X, NEW s \in Seq(X), s # <<>>, NEW q, Leads(W, "text", s, q),
         \A i \in DOMAIN s : s[i] # "open"
  PROVE  q = IF Last(s) = "open1" THEN "opening" ELSE "text"
<1>1. PICK g \in [0 .. Len(s) -> ModelPlaces] :
        /\ g[0] = "text" /\ g[Len(s)] = q
        /\ \A j \in 1 .. Len(s) : <<g[j - 1], s[j], g[j]>> \in W
  BY DEF Leads
<1> DEFINE U == {i \in Nat : i <= Len(s) => g[i] \in {"text", "opening"}}
<1>2. 0 \in U
  BY <1>1
<1>3. ASSUME NEW i \in U PROVE i + 1 \in U
  <2> SUFFICES ASSUME i + 1 <= Len(s) PROVE g[i + 1] \in {"text", "opening"}
    OBVIOUS
  <2>1. i + 1 \in 1 .. Len(s) /\ (i + 1) - 1 = i /\ i <= Len(s)
    OBVIOUS
  <2>2. /\ <<g[i], s[i + 1], g[i + 1]>> \in Steps /\ g[i] \in {"text", "opening"}
        /\ s[i + 1] # "open"
    BY <1>1, <2>1
  <2>3. QED
    BY <2>2, StepsAre
<1>4. U = Nat
  <2> HIDE DEF U
  <2>1. U \in SUBSET Nat
    BY DEF U
  <2>2. QED
    BY <1>2, <1>3, <2>1, NumbersByInduction
<1>5. Len(s) \in 1 .. Len(s) /\ Last(s) = s[Len(s)]
  BY EmptySeq DEF Last
<1>6. q \in {"text", "opening"}
  BY <1>1, <1>4, <1>5
<1>7. s[Len(s)] = "open1" <=> q = "opening"
  <2>1. <<g[Len(s) - 1], s[Len(s)], q>> \in Steps
    BY <1>1, <1>5
  <2>2. QED
    BY <2>1, StepsAre
<1>8. QED
  BY <1>5, <1>6, <1>7

\* One run of the loop keeps to where the model is going, and takes a token.
LEMMA PassKeeps ==
  ASSUME NEW W \in SUBSET Steps, NEW n \in Normalizers, Buffered(n), NEW e \in ModelPlaces
  PROVE  LET q == Pass(n)
         IN /\ q \in Normalizers /\ Buffered(q)
            /\ Going(W, n, e) => Going(W, q, e)
            /\ n.remaining = <<>> => q = n
            /\ n.remaining # <<>> => Len(q.remaining) < Len(n.remaining)
<1> DEFINE r == n.remaining
           q == Pass(n)
<1>1. r \in Seq(Tokens) /\ n.openTagBuffer \in Seq(Tokens) /\ n.inThinkTag \in BOOLEAN
  BY DEF Normalizers
<1>2. CASE r = <<>>
  <2>1. q = n
    BY <1>2 DEF Pass
  <2>2. QED
    BY <1>2, <2>1
<1>3. CASE r # <<>>
  <2>1. q \in Normalizers /\ (Stays(n, q) \/ Closes(n, q) \/ NoTag(n, q) \/ Opens(n, q))
    BY <1>3, PassIs
  <2>2. n.openTagBuffer = <<>>
    BY <1>3 DEF Buffered
  <2>3. Going(W, n, e) => Leads(W, PlaceOf(n), r, e)
    BY <1>3 DEF Going
  <2>4. Len(r) \in Nat /\ Len(r) # 0 /\ Len(<<>>) = 0
    BY <1>1, <1>3, EmptySeq
  <2> HIDE DEF q
  <2>5. CASE Stays(n, q)
    <3>1. /\ n.inThinkTag /\ (\A i \in DOMAIN r : r[i] # "close")
          /\ q.remaining = <<>> /\ q.inThinkTag /\ q.openTagBuffer = <<>>
      BY <2>2, <2>5 DEF Stays
    <3>2. Going(W, n, e) => e = "thought"
      <4>1. SUFFICES ASSUME Going(W, n, e) PROVE e = "thought"
        OBVIOUS
      <4>2. Leads(W, "thought", r, e)
        BY <2>3, <3>1, <4>1 DEF PlaceOf
      <4>3. QED
        BY <1>1, <3>1, <4>2, LeadsInside
    <3>3. Going(W, n, e) => Settled(W, q, e)
      BY <3>1, <3>2 DEF Settled
    <3>4. Buffered(q)
      BY <3>1 DEF Buffered
    <3>5. QED
      BY <1>3, <2>1, <2>4, <3>1, <3>3, <3>4 DEF Going, q
  <2>6. CASE Closes(n, q)
    <3>1. PICK c \in 1 .. Len(r) :
            /\ r[c] = "close" /\ q.remaining = After(r, c)
            /\ ~q.inThinkTag /\ q.openTagBuffer = <<>>
            /\ q.tagBuffer = IF n.inThinkTag THEN <<>> ELSE n.tagBuffer
      BY <2>2, <2>6 DEF Closes
    <3>2. Going(W, n, e) => Leads(W, "text", q.remaining, e)
      <4>1. SUFFICES ASSUME Going(W, n, e) PROVE Leads(W, "text", q.remaining, e)
        OBVIOUS
      <4>2. Leads(W, PlaceOf(n), r, e)
        BY <2>3, <4>1
      <4>3. PICK m \in ModelPlaces : Leads(W, m, After(r, c), e) /\ (r[c] = "close" => m = "text")
        BY <1>1, <4>2, LeadsOn
      <4>4. QED
        BY <3>1, <4>3
    <3>3. Going(W, n, e) => Going(W, q, e)
      BY <3>1, <3>2 DEF Going, PlaceOf
    <3>4. q.tagBuffer = <<>>
      BY <3>1 DEF Buffered
    <3>5. Buffered(q)
      BY <3>1, <3>4 DEF Buffered
    <3>6. Len(After(r, c)) = Len(r) - c
      BY <1>1, PartsAre
    <3>7. Len(q.remaining) < Len(r)
      BY <2>4, <3>1, <3>6
    <3>8. QED
      BY <1>3, <2>1, <3>3, <3>5, <3>7 DEF q
  <2>7. CASE NoTag(n, q)
    <3>1. /\ ~n.inThinkTag /\ (\A i \in DOMAIN r : r[i] # "open")
          /\ q.remaining = <<>> /\ ~q.inThinkTag /\ q.tagBuffer = n.tagBuffer
          /\ q.openTagBuffer = IF Last(r) = "open1" THEN r ELSE <<>>
      BY <2>2, <2>7 DEF NoTag
    <3>2. Buffered(q)
      BY <3>1 DEF Buffered
    <3>3. ASSUME Going(W, n, e) PROVE Settled(W, q, e)
      <4>1. Leads(W, "text", r, e)
        BY <2>3, <3>1, <3>3 DEF PlaceOf
      <4>2. e = IF Last(r) = "open1" THEN "opening" ELSE "text"
        BY <1>1, <1>3, <3>1, <4>1, LeadsPlain
      <4>3. QED
        BY <1>3, <3>1, <4>1, <4>2 DEF Settled
    <3>4. QED
      BY <1>3, <2>1, <2>4, <3>1, <3>2, <3>3 DEF Going, q
  <2>8. CASE Opens(n, q)
    <3>1. PICK o \in 1 .. Len(r) :
            /\ r[o] = "open" /\ \A i \in DOMAIN After(r, o) : After(r, o)[i] # "close"
            /\ q.remaining = <<>> /\ q.inThinkTag /\ q.openTagBuffer = <<>>
      BY <2>2, <2>8 DEF Opens
    <3>2. ASSUME Going(W, n, e) PROVE Settled(W, q, e)
      <4>1. Leads(W, PlaceOf(n), r, e)
        BY <2>3, <3>2
      <4>2. PICK m \in ModelPlaces : Leads(W, m, After(r, o), e) /\ (r[o] = "open" => m = "thought")
        BY <1>1, <4>1, LeadsOn
      <4>3. After(r, o) \in Seq(Tokens) /\ Leads(W, "thought", After(r, o), e)
        BY <1>1, <3>1, <4>2, PartsAre
      <4>4. e = "thought"
        BY <3>1, <4>3, LeadsInside
      <4>5. QED
        BY <3>1, <4>4 DEF Settled
    <3>3. Buffered(q)
      BY <3>1 DEF Buffered
    <3>4. QED
      BY <1>3, <2>1, <2>4, <3>1, <3>2, <3>3 DEF Going, q
  <2>9. QED
    BY <2>1, <2>5, <2>6, <2>7, <2>8
<1>4. QED
  BY <1>2, <1>3

\* The whole loop: nothing remains, and the normalizer has the model where the
\* tokens took it.
LEMMA ParseKeeps ==
  ASSUME NEW W \in SUBSET Steps, NEW n \in Normalizers, Buffered(n), n.openTagBuffer = <<>>,
         NEW tokens \in Seq(Tokens), NEW e \in ModelPlaces
  PROVE  LET q == Parse(n, tokens)
         IN /\ q \in Normalizers /\ Buffered(q) /\ q.remaining = <<>>
            /\ Leads(W, PlaceOf(n), tokens, e) => Settled(W, q, e)
<1> DEFINE leads == Leads(W, PlaceOf(n), tokens, e)
           S == {x \in Normalizers : Buffered(x) /\ (leads => Going(W, x, e))}
           b == Continue(n, tokens)
           k == Len(tokens)
<1>1. b \in S /\ b.remaining = tokens
  <2>1. /\ b \in Normalizers /\ b.remaining = tokens /\ b.inThinkTag = n.inThinkTag
        /\ b.tagBuffer = n.tagBuffer /\ b.openTagBuffer = n.openTagBuffer
    BY ContinueIs
  <2> HIDE DEF b
  <2>2. Buffered(b)
    BY <2>1 DEF Buffered
  <2>3. leads => Going(W, b, e)
    BY <2>1 DEF Going, PlaceOf
  <2>4. QED
    BY <2>1, <2>2, <2>3
<1>2. ASSUME NEW x \in S PROVE Pass(x) \in S
  BY PassKeeps
<1>3. k \in Nat /\ k = Len(tokens)
  OBVIOUS
<1> HIDE DEF S, k
<1>4. PICK g \in [0 .. k -> S] :
        /\ g[0] = b /\ \A i \in 1 .. k : g[i] = Pass(g[i - 1])
        /\ Parse(n, tokens) = g[k]
  BY <1>1, <1>2, ParseRuns DEF k
<1> HIDE DEF b
<1> DEFINE left(i) == Len(g[i].remaining)
           U == {i \in Nat : i <= k => left(i) <= k - i}
<1>5. \A i \in 0 .. k : g[i] \in Normalizers /\ Buffered(g[i]) /\ left(i) \in Nat
  BY <1>4 DEF S, Normalizers
<1>6. 0 \in U
  BY <1>1, <1>3, <1>4
<1>7. ASSUME NEW i \in U PROVE i + 1 \in U
  <2> SUFFICES ASSUME i + 1 <= k PROVE left(i + 1) <= k - (i + 1)
    OBVIOUS
  <2>1. /\ i + 1 \in 1 .. k /\ (i + 1) - 1 = i /\ i \in 0 .. k /\ i + 1 \in 0 .. k
        /\ left(i) <= k - i
    BY <1>3
  <2>2. g[i + 1] = Pass(g[i])
    BY <1>4, <2>1
  <2>3. /\ g[i].remaining = <<>> => g[i + 1] = g[i]
        /\ g[i].remaining # <<>> => left(i + 1) < left(i)
    BY <1>5, <2>1, <2>2, PassKeeps
  <2>4. left(i) \in Nat /\ left(i + 1) \in Nat
    BY <1>5, <2>1
  <2>5. CASE g[i].remaining = <<>>
    <3>1. left(i + 1) = 0
      BY <2>3, <2>5
    <3>2. QED
      BY <1>3, <2>1, <3>1
  <2>6. CASE g[i].remaining # <<>>
    <3>1. left(i + 1) < left(i)
      BY <2>3, <2>6
    <3> HIDE DEF left
    <3>2. QED
      BY <1>3, <2>1, <2>4, <3>1
  <2>7. QED
    BY <2>5, <2>6
<1>8. U = Nat
  <2> HIDE DEF U
  <2>1. U \in SUBSET Nat
    BY DEF U
  <2>2. QED
    BY <1>6, <1>7, <2>1, NumbersByInduction
<1> DEFINE q == g[k]
<1>9. k \in 0 .. k /\ left(k) <= 0
  BY <1>3, <1>8
<1>10. q \in S /\ q \in Normalizers /\ q.remaining = <<>>
  <2>1. q \in S /\ q \in Normalizers /\ q.remaining \in Seq(Tokens)
    BY <1>4, <1>9 DEF S, Normalizers
  <2>2. Len(q.remaining) = 0
    BY <1>5, <1>9
  <2>3. QED
    BY <2>1, <2>2, EmptySeq
<1> HIDE DEF q
<1>11. leads => Settled(W, q, e)
  <2>1. SUFFICES ASSUME leads, Leads(W, PlaceOf(q), <<>>, e), q.openTagBuffer = <<>>
                 PROVE  Settled(W, q, e)
    BY <1>10 DEF Going, S
  <2>2. e = PlaceOf(q)
    BY <2>1 DEF Leads
  <2>3. q.inThinkTag \in BOOLEAN
    BY <1>10 DEF Normalizers
  <2>4. QED
    BY <2>1, <2>2, <2>3 DEF Settled, PlaceOf
<1>12. Buffered(q)
  BY <1>10 DEF S
<1>13. QED
  BY <1>4, <1>10, <1>11, <1>12 DEF q

\* The paths that grow from b by a token of s each, h[i] by the first i.
Grows(S, h, b, s) ==
  /\ h \in [0 .. Len(s) -> S] /\ h[0] = b /\ h[Len(s)] = FoldLeft(Write, b, s)
  /\ \A i \in 1 .. Len(s) : h[i] = Write(h[i - 1], s[i])

LEMMA WriteFold ==
  ASSUME NEW S, NEW E, NEW b \in S, NEW s \in Seq(E),
         \A x \in S, e \in E : Write(x, e) \in S
  PROVE  \E h : Grows(S, h, b, s)
<1> DEFINE n == Len(s)
           F == [p \in S \X (1 .. n) |-> Write(p[1], s[p[2]])]
           G(it) == it = [T \in SUBSET (1 .. n) |->
                            IF T = {} THEN b ELSE Write(it[T \ {Max(T)}], s[Max(T)])]
           c == CHOOSE it : G(it)
           h == [i \in 0 .. n |-> c[1 .. i]]
<1>1. n \in Nat /\ DOMAIN s = 1 .. n /\ \A i \in 1 .. n : s[i] \in E
  OBVIOUS
<1>2. F \in [S \X (1 .. n) -> S]
  BY <1>1
<1>3. \A x \in S, i \in 1 .. n : F[<<x, i>>] = Write(x, s[i])
  OBVIOUS
<1> HIDE DEF F
<1>4. PICK it \in [SUBSET (1 .. n) -> S] : FoldOf(it, F, b, n)
  BY <1>1, <1>2, FoldExists
<1>5. ASSUME NEW T \in SUBSET (1 .. n)
      PROVE  it[T] = IF T = {} THEN b ELSE Write(it[T \ {Max(T)}], s[Max(T)])
  <2>1. T # {} => Max(T) \in T
    BY <1>1, LastOf
  <2>2. QED
    BY <1>3, <1>4, <2>1 DEF FoldOf
<1>6. G(c)
  BY <1>5
<1>7. FoldLeft(Write, b, s) = c[1 .. n]
  BY <1>1 DEF FoldLeft, MapThenFoldSet
<1> HIDE DEF c
<1>8. ASSUME NEW k \in 1 .. n PROVE c[1 .. k] = Write(c[1 .. (k - 1)], s[k])
  <2>1. Max(1 .. k) = k /\ (1 .. k) \ {k} = 1 .. (k - 1) /\ 1 .. k # {}
    BY <1>1, LastPlace
  <2>2. 1 .. k \in SUBSET (1 .. n)
    BY <1>1
  <2>3. QED
    BY <1>6, <2>1, <2>2
<1>9. c[{}] = b
  BY <1>6
<1>10. ASSUME NEW m \in 0 .. n PROVE c[1 .. m] \in S
  <2>1. \A k \in 1 .. m : c[1 .. (k - 1)] \in S => c[1 .. k] \in S
    BY <1>1, <1>8
  <2>2. QED
    BY <1>1, <1>9, <2>1, FoldKeeps
<1>11. 1 .. 0 = {} /\ 0 \in 0 .. n /\ n \in 0 .. n
  BY <1>1
<1>12. \A k \in 1 .. n : k \in 0 .. n /\ k - 1 \in 0 .. n
  BY <1>1
<1> HIDE DEF n
<1>13. h \in [0 .. n -> S] /\ h[0] = b /\ h[n] = FoldLeft(Write, b, s)
  BY <1>7, <1>9, <1>10, <1>11
<1>14. \A k \in 1 .. n : h[k] = Write(h[k - 1], s[k])
  BY <1>8, <1>12
<1> HIDE DEF h
<1>15. QED
  BY <1>13, <1>14 DEF n, Grows

\* The places that writing s takes the model through, if it can.
Passes(g, p, s) ==
  /\ g \in [0 .. Len(s) -> ModelPlaces] /\ g[0] = p
  /\ \A i \in 1 .. Len(s) : <<g[i - 1], s[i], g[i]>> \in Moves

LEMMA WriteIs ==
  ASSUME NEW path \in Seq(ModelPlaces \cup {"nowhere"}), NEW token
  PROVE  \E q \in ModelPlaces \cup {"nowhere"} :
           /\ Write(path, token) = Append(path, q)
           /\ q # "nowhere" => <<Last(path), token, q>> \in Moves
<1> DEFINE fits(m) == m[1] = Last(path) /\ m[2] = token
           move == CHOOSE m \in Moves : fits(m)
<1>1. Write(path, token) = Append(path, IF \E m \in Moves : fits(m) THEN move[3] ELSE "nowhere")
  BY DEF Write
<1>2. \A m \in Moves : m = <<m[1], m[2], m[3]>> /\ m[3] \in ModelPlaces
  BY DEF Moves, ModelPlaces
<1>3. CASE \E m \in Moves : fits(m)
  <2>1. move \in Moves /\ fits(move)
    BY <1>3
  <2> HIDE DEF move, Moves
  <2>2. <<Last(path), token, move[3]>> = move
    BY <1>2, <2>1
  <2>3. move[3] \in ModelPlaces /\ <<Last(path), token, move[3]>> \in Moves
    BY <1>2, <2>1, <2>2
  <2>4. Write(path, token) = Append(path, move[3])
    BY <1>1, <1>3
  <2>5. QED
    BY <2>3, <2>4
<1>4. CASE ~ \E m \in Moves : fits(m)
  BY <1>1, <1>4
<1>5. QED
  BY <1>3, <1>4

LEMMA PathIs ==
  ASSUME NEW p \in ModelPlaces, NEW s \in Seq(Tokens), "nowhere" \notin ToSet(Path(p, s))
  PROVE  \E g : /\ Passes(g, p, s) /\ Last(Path(p, s)) = g[Len(s)]
                /\ \A i \in 1 .. Len(s) : Path(p, s)[i] = g[i - 1]
                /\ \A i \in 0 .. Len(s) : g[i] \in ToSet(Path(p, s))
<1> DEFINE P == ModelPlaces \cup {"nowhere"}
           S == Seq(P)
           b == <<p>>
           n == Len(s)
<1>1. b \in S /\ Len(b) = 1 /\ b[1] = p
  OBVIOUS
<1>2. \A x \in S, e \in Tokens : Write(x, e) \in S
  <2> SUFFICES ASSUME NEW x \in S, NEW e \in Tokens PROVE Write(x, e) \in S
    OBVIOUS
  <2>1. PICK q \in P : Write(x, e) = Append(x, q)
    BY WriteIs
  <2>2. QED
    BY <2>1
<1>3. n \in Nat /\ \A i \in 1 .. n : s[i] \in Tokens
  OBVIOUS
<1> HIDE DEF S, b, n
<1>4. PICK h \in [0 .. n -> S] :
        /\ h[0] = b /\ h[n] = FoldLeft(Write, b, s)
        /\ \A i \in 1 .. n : h[i] = Write(h[i - 1], s[i])
  <2>1. \E h : Grows(S, h, b, s)
    BY <1>1, <1>2, WriteFold
  <2>2. QED
    BY <2>1 DEF n, Grows
<1>5. h[n] = Path(p, s)
  BY <1>4 DEF Path, b
<1> DEFINE Goes(c, i) ==
             /\ c \in Seq(P) /\ Len(c) = i + 1 /\ c[1] = p
             /\ \A j \in 1 .. i : c[j + 1] = "nowhere" \/ <<c[j], s[j], c[j + 1]>> \in Moves
           U == {i \in Nat : i <= n => Goes(h[i], i)}
<1>6. 0 \in U
  <2>1. Goes(b, 0)
    BY <1>1 DEF S
  <2> HIDE DEF Goes
  <2>2. QED
    BY <1>4, <2>1
<1>7. ASSUME NEW i \in U PROVE i + 1 \in U
  <2> SUFFICES ASSUME i + 1 <= n PROVE Goes(h[i + 1], i + 1)
    OBVIOUS
  <2>1. i + 1 \in 1 .. n /\ (i + 1) - 1 = i /\ i <= n /\ i \in Nat
    BY <1>3
  <2> DEFINE c == h[i]
             d == h[i + 1]
  <2>2. Goes(c, i)
    BY <2>1
  <2>3. d = Write(c, s[i + 1])
    BY <1>4, <2>1
  <2> HIDE DEF c, d, Moves
  <2>4. PICK q \in P : d = Append(c, q) /\ (q # "nowhere" => <<Last(c), s[i + 1], q>> \in Moves)
    BY <2>2, <2>3, WriteIs
  <2>5. Last(c) = c[i + 1]
    BY <2>2 DEF Last
  <2>6. /\ d \in Seq(P) /\ Len(d) = (i + 1) + 1 /\ d[(i + 1) + 1] = q
        /\ \A j \in 1 .. i + 1 : d[j] = c[j]
    BY <2>1, <2>2, <2>4
  <2>7. d[1] = p
    BY <2>1, <2>2, <2>6
  <2>8. ASSUME NEW j \in 1 .. i + 1
        PROVE  d[j + 1] = "nowhere" \/ <<d[j], s[j], d[j + 1]>> \in Moves
    <3>1. CASE j = i + 1
      BY <2>4, <2>5, <2>6, <3>1
    <3>2. CASE j \in 1 .. i
      <4>1. j + 1 \in 1 .. i + 1
        BY <2>1, <3>2
      <4>2. d[j] = c[j] /\ d[j + 1] = c[j + 1]
        BY <2>6, <4>1
      <4>3. c[j + 1] = "nowhere" \/ <<c[j], s[j], c[j + 1]>> \in Moves
        BY <2>2, <3>2
      <4>4. QED
        BY <4>2, <4>3
    <3>3. QED
      BY <2>1, <3>1, <3>2
  <2>9. Goes(d, i + 1)
    BY <2>6, <2>7, <2>8
  <2>10. QED
    BY <2>9 DEF d
<1>8. U = Nat
  <2> HIDE DEF U
  <2>1. U \in SUBSET Nat
    BY DEF U
  <2>2. QED
    BY <1>6, <1>7, <2>1, NumbersByInduction
<1> DEFINE path == Path(p, s)
           g == [i \in 0 .. n |-> path[i + 1]]
<1>9. Goes(path, n)
  <2>1. n \in U /\ n <= n
    BY <1>3, <1>8
  <2> HIDE DEF Goes
  <2>2. Goes(h[n], n)
    BY <2>1
  <2>3. QED
    BY <1>5, <2>2, Zenon
<1> HIDE DEF U, path, Moves
<1>10. /\ path \in Seq(P) /\ Len(path) = n + 1 /\ path[1] = p
       /\ \A j \in 1 .. n : path[j + 1] = "nowhere" \/ <<path[j], s[j], path[j + 1]>> \in Moves
  BY <1>9
<1> HIDE DEF Goes
<1>11. \A i \in 0 .. n : path[i + 1] \in ModelPlaces /\ path[i + 1] \in ToSet(path)
  <2> SUFFICES ASSUME NEW i \in 0 .. n
               PROVE  path[i + 1] \in ModelPlaces /\ path[i + 1] \in ToSet(path)
    OBVIOUS
  <2>1. i + 1 \in DOMAIN path
    BY <1>3, <1>10
  <2>2. path[i + 1] \in ToSet(path)
    BY <2>1, Zenon DEF ToSet
  <2>3. path[i + 1] \in P
    <3> HIDE DEF P
    <3>1. QED
      BY <1>10, <2>1
  <2>4. QED
    BY <2>2, <2>3 DEF path
<1>12. /\ g \in [0 .. n -> ModelPlaces] /\ g[0] = p /\ g[n] = Last(path)
       /\ \A i \in 1 .. n : path[i] = g[i - 1]
       /\ \A i \in 0 .. n : g[i] \in ToSet(path)
  <2>1. 0 \in 0 .. n /\ n \in 0 .. n /\ 0 + 1 = 1
    BY <1>3
  <2>2. g[0] = p /\ g[n] = path[n + 1]
    BY <1>10, <2>1
  <2>3. Last(path) = path[n + 1]
    BY <1>10 DEF Last
  <2>4. g \in [0 .. n -> ModelPlaces]
    <3> HIDE DEF ModelPlaces
    <3>1. QED
      BY <1>11
  <2>5. ASSUME NEW i \in 1 .. n PROVE path[i] = g[i - 1]
    <3>1. i - 1 \in 0 .. n /\ (i - 1) + 1 = i
      BY <1>3
    <3>2. QED
      BY <3>1
  <2>6. \A i \in 0 .. n : g[i] \in ToSet(path)
    BY <1>11
  <2> HIDE DEF g
  <2>7. QED
    BY <2>2, <2>3, <2>4, <2>5, <2>6
<1>13. ASSUME NEW i \in 1 .. n PROVE <<g[i - 1], s[i], g[i]>> \in Moves
  <2>1. i - 1 \in 0 .. n /\ i \in 0 .. n /\ (i - 1) + 1 = i
    BY <1>3
  <2>2. g[i - 1] = path[i] /\ g[i] = path[i + 1]
    BY <2>1
  <2>3. path[i + 1] # "nowhere"
    BY <1>11, <2>1 DEF ModelPlaces
  <2>4. QED
    BY <1>10, <2>2, <2>3
<1> HIDE DEF g
<1>14. Passes(g, p, s)
  BY <1>12, <1>13 DEF Passes, n
<1>15. QED
  BY <1>12, <1>14 DEF n, path

LEMMA LeadsThrough ==
  ASSUME NEW W, NEW X, NEW s \in Seq(X), NEW t \in Seq(X), NEW p, NEW m, NEW q,
         Leads(W, p, s, m), Leads(W, m, t, q)
  PROVE  Leads(W, p, s \o t, q)
<1>1. PICK g \in [0 .. Len(s) -> ModelPlaces] :
        /\ g[0] = p /\ g[Len(s)] = m
        /\ \A j \in 1 .. Len(s) : <<g[j - 1], s[j], g[j]>> \in W
  BY DEF Leads
<1>2. PICK h \in [0 .. Len(t) -> ModelPlaces] :
        /\ h[0] = m /\ h[Len(t)] = q
        /\ \A j \in 1 .. Len(t) : <<h[j - 1], t[j], h[j]>> \in W
  BY DEF Leads
<1> DEFINE k == Len(s)
           l == Len(t)
           f == [i \in 0 .. k + l |-> IF i <= k THEN g[i] ELSE h[i - k]]
<1>3. /\ k \in Nat /\ l \in Nat /\ Len(s \o t) = k + l
      /\ \A i \in 1 .. k : (s \o t)[i] = s[i]
      /\ \A i \in 1 .. l : (s \o t)[k + i] = t[i]
  OBVIOUS
<1> HIDE DEF k, l
<1>4. f \in [0 .. k + l -> ModelPlaces]
  <2> SUFFICES ASSUME NEW i \in 0 .. k + l
               PROVE  (IF i <= k THEN g[i] ELSE h[i - k]) \in ModelPlaces
    OBVIOUS
  <2>1. i <= k => i \in 0 .. k
    BY <1>3
  <2>2. ~(i <= k) => i - k \in 0 .. l
    BY <1>3
  <2>3. QED
    BY <1>1, <1>2, <2>1, <2>2 DEF k, l
<1>5. \A i \in 0 .. k : i \in 0 .. k + l /\ f[i] = g[i]
  BY <1>3
<1>6. ASSUME NEW i \in 0 .. l PROVE k + i \in 0 .. k + l /\ f[k + i] = h[i]
  <2>1. k + i \in 0 .. k + l /\ (k + i) - k = i
    BY <1>3
  <2>2. CASE i = 0
    <3>1. f[k] = g[k] /\ g[k] = h[0] /\ k + i = k
      BY <1>1, <1>2, <1>3, <1>5, <2>2 DEF k
    <3>2. QED
      BY <2>1, <2>2, <3>1
  <2>3. CASE i # 0
    <3>1. ~(k + i <= k)
      BY <1>3, <2>3
    <3>2. QED
      BY <2>1, <3>1
  <2>4. QED
    BY <2>2, <2>3
<1>7. f[0] = p /\ f[k + l] = q
  <2>1. 0 \in 0 .. k /\ l \in 0 .. l
    BY <1>3
  <2>2. QED
    BY <1>1, <1>2, <1>5, <1>6, <2>1 DEF l
<1> HIDE DEF f
<1>8. ASSUME NEW i \in 1 .. k + l PROVE <<f[i - 1], (s \o t)[i], f[i]>> \in W
  <2>1. CASE i \in 1 .. k
    <3>1. i - 1 \in 0 .. k /\ i \in 0 .. k
      BY <1>3, <2>1
    <3>2. f[i - 1] = g[i - 1] /\ f[i] = g[i] /\ (s \o t)[i] = s[i]
      BY <1>3, <1>5, <2>1, <3>1
    <3>3. <<g[i - 1], s[i], g[i]>> \in W
      BY <1>1, <2>1 DEF k
    <3>4. QED
      BY <3>2, <3>3, Zenon
  <2>2. CASE i \notin 1 .. k
    <3> DEFINE j == i - k
    <3>1. /\ j \in 1 .. l /\ j - 1 \in 0 .. l /\ j \in 0 .. l
          /\ i = k + j /\ i - 1 = k + (j - 1)
      BY <1>3, <2>2
    <3> HIDE DEF j
    <3>2. f[i - 1] = h[j - 1] /\ f[i] = h[j] /\ (s \o t)[i] = t[j]
      BY <1>3, <1>6, <3>1
    <3>3. <<h[j - 1], t[j], h[j]>> \in W
      BY <1>2, <3>1 DEF l
    <3>4. QED
      BY <3>2, <3>3, Zenon
  <2>3. QED
    BY <2>1, <2>2
<1>9. f \in [0 .. Len(s \o t) -> ModelPlaces] /\ f[Len(s \o t)] = q
  BY <1>3, <1>4, <1>7
<1>10. \A i \in 1 .. Len(s \o t) : <<f[i - 1], (s \o t)[i], f[i]>> \in W
  BY <1>3, <1>8
<1>11. QED
  BY <1>7, <1>9, <1>10 DEF Leads

\* The model makes moves of W only, but for those that write half a tag.
Keeping(W, g, s) ==
  \A i \in 1 .. Len(s) : <<g[i - 1], s[i], g[i]>> \in Steps => <<g[i - 1], s[i], g[i]>> \in W

\* Inside a chunk there are no halves of tags but at its ends.
LEMMA ChunkSteps ==
  ASSUME NEW W, NEW p \in ModelPlaces, NEW s \in Seq(Tokens), OneChunk(s),
         NEW g, Passes(g, p, s), Keeping(W, g, s), p # "closing", g[Len(s)] # "closing",
         NEW i \in 1 .. Len(s), i = 1 => s[1] # "open2"
  PROVE  <<g[i - 1], s[i], g[i]>> \in W
<1>1. <<g[i - 1], s[i], g[i]>> \in Moves
  BY DEF Passes
<1>2. g[0] = p
  BY DEF Passes
<1>3. ASSUME i # 1
      PROVE  <<g[(i - 1) - 1], s[i - 1], g[i - 1]>> \in Moves /\ s[i - 1] \notin {"open1", "close1"}
  <2>1. i - 1 \in 1 .. Len(s) /\ i - 1 \in 1 .. Len(s) - 1
    BY <1>3
  <2>2. QED
    BY <2>1 DEF Passes, OneChunk
<1>4. i # 1 => g[i - 1] \notin {"opening", "closing"}
  BY <1>3 DEF Moves
<1>5. i # Len(s) => s[i] \notin {"open1", "close1"}
  <2>1. i # Len(s) => i \in 1 .. Len(s) - 1
    OBVIOUS
  <2>2. QED
    BY <2>1 DEF OneChunk
<1>6. g[i] # "closing"
  BY <1>1, <1>5 DEF Moves
<1>7. g[i - 1] # "closing" /\ ~(g[i - 1] = "opening" /\ s[i] = "open2")
  BY <1>2, <1>4
<1>8. <<g[i - 1], s[i], g[i]>> \in Steps
  BY <1>1, <1>6, <1>7 DEF Moves, Steps
<1>9. QED
  BY <1>8 DEF Keeping

\* What the loop is given, where the chunk goes on from a tag cut in two and
\* where it does not.
LEMMA JoinedLeads ==
  ASSUME NEW W \in SUBSET Steps, <<"text", "open", "thought">> \in W,
         NEW n \in Normalizers, Buffered(n), NEW p \in ModelPlaces, Settled(W, n, p),
         NEW s \in Seq(Tokens), s # <<>>, OneChunk(s), NEW g, Passes(g, p, s),
         Keeping(W, g, s), g[Len(s)] # "closing"
  PROVE  Leads(W, PlaceOf(n), Joined(n.openTagBuffer, s), g[Len(s)])
<1> DEFINE b == n.openTagBuffer
           e == g[Len(s)]
<1>1. b \in Seq(Tokens) /\ n.inThinkTag \in BOOLEAN
  BY DEF Normalizers
<1>2. p # "closing" /\ (b # <<>> <=> p = "opening") /\ (n.inThinkTag <=> p = "thought")
  BY DEF Settled
<1>3. g \in [0 .. Len(s) -> ModelPlaces] /\ g[0] = p
  BY DEF Passes
<1>4. Len(s) \in Nat /\ 1 \in 1 .. Len(s)
  BY EmptySeq
<1>5. Head(s) = s[1] /\ s[1] \in Tokens
  BY <1>4
<1>6. <<p, s[1], g[1]>> \in Moves
  BY <1>3, <1>4 DEF Passes
<1>7. s[1] # "open2" => Leads(W, p, s, e)
  BY <1>2, <1>3, ChunkSteps DEF Leads
<1>8. CASE p # "opening"
  <2>1. s[1] # "open2"
    BY <1>6, <1>8 DEF Moves
  <2>2. b = <<>> /\ PlaceOf(n) = p
    BY <1>2, <1>8 DEF PlaceOf, ModelPlaces
  <2>3. Joined(b, s) = s
    BY <2>2 DEF Joined
  <2>4. QED
    BY <1>7, <2>1, <2>2, <2>3
<1>9. CASE p = "opening"
  <2>1. b # <<>> /\ Leads(W, "text", b, "opening") /\ PlaceOf(n) = "text"
    BY <1>2, <1>9 DEF Settled, PlaceOf
  <2>2. Last(b) = "open1"
    BY <2>1 DEF Buffered
  <2>3. CASE s[1] # "open2"
    <3>1. Joined(b, s) = b \o s
      BY <1>5, <2>3 DEF Joined
    <3>2. Leads(W, "opening", s, e)
      BY <1>7, <1>9, <2>3
    <3>3. Leads(W, "text", b \o s, e)
      BY <1>1, <2>1, <3>2, LeadsThrough
    <3>4. QED
      BY <2>1, <3>1, <3>3
  <2>4. CASE s[1] = "open2"
    <3> DEFINE k == Len(b)
               front == Front(b)
               rest == Tail(s)
               tag == <<"open">>
    <3>1. Joined(b, s) = front \o tag \o rest
      BY <1>5, <2>1, <2>2, <2>4 DEF Joined
    <3>2. PICK h \in [0 .. k -> ModelPlaces] :
            /\ h[0] = "text" /\ h[k] = "opening"
            /\ \A j \in 1 .. k : <<h[j - 1], b[j], h[j]>> \in W
      BY <2>1 DEF Leads
    <3>3. k \in Nat \ {0} /\ b[k] = "open1"
      BY <1>1, <2>1, <2>2, EmptySeq DEF Last
    <3>4. h[k - 1] = "text"
      <4>1. <<h[k - 1], "open1", "opening">> \in W
        <5>1. k \in 1 .. k
          BY <3>3
        <5> HIDE DEF k
        <5>2. <<h[k - 1], b[k], h[k]>> \in W
          BY <3>2, <5>1
        <5>3. QED
          BY <3>2, <3>3, <5>2, Zenon
      <4>2. QED
        BY <4>1 DEF Steps
    <3>5. /\ front \in Seq(Tokens) /\ Len(front) = k - 1
          /\ \A i \in 1 .. k - 1 : front[i] = b[i]
      BY <1>1, <3>3 DEF Front
    <3>6. /\ rest \in Seq(Tokens) /\ Len(rest) = Len(s) - 1
          /\ \A i \in 1 .. Len(s) - 1 : rest[i] = s[i + 1]
      BY <1>4
    <3> HIDE DEF front, rest, k
    <3>7. Leads(W, "text", front, "text")
      <4> DEFINE f == [i \in 0 .. k - 1 |-> h[i]]
      <4>1. f \in [0 .. Len(front) -> ModelPlaces] /\ f[0] = "text" /\ f[Len(front)] = "text"
        BY <3>2, <3>3, <3>4, <3>5
      <4>2. ASSUME NEW i \in 1 .. Len(front) PROVE <<f[i - 1], front[i], f[i]>> \in W
        <5>1. i - 1 \in 0 .. k - 1 /\ i \in 0 .. k - 1 /\ i \in 1 .. k /\ i \in 1 .. k - 1
          BY <3>3, <3>5
        <5>2. f[i - 1] = h[i - 1] /\ f[i] = h[i] /\ front[i] = b[i]
          BY <3>5, <5>1
        <5>3. <<h[i - 1], b[i], h[i]>> \in W
          BY <3>2, <5>1
        <5>4. QED
          BY <5>2, <5>3, Zenon
      <4> HIDE DEF f
      <4>3. QED
        BY <4>1, <4>2 DEF Leads
    <3>8. tag \in Seq(Tokens) /\ Leads(W, "text", tag, "thought")
      <4> DEFINE f == [i \in 0 .. 1 |-> IF i = 0 THEN "text" ELSE "thought"]
      <4>1. Len(tag) = 1 /\ tag[1] = "open" /\ tag \in Seq(Tokens)
        BY DEF Tokens
      <4>2. f \in [0 .. 1 -> ModelPlaces] /\ f[0] = "text" /\ f[1] = "thought"
        BY DEF ModelPlaces
      <4>3. <<f[0], tag[1], f[1]>> \in W
        BY <4>1, <4>2
      <4>4. \A i \in 1 .. Len(tag) : i = 1 /\ i - 1 = 0
        BY <4>1
      <4> HIDE DEF f, tag
      <4>5. QED
        BY <4>1, <4>2, <4>3, <4>4 DEF Leads
    <3>9. g[1] = "thought"
      BY <1>6, <1>9, <2>4 DEF Moves
    <3>10. Leads(W, "thought", rest, e)
      <4> DEFINE f == [i \in 0 .. Len(s) - 1 |-> g[i + 1]]
      <4>1. /\ f \in [0 .. Len(rest) -> ModelPlaces]
            /\ f[0] = "thought" /\ f[Len(rest)] = e
        <5>1. \A i \in 0 .. Len(s) - 1 : i + 1 \in 0 .. Len(s)
          BY <1>4
        <5>2. 0 \in 0 .. Len(s) - 1 /\ Len(s) - 1 \in 0 .. Len(s) - 1
              /\ 0 + 1 = 1 /\ (Len(s) - 1) + 1 = Len(s)
          BY <1>4
        <5>3. f \in [0 .. Len(s) - 1 -> ModelPlaces]
          BY <1>3, <5>1
        <5>4. f[0] = g[1] /\ f[Len(s) - 1] = e
          BY <5>2
        <5>5. QED
          BY <3>6, <3>9, <5>3, <5>4
      <4>2. ASSUME NEW i \in 1 .. Len(rest) PROVE <<f[i - 1], rest[i], f[i]>> \in W
        <5>1. /\ i - 1 \in 0 .. Len(s) - 1 /\ i \in 0 .. Len(s) - 1 /\ i + 1 \in 1 .. Len(s)
              /\ (i - 1) + 1 = (i + 1) - 1 /\ i + 1 # 1 /\ i \in 1 .. Len(s) - 1
          BY <1>4, <3>6
        <5>2. f[i - 1] = g[(i + 1) - 1] /\ f[i] = g[i + 1] /\ rest[i] = s[i + 1]
          BY <3>6, <5>1
        <5>3. <<g[(i + 1) - 1], s[i + 1], g[i + 1]>> \in W
          BY <1>2, <5>1, ChunkSteps
        <5>4. QED
          BY <5>2, <5>3, Zenon
      <4> HIDE DEF f
      <4>3. QED
        BY <4>1, <4>2 DEF Leads
    <3> HIDE DEF tag
    <3>11. front \o tag \in Seq(Tokens) /\ Leads(W, "text", front \o tag, "thought")
      BY <3>5, <3>7, <3>8, LeadsThrough
    <3>12. Leads(W, "text", front \o tag \o rest, e)
      <4> DEFINE both == front \o tag
      <4>1. both \in Seq(Tokens) /\ Leads(W, "text", both, "thought")
        BY <3>11
      <4> HIDE DEF both
      <4>2. Leads(W, "text", both \o rest, e)
        BY <3>6, <3>10, <4>1, LeadsThrough
      <4>3. QED
        BY <4>2 DEF both
    <3>13. QED
      BY <2>1, <3>1, <3>12
  <2>5. QED
    BY <2>3, <2>4
<1>10. QED
  BY <1>8, <1>9

LEMMA JoinedIs ==
  ASSUME NEW X, NEW s \in Seq(X), NEW t \in Seq(X), "open" \in X
  PROVE  Joined(s, t) \in Seq(X)
<1> DEFINE tag == <<"open">>
<1>1. tag \in Seq(X)
  OBVIOUS
<1>2. ASSUME s # <<>>, t # <<>> PROVE Front(s) \in Seq(X) /\ Tail(t) \in Seq(X)
  BY <1>2 DEF Front
<1>3. Joined(s, t) = IF s # <<>> /\ t # <<>> /\ Last(s) = "open1" /\ Head(t) = "open2"
                     THEN Front(s) \o tag \o Tail(t) ELSE s \o t
  BY DEF Joined
<1> HIDE DEF tag
<1>4. QED
  BY <1>1, <1>2, <1>3

\* A chunk: what the normalizer makes of its two kinds of words.
LEMMA NormalizedIs ==
  ASSUME NEW n \in Normalizers, Buffered(n), n.remaining = <<>>,
         NEW content \in Seq(Tokens), NEW reasoning \in Seq(Tokens)
  PROVE  LET q == Normalized(n, content, reasoning)
         IN /\ q \in Normalizers /\ Buffered(q) /\ q.remaining = <<>>
            /\ content = <<>> /\ reasoning = <<>> => q.out = <<>>
            /\ \A W \in SUBSET Steps, p \in ModelPlaces : \A g :
                 /\ <<"text", "open", "thought">> \in W /\ Settled(W, n, p)
                 /\ OneChunk(content) /\ Passes(g, p, content) /\ Keeping(W, g, content)
                 /\ g[Len(content)] # "closing"
                 => Settled(W, q, g[Len(content)])
<1> DEFINE none == <<>>
           fresh == [n EXCEPT !.out = none]
           marked == [fresh EXCEPT !.hasReasoning = TRUE]
           told == IF reasoning = <<>> THEN fresh ELSE Emit(marked, "reasoning", reasoning)
           cleared == [told EXCEPT !.openTagBuffer = none]
           joined == Joined(n.openTagBuffer, content)
           q == Normalized(n, content, reasoning)
<1>1. none \in Seq(NormalizedPieces) /\ none \in Seq(Tokens)
  OBVIOUS
<1>2. q = IF content = <<>> THEN told ELSE Parse(cleared, joined)
  BY DEF Normalized
<1> HIDE DEF none, NormalizedPieces
<1>3. fresh \in Normalizers /\ NormalizerSame(n, fresh) /\ fresh.out = none
  BY <1>1 DEF Normalizers, NormalizerSame
<1> HIDE DEF fresh
<1>4. marked \in Normalizers /\ NormalizerSame(n, marked)
  BY <1>3 DEF Normalizers, NormalizerSame
<1> HIDE DEF marked
<1>5. told \in Normalizers /\ NormalizerSame(n, told) /\ (reasoning = <<>> => told.out = none)
  <2>1. Emit(marked, "reasoning", reasoning) \in Normalizers
        /\ NormalizerSame(marked, Emit(marked, "reasoning", reasoning))
    BY <1>4, EmitIs
  <2>2. CASE reasoning = <<>>
    BY <1>3, <2>2
  <2>3. CASE reasoning # <<>>
    BY <1>4, <2>1, <2>3 DEF NormalizerSame
  <2>4. QED
    BY <2>2, <2>3
<1> HIDE DEF told
<1>6. CASE content = <<>>
  <2>1. q = told
    BY <1>2, <1>6
  <2> HIDE DEF q
  <2>2. Buffered(q) /\ q.remaining = <<>>
    BY <1>5, <2>1 DEF Buffered, NormalizerSame
  <2>3. ASSUME NEW W \in SUBSET Steps, NEW p \in ModelPlaces, NEW g, Settled(W, n, p),
               Passes(g, p, content)
        PROVE  Settled(W, q, g[Len(content)])
    <3>1. g[Len(content)] = p
      BY <1>6, <2>3 DEF Passes
    <3>2. Settled(W, q, p)
      BY <1>5, <2>1, <2>3 DEF Settled, NormalizerSame
    <3>3. QED
      BY <3>1, <3>2
  <2>4. QED
    BY <1>5, <2>1, <2>2, <2>3 DEF q, none
<1>7. CASE content # <<>>
  <2>1. /\ cleared \in Normalizers /\ cleared.inThinkTag = n.inThinkTag
        /\ cleared.tagBuffer = n.tagBuffer /\ cleared.openTagBuffer = <<>>
    BY <1>1, <1>5 DEF Normalizers, NormalizerSame, none
  <2>2. joined \in Seq(Tokens)
    <3>1. n.openTagBuffer \in Seq(Tokens)
      BY DEF Normalizers
    <3>2. "open" \in Tokens
      BY DEF Tokens
    <3>3. QED
      BY <3>1, <3>2, JoinedIs
  <2>3. q = Parse(cleared, joined)
    BY <1>2, <1>7
  <2>4. Buffered(cleared)
    BY <2>1 DEF Buffered
  <2> HIDE DEF cleared, joined, q
  <2>5. ASSUME NEW W \in SUBSET Steps, NEW e \in ModelPlaces
        PROVE  /\ q \in Normalizers /\ Buffered(q) /\ q.remaining = <<>>
               /\ Leads(W, PlaceOf(cleared), joined, e) => Settled(W, q, e)
    BY <2>1, <2>2, <2>3, <2>4, ParseKeeps
  <2>6. ASSUME NEW W \in SUBSET Steps, <<"text", "open", "thought">> \in W,
               NEW p \in ModelPlaces, NEW g, Settled(W, n, p), OneChunk(content),
               Passes(g, p, content), Keeping(W, g, content), g[Len(content)] # "closing"
        PROVE  Settled(W, q, g[Len(content)])
    <3>1. Leads(W, PlaceOf(n), joined, g[Len(content)])
      BY <1>7, <2>6, JoinedLeads DEF joined
    <3>2. PlaceOf(cleared) = PlaceOf(n)
      BY <2>1 DEF PlaceOf
    <3>3. g[Len(content)] \in ModelPlaces
      BY <2>6 DEF Passes
    <3>4. QED
      BY <2>5, <3>1, <3>2, <3>3
  <2>7. "text" \in ModelPlaces
    BY DEF ModelPlaces
  <2>8. QED
    BY <1>7, <2>5, <2>6, <2>7 DEF q
<1>8. QED
  BY <1>6, <1>7

\* The end: only an open passage has something to say.
LEMMA NormalizerFlushedIs ==
  ASSUME NEW n \in Normalizers, Buffered(n), n.remaining = <<>>
  PROVE  LET q == NormalizerFlushed(n)
         IN /\ q \in Normalizers /\ Buffered(q) /\ q.remaining = <<>>
            /\ ~n.inThinkTag \/ n.tagBuffer = <<>> => q.out = <<>>
<1> DEFINE none == <<>>
           fresh == [n EXCEPT !.out = none]
           q == NormalizerFlushed(n)
<1>1. none \in Seq(NormalizedPieces) /\ none \in Seq(Tokens)
  OBVIOUS
<1>2. q = IF n.inThinkTag /\ n.tagBuffer # <<>> THEN LeaveTag(fresh, none) ELSE fresh
  BY DEF NormalizerFlushed
<1> HIDE DEF none, NormalizedPieces
<1>3. fresh \in Normalizers /\ NormalizerSame(n, fresh) /\ fresh.out = none
  BY <1>1 DEF Normalizers, NormalizerSame
<1> HIDE DEF fresh
<1>4. LET l == LeaveTag(fresh, none)
      IN /\ l \in Normalizers /\ ~l.inThinkTag /\ l.tagBuffer = <<>>
         /\ l.openTagBuffer = fresh.openTagBuffer /\ l.remaining = fresh.remaining
  BY <1>1, <1>3, LeaveTagIs
<1>5. CASE n.inThinkTag /\ n.tagBuffer # <<>>
  <2>1. q = LeaveTag(fresh, none)
    BY <1>2, <1>5
  <2> HIDE DEF q
  <2>2. q.openTagBuffer = <<>> /\ q.remaining = <<>>
    BY <1>3, <1>4, <1>5, <2>1 DEF NormalizerSame, Buffered
  <2>3. Buffered(q)
    BY <1>4, <2>1, <2>2 DEF Buffered
  <2>4. QED
    BY <1>4, <1>5, <2>1, <2>2, <2>3 DEF q
<1>6. CASE ~(n.inThinkTag /\ n.tagBuffer # <<>>)
  <2>1. q = fresh
    BY <1>2, <1>6
  <2> HIDE DEF q
  <2>2. Buffered(q) /\ q.remaining = <<>>
    BY <1>3, <2>1 DEF NormalizerSame, Buffered
  <2>3. QED
    BY <1>3, <2>1, <2>2 DEF q, none
<1>7. QED
  BY <1>5, <1>6

-----------------------------------------------------------------------------
(*****************************************************************************)
(* What a chunk holds, and what the environment keeps of it.                 *)
(*****************************************************************************)

\* The count of the calls' pieces, and their arguments, after one entry or none.
LEMMA CalledIs ==
  ASSUME NEW b, NEW s \in Seq(ToolCalls), Len(s) <= 1
  PROVE  FoldLeft(Called, b, s) = IF s = <<>> THEN b ELSE Called(b, s[1])
<1> DEFINE n == Len(s)
           G(it) == it = [T \in SUBSET (1 .. n) |->
                            IF T = {} THEN b ELSE Called(it[T \ {Max(T)}], s[Max(T)])]
           h == [T \in SUBSET (1 .. n) |-> IF T = {} THEN b ELSE Called(b, s[1])]
           c == CHOOSE it : G(it)
<1>1. n \in Nat /\ DOMAIN s = 1 .. n /\ (n = 0 <=> s = <<>>) /\ n <= 1
  BY EmptySeq
<1>2. FoldLeft(Called, b, s) = c[1 .. n]
  BY <1>1 DEF FoldLeft, MapThenFoldSet
<1>3. \A T \in SUBSET (1 .. n) : T # {} => Max(T) = 1 /\ T \ {Max(T)} = {}
  <2> SUFFICES ASSUME NEW T \in SUBSET (1 .. n), T # {} PROVE Max(T) = 1 /\ T \ {Max(T)} = {}
    OBVIOUS
  <2>1. \A t \in T : t = 1
    BY <1>1
  <2>2. Max(T) \in T
    BY <1>1, LastOf
  <2>3. QED
    BY <2>1, <2>2
<1> HIDE DEF n
<1>4. \A T \in SUBSET (1 .. n) :
        h[T] = IF T = {} THEN b ELSE Called(h[T \ {Max(T)}], s[Max(T)])
  <2>1. {} \in SUBSET (1 .. n) /\ h[{}] = b
    OBVIOUS
  <2>2. QED
    BY <1>3, <2>1
<1>5. G(h)
  BY <1>4
<1>6. G(c)
  <2> HIDE DEF h, G
  <2>1. QED
    BY <1>5
<1> HIDE DEF c, h
<1>7. c[{}] = b
  <2>1. {} \in SUBSET (1 .. n)
    OBVIOUS
  <2>2. QED
    BY <1>6, <2>1
<1>8. CASE n = 0
  <2>1. 1 .. n = {}
    BY <1>8
  <2>2. QED
    BY <1>1, <1>2, <1>7, <1>8, <2>1
<1>9. CASE n # 0
  <2>1. 1 .. n \in SUBSET (1 .. n) /\ 1 .. n # {}
    BY <1>1, <1>9
  <2>2. Max(1 .. n) = 1 /\ (1 .. n) \ {Max(1 .. n)} = {}
    BY <1>3, <2>1
  <2>3. c[1 .. n] = Called(c[(1 .. n) \ {Max(1 .. n)}], s[Max(1 .. n)])
    BY <1>6, <2>1
  <2>4. c[1 .. n] = Called(b, s[1])
    BY <1>7, <2>2, <2>3
  <2>5. QED
    BY <1>1, <1>2, <1>9, <2>4
<1>10. QED
  BY <1>8, <1>9

LEMMA ArgumentIs ==
  ASSUME NEW b, NEW s \in Seq(ToolCalls), Len(s) <= 1
  PROVE  FoldLeft(Argument, b, s) = IF s = <<>> THEN b ELSE Argument(b, s[1])
<1> DEFINE n == Len(s)
           G(it) == it = [T \in SUBSET (1 .. n) |->
                            IF T = {} THEN b ELSE Argument(it[T \ {Max(T)}], s[Max(T)])]
           h == [T \in SUBSET (1 .. n) |-> IF T = {} THEN b ELSE Argument(b, s[1])]
           c == CHOOSE it : G(it)
<1>1. n \in Nat /\ DOMAIN s = 1 .. n /\ (n = 0 <=> s = <<>>) /\ n <= 1
  BY EmptySeq
<1>2. FoldLeft(Argument, b, s) = c[1 .. n]
  BY <1>1 DEF FoldLeft, MapThenFoldSet
<1>3. \A T \in SUBSET (1 .. n) : T # {} => Max(T) = 1 /\ T \ {Max(T)} = {}
  <2> SUFFICES ASSUME NEW T \in SUBSET (1 .. n), T # {} PROVE Max(T) = 1 /\ T \ {Max(T)} = {}
    OBVIOUS
  <2>1. \A t \in T : t = 1
    BY <1>1
  <2>2. Max(T) \in T
    BY <1>1, LastOf
  <2>3. QED
    BY <2>1, <2>2
<1> HIDE DEF n
<1>4. \A T \in SUBSET (1 .. n) :
        h[T] = IF T = {} THEN b ELSE Argument(h[T \ {Max(T)}], s[Max(T)])
  <2>1. {} \in SUBSET (1 .. n) /\ h[{}] = b
    OBVIOUS
  <2>2. QED
    BY <1>3, <2>1
<1>5. G(h)
  BY <1>4
<1>6. G(c)
  <2> HIDE DEF h, G
  <2>1. QED
    BY <1>5
<1> HIDE DEF c, h
<1>7. c[{}] = b
  <2>1. {} \in SUBSET (1 .. n)
    OBVIOUS
  <2>2. QED
    BY <1>6, <2>1
<1>8. CASE n = 0
  <2>1. 1 .. n = {}
    BY <1>8
  <2>2. QED
    BY <1>1, <1>2, <1>7, <1>8, <2>1
<1>9. CASE n # 0
  <2>1. 1 .. n \in SUBSET (1 .. n) /\ 1 .. n # {}
    BY <1>1, <1>9
  <2>2. Max(1 .. n) = 1 /\ (1 .. n) \ {Max(1 .. n)} = {}
    BY <1>3, <2>1
  <2>3. c[1 .. n] = Argument(c[(1 .. n) \ {Max(1 .. n)}], s[Max(1 .. n)])
    BY <1>6, <2>1
  <2>4. c[1 .. n] = Argument(b, s[1])
    BY <1>7, <2>2, <2>3
  <2>5. QED
    BY <1>1, <1>2, <1>9, <2>4
<1>10. QED
  BY <1>8, <1>9

LEMMA EmptyPath ==
  ASSUME NEW p \in ModelPlaces
  PROVE  Path(p, <<>>) = <<p>> /\ "nowhere" \notin ToSet(Path(p, <<>>))
<1> DEFINE b == <<p>>
           S == {b}
           E == {}
           s == <<>>
<1>1. b \in S /\ s \in Seq(E) /\ \A x \in S, e \in E : Write(x, e) \in S
  OBVIOUS
<1> HIDE DEF S, E, b, s
<1>2. PICK h : Grows(S, h, b, s)
  BY <1>1, WriteFold
<1>3. FoldLeft(Write, b, s) = b
  <2>1. Len(s) = 0
    BY DEF s
  <2>2. QED
    BY <1>2, <2>1 DEF Grows
<1>4. Path(p, s) = b
  BY <1>3 DEF Path, b
<1>5. "nowhere" # p
  BY DEF ModelPlaces
<1>6. QED
  BY <1>4, <1>5 DEF ToSet, b, s

LEMMA NextPiecesAre ==
  ASSUME NEW inputs \in Seq(CallStates), NEW i, NEW piece \in NextPieces(inputs, i)
  PROVE  piece \in Seq(ArgumentTokens)
<1> DEFINE custom == i \in DOMAIN inputs /\ inputs[i].custom
           so_far == IF custom THEN inputs[i].arguments ELSE <<>>
           All == {<<"word">>, <<"quote", "word">>, <<"quote", "word", "quote">>,
                   <<"word", "quote">>}
<1>1. so_far \in Seq(ArgumentTokens)
  <2>1. CASE custom
    <3>1. inputs[i] \in CallStates
      BY <2>1
    <3>2. inputs[i].arguments \in Seq(ArgumentTokens)
      BY <3>1 DEF CallStates
    <3>3. QED
      BY <2>1, <3>2
  <2>2. CASE ~custom
    BY <2>2
  <2>3. QED
    BY <2>1, <2>2
<1>2. so_far # <<>> => so_far[1] \in {"word", "quote"}
  <2>1. SUFFICES ASSUME so_far # <<>> PROVE so_far[1] \in ArgumentTokens
    BY DEF ArgumentTokens
  <2> HIDE DEF so_far
  <2>2. 1 \in DOMAIN so_far
    BY <1>1, <2>1, EmptySeq
  <2>3. QED
    BY <1>1, <2>2
<1>3. /\ ~custom => NextPieces(inputs, i) = {<<"word">>}
      /\ custom /\ so_far = <<>> => NextPieces(inputs, i) \subseteq All
      /\ custom /\ so_far # <<>> /\ so_far[1] = "word" => NextPieces(inputs, i) \subseteq All
      /\ custom /\ so_far # <<>> /\ so_far[1] = "quote" => NextPieces(inputs, i) \subseteq All
  <2> HIDE DEF so_far
  <2>1. NextPieces(inputs, i) =
          CASE ~custom -> {<<"word">>}
            [] custom /\ so_far = <<>> ->
                 {<<"word">>, <<"quote", "word">>, <<"quote", "word", "quote">>}
            [] custom /\ so_far # <<>> /\ so_far[1] = "word" -> {<<"word">>}
            [] custom /\ so_far # <<>> /\ so_far[1] = "quote" ->
                 IF Last(so_far) = "quote" THEN {} ELSE {<<"word">>, <<"word", "quote">>}
    BY DEF NextPieces, so_far
  <2> HIDE DEF custom
  <2>2. ASSUME ~custom PROVE NextPieces(inputs, i) = {<<"word">>}
    BY <2>1, <2>2
  <2>3. ASSUME custom, so_far = <<>> PROVE NextPieces(inputs, i) \subseteq All
    BY <2>1, <2>3
  <2>4. ASSUME custom, so_far # <<>>, so_far[1] = "word"
        PROVE  NextPieces(inputs, i) \subseteq All
    BY <2>1, <2>4
  <2>5. ASSUME custom, so_far # <<>>, so_far[1] = "quote"
        PROVE  NextPieces(inputs, i) \subseteq All
    BY <2>1, <2>5
  <2>6. QED
    BY <2>2, <2>3, <2>4, <2>5
<1> HIDE DEF custom, so_far
<1>4. piece \in All
  BY <1>2, <1>3
<1>5. \A w, q \in ArgumentTokens :
        /\ <<w>> \in Seq(ArgumentTokens) /\ <<q, w>> \in Seq(ArgumentTokens)
        /\ <<q, w, q>> \in Seq(ArgumentTokens)
  OBVIOUS
<1>6. "word" \in ArgumentTokens /\ "quote" \in ArgumentTokens
  BY DEF ArgumentTokens
<1>7. QED
  BY <1>4, <1>5, <1>6

\* A chunk of the model: of the types, able to come where the model is, and
\* with one part at most.
LEMMA ChunkIs ==
  ASSUME NEW p \in ModelPlaces, NEW inputs \in Seq(CallStates),
         NEW chunk \in Chunks(p, inputs)
  PROVE  /\ chunk.content \in Seq(Tokens) /\ OneChunk(chunk.content)
         /\ "nowhere" \notin ToSet(Path(p, chunk.content))
         /\ chunk.reasoning \in Seq(Tokens) /\ ToSet(chunk.reasoning) \subseteq {"thought"}
         /\ chunk.toolCalls \in Seq(ToolCalls) /\ Len(chunk.toolCalls) <= 1
         /\ chunk.finish \in BOOLEAN
         /\ chunk.toolCalls # <<>> \/ chunk.finish
              => chunk.content = <<>> /\ chunk.reasoning = <<>>
         /\ chunk.finish => chunk.toolCalls = <<>>
<1> DEFINE none == <<>>
           thought == <<"thought">>
           entries == [index : {Len(inputs) + 1}, new : {TRUE}, custom : BOOLEAN,
                       piece : {<<>>}]
                      \cup UNION {[index : {i}, new : {FALSE}, custom : {FALSE},
                                   piece : NextPieces(inputs, i)] :
                                     i \in DOMAIN inputs \cup {1}}
<1> DEFINE Fine == {s \in Seq(Tokens) : OneChunk(s) /\ "nowhere" \notin ToSet(Path(p, s))}
           Parts(c, r, t, f) ==
             /\ chunk.content = c /\ chunk.reasoning = r /\ chunk.toolCalls = t
             /\ chunk.finish \in BOOLEAN /\ (chunk.finish <=> f)
<1>1. none \in Fine /\ none \in Seq(Tokens)
  BY EmptyPath DEF OneChunk
<1>2. none \in Seq(ToolCalls) /\ Len(none) = 0 /\ none \in Seq(ArgumentTokens)
  OBVIOUS
<1>3. thought \in Seq(Tokens) /\ ToSet(thought) \subseteq {"thought"}
      /\ ToSet(none) \subseteq {"thought"}
  BY DEF Tokens, ToSet
<1>4. \A s \in Pieces[p] : s \in Fine
  <2> SUFFICES ASSUME NEW s \in Pieces[p] PROVE s \in Fine
    OBVIOUS
  <2>1. /\ s \in BoundedSeq(Tokens, MaxPiece)
        /\ OneChunk(s) /\ "nowhere" \notin ToSet(Path(p, s))
    BY DEF Pieces
  <2>2. PICK m \in 0 .. MaxPiece : s \in [1 .. m -> Tokens]
    BY <2>1 DEF BoundedSeq, SeqOf
  <2>3. m \in Nat
    BY StreamsAssumption
  <2>4. QED
    BY <2>1, <2>2, <2>3
<1>5. \A tc \in entries : tc \in ToolCalls
  <2> SUFFICES ASSUME NEW tc \in entries PROVE tc \in ToolCalls
    OBVIOUS
  <2>1. Len(inputs) + 1 \in Nat /\ \A i \in DOMAIN inputs \cup {1} : i \in Nat
    OBVIOUS
  <2>2. CASE tc \in [index : {Len(inputs) + 1}, new : {TRUE}, custom : BOOLEAN, piece : {<<>>}]
    <3> DEFINE k == Len(inputs) + 1
    <3>1. k \in Nat
      OBVIOUS
    <3>2. tc \in [index : {k}, new : {TRUE}, custom : BOOLEAN, piece : {none}]
      BY <2>2
    <3> HIDE DEF k, none
    <3>3. QED
      BY <1>2, <3>1, <3>2 DEF ToolCalls
  <2>3. ASSUME NEW i \in DOMAIN inputs \cup {1},
               tc \in [index : {i}, new : {FALSE}, custom : {FALSE},
                       piece : NextPieces(inputs, i)]
        PROVE  tc \in ToolCalls
    <3>1. \A x \in NextPieces(inputs, i) : x \in Seq(ArgumentTokens)
      BY NextPiecesAre
    <3>2. QED
      BY <2>1, <2>3, <3>1 DEF ToolCalls
  <2>4. QED
    BY <2>2, <2>3
<1>6. Chunks(p, inputs) =
        {NoChunk, [NoChunk EXCEPT !.reasoning = thought], [NoChunk EXCEPT !.finish = TRUE]}
          \cup {[NoChunk EXCEPT !.content = s] : s \in Pieces[p]}
          \cup {[NoChunk EXCEPT !.toolCalls = <<tc>>] : tc \in entries}
  BY DEF Chunks
<1>7. /\ NoChunk = [content |-> none, reasoning |-> none, toolCalls |-> none, finish |-> FALSE]
      /\ none = <<>>
  BY DEF NoChunk
<1> HIDE DEF thought, entries, ToolCalls
<1>8. chunk = NoChunk => Parts(none, none, none, FALSE)
  BY <1>7
<1>9. chunk = [NoChunk EXCEPT !.reasoning = thought] => Parts(none, thought, none, FALSE)
  BY <1>7
<1>10. chunk = [NoChunk EXCEPT !.finish = TRUE] => Parts(none, none, none, TRUE)
  BY <1>7
<1>11. ASSUME NEW s \in Pieces[p], chunk = [NoChunk EXCEPT !.content = s]
       PROVE  Parts(s, none, none, FALSE)
  BY <1>7, <1>11
<1>12. ASSUME NEW tc \in entries, chunk = [NoChunk EXCEPT !.toolCalls = <<tc>>]
       PROVE  Parts(none, none, <<tc>>, FALSE)
  BY <1>7, <1>12
<1> HIDE DEF Parts
<1>13. \A tc \in entries : <<tc>> \in Seq(ToolCalls) /\ Len(<<tc>>) = 1
  BY <1>5
<1>14. \/ Parts(none, none, none, FALSE) \/ Parts(none, thought, none, FALSE)
       \/ Parts(none, none, none, TRUE) \/ \E s \in Fine : Parts(s, none, none, FALSE)
       \/ \E t \in Seq(ToolCalls) : Len(t) = 1 /\ Parts(none, none, t, FALSE)
  BY <1>4, <1>6, <1>8, <1>9, <1>10, <1>11, <1>12, <1>13
<1> HIDE DEF none, Fine
<1>15. /\ chunk.content \in Fine /\ chunk.reasoning \in Seq(Tokens)
       /\ chunk.reasoning \in {none, thought}
       /\ chunk.toolCalls \in Seq(ToolCalls) /\ Len(chunk.toolCalls) <= 1
       /\ chunk.finish \in BOOLEAN
       /\ chunk.toolCalls # none \/ chunk.finish
            => chunk.content = none /\ chunk.reasoning = none
       /\ chunk.finish => chunk.toolCalls = none
  <2>1. Len(none) <= 1
    BY <1>2
  <2>2. CASE Parts(none, none, none, FALSE)
    BY <1>1, <1>2, <2>1, <2>2 DEF Parts
  <2>3. CASE Parts(none, thought, none, FALSE)
    BY <1>1, <1>2, <1>3, <2>1, <2>3 DEF Parts
  <2>4. CASE Parts(none, none, none, TRUE)
    BY <1>1, <1>2, <2>1, <2>4 DEF Parts
  <2>5. CASE \E s \in Fine : Parts(s, none, none, FALSE)
    BY <1>1, <1>2, <2>1, <2>5 DEF Parts
  <2>6. CASE \E t \in Seq(ToolCalls) : Len(t) = 1 /\ Parts(none, none, t, FALSE)
    <3>1. PICK t \in Seq(ToolCalls) : Len(t) = 1 /\ Parts(none, none, t, FALSE)
      BY <2>6
    <3>2. Len(t) <= 1
      BY <3>1
    <3>3. QED
      BY <1>1, <3>1, <3>2 DEF Parts
  <2>7. QED
    BY <1>14, <2>2, <2>3, <2>4, <2>5, <2>6
<1>16. chunk.content \in Seq(Tokens) /\ OneChunk(chunk.content)
       /\ "nowhere" \notin ToSet(Path(p, chunk.content))
  BY <1>15, Zenon DEF Fine
<1>17. ToSet(chunk.reasoning) \subseteq {"thought"}
  BY <1>3, <1>15
<1>18. QED
  BY <1>15, <1>16, <1>17 DEF none

-----------------------------------------------------------------------------
(*****************************************************************************)
(* The inductive invariant, in four parts: of what types the state is and    *)
(* which counts agree; that the clients are told of the end as often as the  *)
(* translators have ended; where the normalizer has the model; and what the  *)
(* Anthropic client and its translator know of one another.                  *)
(*****************************************************************************)

Sents ==
  [text : Nat, thoughts : Nat, calls : Seq(Nat), inputs : Seq(CallStates),
   field : BOOLEAN, tags : BOOLEAN]

Typed ==
  /\ place \in ModelPlaces
  /\ sent \in Sents /\ DOMAIN sent.inputs = DOMAIN sent.calls
  /\ odd \subseteq OddNames
  /\ chunks \in 0 .. MaxChunks
  /\ normalizer \in Normalizers /\ Buffered(normalizer) /\ normalizer.remaining = <<>>
  /\ anthropic \in Translators /\ anthropic.skipThinking \in SkipThinking
  /\ anthropic.blockOpen => anthropic.started
  /\ responses \in ResponsesTranslators /\ Len(responses.toolCalls) <= chunks
  /\ anthropic.started = responses.started /\ anthropic.finished = responses.finished
  /\ ended \in BOOLEAN

Once(finished) == IF finished THEN 1 ELSE 0

Ends ==
  /\ ~responses.finished => responses.outputIndex = 0
  /\ message.stops = Once(anthropic.finished)
  /\ response.ends = Once(responses.finished)
  /\ ended => anthropic.finished /\ responses.finished

Placed == ~ended /\ "cutClose" \notin odd => Settled(Steps, normalizer, place)

\* The stream so far is one that MessageFollows speaks of.
Regular == odd \cap {"cutClose", "unclosed", "late", "noCall", "empty"} = {}

\* Until it is finished the translator has begun a message with its client, or
\* is in the middle of text or thoughts, or of calls; and calls and the end
\* come outside of passages.
Follows ==
  /\ ~ended => (anthropic.started <=> chunks # 0)
  /\ ~ended /\ ~anthropic.started => anthropic \in Fresh /\ ~normalizer.inThinkTag
  /\ Regular => ~message.confused
  /\ Regular /\ ~ended =>
       /\ anthropic.finished \/ sent.calls # <<>> => place = "text"
       /\ ~anthropic.finished =>
            anthropic \in IF sent.calls = <<>> THEN Fresh \cup Speaking ELSE Calling

StreamsInv == Typed /\ Ends /\ Placed /\ Follows

LEMMA InitHolds == Init => StreamsInv
<1> SUFFICES ASSUME Init PROVE StreamsInv
  OBVIOUS
<1> DEFINE none == <<>>
<1>1. /\ none \in Seq(Nat) /\ none \in Seq(CallStates) /\ none \in Seq(Tokens)
      /\ none \in Seq(NormalizedPieces)
      /\ none \in Seq([heard : Seq(AllTokens), final : Seq(AllTokens)])
  OBVIOUS
<1>2. none = <<>> /\ Len(none) = 0
  OBVIOUS
<1> HIDE DEF none, CallStates, NormalizedPieces, AllTokens
<1>3. place \in ModelPlaces /\ odd \subseteq OddNames /\ ended \in BOOLEAN /\ ended = FALSE
  BY DEF Init, ModelPlaces, OddNames
<1>4. chunks \in 0 .. MaxChunks /\ chunks = 0
  BY StreamsAssumption DEF Init
<1>5. /\ sent \in Sents /\ sent.calls = none /\ sent.inputs = none
  BY <1>1, <1>2 DEF Init, Sents
<1>6. /\ normalizer \in Normalizers /\ normalizer.openTagBuffer = none
      /\ normalizer.tagBuffer = none /\ ~normalizer.inThinkTag
      /\ normalizer.remaining = none
  BY <1>1, <1>2 DEF Init, NewStreamNormalizer, Normalizers
<1>7. PICK skip \in SkipThinking : anthropic = NewAnthropic(skip)
  BY DEF Init
<1>8. skip \in BOOLEAN
  BY StreamsAssumption
<1>9. NewMessageReader \in MessageReaders
  BY <1>1, <1>2 DEF NewMessageReader, MessageReaders
<1> DEFINE m == NewMessageReader
<1>10. /\ m.at = "none" /\ m.open = "" /\ m.next = 0 /\ m.stops = 0 /\ ~m.confused
  BY DEF NewMessageReader
<1>11. NewResponseReader.ends = 0
  BY DEF NewResponseReader
<1> HIDE DEF m
<1>12. /\ anthropic \in Translators /\ anthropic.skipThinking \in SkipThinking
       /\ ~anthropic.blockOpen /\ ~anthropic.started /\ ~anthropic.finished
       /\ ~anthropic.inThinking /\ anthropic.client = m
       /\ anthropic.blockIndex = 0
  <2> HIDE DEF MessageReaders
  <2>1. QED
    BY <1>7, <1>8, <1>9 DEF NewAnthropic, Translators, m
<1>13. anthropic \in Fresh
  BY <1>12, <1>10 DEF Fresh, InStep
<1>14. NewResponseReader \in ResponseReaders
  BY <1>1, <1>2 DEF NewResponseReader, ResponseReaders
<1>15. /\ responses \in ResponsesTranslators /\ responses.toolCalls = none
       /\ ~responses.started /\ ~responses.finished /\ responses.outputIndex = 0
       /\ responses.client = NewResponseReader
  <2> HIDE DEF ResponseReaders
  <2>1. QED
    BY <1>1, <1>2, <1>14 DEF Init, NewResponses, ResponsesTranslators
<1>16. message.stops = 0 /\ ~message.confused /\ response.ends = 0
  BY <1>12, <1>15, <1>10, <1>11 DEF message, response
<1>17. Typed
  <2>1. Buffered(normalizer)
    BY <1>2, <1>6 DEF Buffered
  <2>2. anthropic.started = responses.started /\ anthropic.finished = responses.finished
    <3>1. \A x \in BOOLEAN : ~x => x = FALSE
      OBVIOUS
    <3>2. /\ anthropic.started \in BOOLEAN /\ responses.started \in BOOLEAN
          /\ anthropic.finished \in BOOLEAN /\ responses.finished \in BOOLEAN
      BY <1>12, <1>15 DEF Translators, ResponsesTranslators
    <3>3. QED
      BY <1>12, <1>15, <3>2
  <2>3. DOMAIN sent.inputs = DOMAIN sent.calls /\ Len(responses.toolCalls) <= chunks
    BY <1>2, <1>4, <1>5, <1>15
  <2>4. normalizer.remaining = <<>>
    BY <1>2, <1>6
  <2>5. QED
    BY <1>3, <1>4, <1>5, <1>6, <1>12, <1>15, <2>1, <2>2, <2>3, <2>4 DEF Typed
<1>18. Ends
  BY <1>3, <1>12, <1>15, <1>16 DEF Ends, Once
<1>19. Placed
  <2>1. place = "text"
    BY DEF Init
  <2>2. QED
    BY <1>2, <1>6, <2>1 DEF Placed, Settled
<1>20. Follows
  <2>1. place = "text"
    BY DEF Init
  <2>2. sent.calls = <<>>
    BY <1>2, <1>5
  <2>3. QED
    BY <1>4, <1>6, <1>12, <1>13, <1>16, <2>1, <2>2 DEF Follows
<1>21. QED
  BY <1>17, <1>18, <1>19, <1>20 DEF StreamsInv

\* What a chunk that is not odd says of the stream before it.
LEMMA OdditiesAre ==
  ASSUME NEW chunk, chunk.content \in Seq(Tokens), chunk.reasoning \in Seq(Tokens),
         NEW path
  PROVE  LET found == Oddities(chunk, path)
         IN /\ found \subseteq OddNames
            /\ "cutClose" \notin found => Last(path) # "closing"
            /\ "unclosed" \notin found /\ (chunk.toolCalls # <<>> \/ chunk.finish)
                 => place = "text"
            /\ "late" \notin found /\ (chunk.content # <<>> \/ chunk.reasoning # <<>>)
                 => sent.calls = <<>> /\ ~anthropic.finished
            /\ "late" \notin found /\ chunk.toolCalls # <<>> => ~anthropic.finished
            /\ "noCall" \notin found /\ sent.calls = <<>>
                 => \A i \in DOMAIN chunk.toolCalls : chunk.toolCalls[i].new
            /\ "strayClose" \notin found
                 => \A i \in DOMAIN chunk.content :
                      ~(path[i] = "text" /\ chunk.content[i] = "close")
<1> DEFINE words == chunk.content \o chunk.reasoning
           calls == chunk.toolCalls
           cut == Last(path) = "closing"
           stray == \E i \in DOMAIN chunk.content :
                      path[i] = "text" /\ chunk.content[i] = "close"
           unclosed == place # "text" /\ (calls # <<>> \/ chunk.finish)
           late == \/ words # <<>> /\ (sent.calls # <<>> \/ anthropic.finished)
                   \/ calls # <<>> /\ anthropic.finished
           noCall == \E i \in DOMAIN calls : ~calls[i].new /\ sent.calls = <<>>
           mixed == \E i \in DOMAIN calls : calls[i].index < Len(sent.calls)
           cutInput == \E i \in DOMAIN calls : calls[i].piece = <<"quote", "word">>
           kinds == Mixed(Glued(answer.content, chunk.content))
           found == Oddities(chunk, path)
<1>1. found = OddIf("cutClose", cut) \cup OddIf("strayClose", stray)
                \cup OddIf("unclosed", unclosed) \cup OddIf("late", late)
                \cup OddIf("noCall", noCall) \cup OddIf("interleaved", mixed)
                \cup OddIf("cutInput", cutInput) \cup OddIf("mixedTags", kinds)
  BY DEF Oddities
<1>2. chunk.content # <<>> \/ chunk.reasoning # <<>> => words # <<>>
  <2> SUFFICES ASSUME words = <<>> PROVE chunk.content = <<>> /\ chunk.reasoning = <<>>
    OBVIOUS
  <2> DEFINE k == Len(chunk.content)
             l == Len(chunk.reasoning)
  <2>1. k \in Nat /\ l \in Nat
    OBVIOUS
  <2>2. k + l = 0
    <3>1. Len(words) = k + l
      BY ConcatProperties
    <3>2. QED
      BY <3>1
  <2>3. k = 0 /\ l = 0
    <3> HIDE DEF k, l
    <3>1. QED
      BY <2>1, <2>2
  <2>4. QED
    BY <2>3, EmptySeq
<1> HIDE DEF words, cut, stray, unclosed, late, noCall, mixed, cutInput, kinds, found
<1>3. found \subseteq OddNames
  BY <1>1 DEF OddIf, OddNames
<1>4. /\ "cutClose" \notin found => ~cut
      /\ "unclosed" \notin found => ~unclosed
      /\ "late" \notin found => ~late
      /\ "noCall" \notin found => ~noCall
      /\ "strayClose" \notin found => ~stray
  BY <1>1 DEF OddIf
<1>5. "cutClose" \notin found => Last(path) # "closing"
  BY <1>4 DEF cut
<1>6. "unclosed" \notin found /\ (chunk.toolCalls # <<>> \/ chunk.finish) => place = "text"
  BY <1>4 DEF unclosed
<1>7. /\ "late" \notin found /\ (chunk.content # <<>> \/ chunk.reasoning # <<>>)
           => sent.calls = <<>> /\ ~anthropic.finished
      /\ "late" \notin found /\ chunk.toolCalls # <<>> => ~anthropic.finished
  BY <1>2, <1>4 DEF late
<1>8. "noCall" \notin found /\ sent.calls = <<>>
        => \A i \in DOMAIN chunk.toolCalls : chunk.toolCalls[i].new
  BY <1>4 DEF noCall
<1>9. "strayClose" \notin found
        => \A i \in DOMAIN chunk.content : ~(path[i] = "text" /\ chunk.content[i] = "close")
  BY <1>4 DEF stray
<1>10. QED
  BY <1>3, <1>5, <1>6, <1>7, <1>8, <1>9 DEF found

\* What the environment keeps of an entry of delta.tool_calls.
LEMMA EntryKept ==
  ASSUME NEW calls \in Seq(Nat), NEW inputs \in Seq(CallStates),
         DOMAIN inputs = DOMAIN calls, NEW tc \in ToolCalls
  PROVE  /\ Called(calls, tc) \in Seq(Nat)
         /\ Argument(inputs, tc) \in Seq(CallStates)
         /\ DOMAIN Argument(inputs, tc) = DOMAIN Called(calls, tc)
         /\ calls # <<>> \/ tc.new => Called(calls, tc) # <<>>
<1>1. tc.piece \in Seq(ArgumentTokens) /\ tc.new \in BOOLEAN /\ tc.custom \in BOOLEAN
      /\ tc.index \in Nat
  BY DEF ToolCalls
<1>2. Len(calls) = Len(inputs) /\ Len(calls) \in Nat
  OBVIOUS
<1>3. CASE tc.new
  <2>1. NewCall(tc.custom) \in CallStates
    <3>1. <<>> \in Seq(ArgumentTokens) /\ Len(<<>>) = 0
      OBVIOUS
    <3>2. QED
      BY <1>1, <3>1 DEF NewCall, CallStates
  <2>2. Called(calls, tc) = Append(calls, 0) /\ Argument(inputs, tc) = Append(inputs, NewCall(tc.custom))
    BY <1>3 DEF Called, Argument
  <2> HIDE DEF CallStates
  <2>3. /\ Append(calls, 0) \in Seq(Nat) /\ Append(inputs, NewCall(tc.custom)) \in Seq(CallStates)
        /\ DOMAIN Append(calls, 0) = 1 .. Len(calls) + 1
        /\ DOMAIN Append(inputs, NewCall(tc.custom)) = 1 .. Len(inputs) + 1
    BY <2>1
  <2>4. Append(calls, 0) # <<>>
    <3>1. Len(Append(calls, 0)) = Len(calls) + 1
      OBVIOUS
    <3>2. Len(<<>>) = 0
      OBVIOUS
    <3>3. QED
      BY <1>2, <3>1, <3>2
  <2>5. QED
    BY <1>2, <2>2, <2>3, <2>4
<1>4. CASE ~tc.new /\ tc.index \in DOMAIN calls
  <2> DEFINE i == tc.index
             old == inputs[i]
             said == old.arguments \o tc.piece
             new == [old EXCEPT !.arguments = said]
  <2>1. Called(calls, tc) = [calls EXCEPT ![i] = @ + 1]
    BY <1>4 DEF Called
  <2>2. Argument(inputs, tc) = [inputs EXCEPT ![i] = new]
    BY <1>4 DEF Argument
  <2>3. old \in CallStates /\ i \in DOMAIN inputs /\ i \in DOMAIN calls
    BY <1>4
  <2>4. new \in CallStates
    <3>1. old.arguments \in Seq(ArgumentTokens) /\ old.inputEmitted \in Nat
          /\ old.inputEmitted <= Len(old.arguments)
      BY <2>3 DEF CallStates
    <3>2. said \in Seq(ArgumentTokens) /\ Len(said) = Len(old.arguments) + Len(tc.piece)
      BY <1>1, <3>1
    <3>3. old.inputEmitted <= Len(said)
      <4> DEFINE sentBefore == old.inputEmitted
                 before == Len(old.arguments)
                 more == Len(tc.piece)
      <4>1. /\ before \in Nat /\ more \in Nat /\ sentBefore \in Nat /\ sentBefore <= before
            /\ Len(said) = before + more
        BY <1>1, <3>1, <3>2
      <4> HIDE DEF said, old, sentBefore, before, more
      <4>2. sentBefore <= Len(said)
        BY <4>1
      <4>3. QED
        BY <4>2 DEF sentBefore
    <3> HIDE DEF said
    <3>4. new.arguments = said /\ new.inputEmitted = old.inputEmitted
      BY <2>3 DEF CallStates
    <3>5. new \in [custom : BOOLEAN, arguments : Seq(ArgumentTokens), inputEmitted : Nat]
      BY <2>3, <3>2 DEF CallStates
    <3> HIDE DEF new, old
    <3>6. QED
      BY <3>3, <3>4, <3>5 DEF CallStates
  <2> HIDE DEF new, old, CallStates
  <2>5. [calls EXCEPT ![i] = @ + 1] \in Seq(Nat) /\ DOMAIN [calls EXCEPT ![i] = @ + 1] = DOMAIN calls
    BY <2>3
  <2>6. [inputs EXCEPT ![i] = new] \in Seq(CallStates) /\ DOMAIN [inputs EXCEPT ![i] = new] = DOMAIN inputs
    BY <2>3, <2>4
  <2>7. [calls EXCEPT ![i] = @ + 1] # <<>>
    BY <2>3, <2>5
  <2>8. QED
    BY <2>1, <2>2, <2>5, <2>6, <2>7
<1>5. CASE ~tc.new /\ tc.index \notin DOMAIN calls
  <2>1. Called(calls, tc) = calls /\ Argument(inputs, tc) = inputs
    BY <1>5 DEF Called, Argument
  <2>2. QED
    BY <1>5, <2>1
<1>6. QED
  BY <1>3, <1>4, <1>5

\* What it keeps of a chunk.
LEMMA SentKept ==
  ASSUME NEW s \in Sents, DOMAIN s.inputs = DOMAIN s.calls,
         NEW entries \in Seq(ToolCalls), Len(entries) <= 1
  PROVE  LET calls == FoldLeft(Called, s.calls, entries)
             inputs == FoldLeft(Argument, s.inputs, entries)
         IN /\ calls \in Seq(Nat) /\ inputs \in Seq(CallStates)
            /\ DOMAIN inputs = DOMAIN calls
            /\ entries = <<>> => calls = s.calls
            /\ entries # <<>> /\ (s.calls # <<>> \/ \A i \in DOMAIN entries : entries[i].new)
                 => calls # <<>>
<1> DEFINE c == s.calls
           a == s.inputs
<1>1. c \in Seq(Nat) /\ a \in Seq(CallStates) /\ DOMAIN a = DOMAIN c
  BY DEF Sents
<1> HIDE DEF c, a, CallStates, ToolCalls
<1>2. /\ FoldLeft(Called, c, entries) = IF entries = <<>> THEN c ELSE Called(c, entries[1])
      /\ FoldLeft(Argument, a, entries) = IF entries = <<>> THEN a ELSE Argument(a, entries[1])
  BY CalledIs, ArgumentIs
<1>3. CASE entries = <<>>
  BY <1>1, <1>2, <1>3 DEF c, a
<1>4. CASE entries # <<>>
  <2>1. 1 \in DOMAIN entries /\ entries[1] \in ToolCalls
    BY <1>4, EmptySeq
  <2>2. /\ Called(c, entries[1]) \in Seq(Nat)
        /\ Argument(a, entries[1]) \in Seq(CallStates)
        /\ DOMAIN Argument(a, entries[1]) = DOMAIN Called(c, entries[1])
        /\ c # <<>> \/ entries[1].new => Called(c, entries[1]) # <<>>
    BY <1>1, <2>1, EntryKept
  <2>3. (\A i \in DOMAIN entries : entries[i].new) => entries[1].new
    BY <2>1
  <2>4. QED
    BY <1>2, <1>4, <2>2, <2>3 DEF c, a
<1>5. QED
  BY <1>3, <1>4

\* An end is counted with the first that finishes.
LEMMA CountedOnce ==
  ASSUME NEW before \in BOOLEAN, NEW finish \in BOOLEAN, NEW count, count = Once(before),
         NEW after, after = IF finish /\ ~before THEN count + 1 ELSE count
  PROVE  after = Once(before \/ finish)
<1>1. CASE before
  BY <1>1 DEF Once
<1>2. CASE ~before /\ finish
  BY <1>2 DEF Once
<1>3. CASE ~before /\ ~finish
  BY <1>3 DEF Once
<1>4. QED
  BY <1>1, <1>2, <1>3

\* A chunk keeps the invariant.
LEMMA ReceiveKeeps == StreamsInv /\ Receive => StreamsInv'
<1> SUFFICES ASSUME StreamsInv, Receive PROVE StreamsInv'
  OBVIOUS
<1>1. PICK chunk \in Chunks(place, sent.inputs) :
        LET path == Path(place, chunk.content)
            n == Normalized(normalizer, chunk.content, chunk.reasoning)
        IN /\ place' = Last(path)
           /\ Written(chunk, path)
           /\ odd' = odd \cup Oddities(chunk, path)
           /\ normalizer' = [n EXCEPT !.out = <<>>]
           /\ anthropic' = AnthropicChunk(anthropic, n.out, chunk.toolCalls, chunk.finish)
           /\ responses' = ResponsesChunk(responses, n.out, chunk.toolCalls, chunk.finish)
  BY DEF Receive
<1> DEFINE content == chunk.content
           reasoning == chunk.reasoning
           calls == chunk.toolCalls
           finish == chunk.finish
           path == Path(place, content)
           n == Normalized(normalizer, content, reasoning)
           pieces == n.out
           found == Oddities(chunk, path)
<1>2. /\ ~ended /\ ended' = ended /\ chunks < MaxChunks /\ chunks' = chunks + 1
      /\ place' = Last(path) /\ odd' = odd \cup found
      /\ Written(chunk, path)
      /\ normalizer' = [n EXCEPT !.out = <<>>]
      /\ anthropic' = AnthropicChunk(anthropic, pieces, calls, finish)
      /\ responses' = ResponsesChunk(responses, pieces, calls, finish)
  BY <1>1 DEF Receive
<1>3. Typed /\ Ends /\ Placed /\ Follows
  BY DEF StreamsInv
<1>4. /\ place \in ModelPlaces /\ sent \in Sents /\ DOMAIN sent.inputs = DOMAIN sent.calls
      /\ odd \subseteq OddNames /\ chunks \in 0 .. MaxChunks
      /\ normalizer \in Normalizers /\ Buffered(normalizer) /\ normalizer.remaining = <<>>
      /\ anthropic \in Translators /\ anthropic.skipThinking \in SkipThinking
      /\ responses \in ResponsesTranslators /\ Len(responses.toolCalls) <= chunks
      /\ anthropic.finished = responses.finished
  BY <1>3 DEF Typed
<1>5. sent.inputs \in Seq(CallStates)
  BY <1>4 DEF Sents
<1>6. /\ content \in Seq(Tokens) /\ OneChunk(content) /\ "nowhere" \notin ToSet(path)
      /\ reasoning \in Seq(Tokens) /\ calls \in Seq(ToolCalls) /\ Len(calls) <= 1
      /\ finish \in BOOLEAN
      /\ calls # <<>> \/ finish => content = <<>> /\ reasoning = <<>>
      /\ finish => calls = <<>>
  BY <1>4, <1>5, ChunkIs
<1>7. PICK g : Passes(g, place, content) /\ Last(path) = g[Len(content)]
  BY <1>4, <1>6, PathIs
<1>8. place' \in ModelPlaces /\ (content = <<>> => place' = place)
  BY <1>2, <1>6, <1>7 DEF Passes
<1>9. /\ n \in Normalizers /\ Buffered(n) /\ n.remaining = <<>>
      /\ content = <<>> /\ reasoning = <<>> => pieces = <<>>
      /\ Settled(Steps, normalizer, place) /\ Last(path) # "closing"
           => Settled(Steps, n, Last(path))
  <2>1. Keeping(Steps, g, content)
    BY DEF Keeping
  <2>2. Steps \in SUBSET Steps /\ <<"text", "open", "thought">> \in Steps
    BY DEF Steps
  <2> HIDE DEF n, pieces, path, content, reasoning, Steps
  <2>3. QED
    BY <1>4, <1>6, <1>7, <2>1, <2>2, NormalizedIs DEF n, pieces
<1>10. /\ chunk.content \in Seq(Tokens) /\ chunk.reasoning \in Seq(Tokens)
       /\ \A c \in {content} : c = chunk.content
  BY <1>6
<1>11. /\ found \subseteq OddNames
       /\ "cutClose" \notin found => Last(path) # "closing"
       /\ "unclosed" \notin found /\ (calls # <<>> \/ finish) => place = "text"
       /\ "late" \notin found /\ (content # <<>> \/ reasoning # <<>>)
            => sent.calls = <<>> /\ ~anthropic.finished
       /\ "late" \notin found /\ calls # <<>> => ~anthropic.finished
       /\ "noCall" \notin found /\ sent.calls = <<>> => \A i \in DOMAIN calls : calls[i].new
  BY <1>10, OdditiesAre
<1>12. /\ sent'.text = sent.text + CountOf("text", content)
       /\ sent'.thoughts = sent.thoughts + CountOf("thought", content \o reasoning)
       /\ sent'.calls = FoldLeft(Called, sent.calls, calls)
       /\ sent'.inputs = FoldLeft(Argument, sent.inputs, calls)
       /\ sent'.field \in BOOLEAN /\ sent'.tags \in BOOLEAN
       /\ sent' = [text |-> sent'.text, thoughts |-> sent'.thoughts, calls |-> sent'.calls,
                   inputs |-> sent'.inputs, field |-> sent'.field, tags |-> sent'.tags]
  BY <1>2 DEF Written
<1>13. /\ sent'.calls \in Seq(Nat) /\ sent'.inputs \in Seq(CallStates)
       /\ DOMAIN sent'.inputs = DOMAIN sent'.calls
       /\ calls = <<>> => sent'.calls = sent.calls
       /\ calls # <<>> /\ (sent.calls # <<>> \/ \A i \in DOMAIN calls : calls[i].new)
            => sent'.calls # <<>>
  BY <1>4, <1>6, <1>12, SentKept
<1>14. sent' \in Sents
  <2>1. CountOf("text", content) \in Nat
    BY <1>6, CountIsNumber
  <2>2. CountOf("thought", content \o reasoning) \in Nat
    <3>1. content \o reasoning \in Seq(Tokens)
      BY <1>6
    <3>2. QED
      BY <3>1, CountIsNumber
  <2>3. sent.text \in Nat /\ sent.thoughts \in Nat
    BY <1>4 DEF Sents
  <2>4. sent'.text \in Nat /\ sent'.thoughts \in Nat
    BY <1>12, <2>1, <2>2, <2>3
  <2> HIDE DEF CallStates
  <2>5. QED
    BY <1>12, <1>13, <2>4 DEF Sents
<1> HIDE DEF content, reasoning, calls, finish, path, n, found
<1>15. pieces \in Seq(NormalizedPieces)
  BY <1>9 DEF Normalizers
<1>16. /\ normalizer' \in Normalizers /\ normalizer'.remaining = <<>>
       /\ NormalizerSame(n, normalizer')
  <2>1. <<>> \in Seq(NormalizedPieces)
    OBVIOUS
  <2> HIDE DEF NormalizedPieces
  <2>2. QED
    BY <1>2, <1>9, <2>1 DEF Normalizers, NormalizerSame
<1> HIDE DEF pieces, CallStates, Translators, ResponsesTranslators
<1> DEFINE a == anthropic
           b == anthropic'
           ends == finish /\ ~a.finished
<1>17. /\ b \in Translators /\ b.started /\ b.skipThinking = a.skipThinking
       /\ b.finished = (a.finished \/ finish)
       /\ b.client.stops = IF ends THEN a.client.stops + 1 ELSE a.client.stops
       /\ a \in Fresh \cup Speaking /\ (\A i \in DOMAIN calls : calls[i].new)
          => IF ends THEN ~b.client.confused
             ELSE b \in IF calls = <<>> THEN Speaking ELSE Calling
       /\ a \in Calling /\ pieces = <<>>
          => IF ends THEN ~b.client.confused ELSE b \in Calling
       /\ ~a.client.confused /\ a.started /\ ~ends /\ pieces = <<>> /\ calls = <<>>
          => ~b.client.confused
  BY <1>2, <1>4, <1>6, <1>15, AnthropicChunkIs
<1>18. ~responses.finished => responses.outputIndex = 0
  BY <1>3 DEF Ends
<1> DEFINE q == responses'
<1>19. /\ q \in ResponsesTranslators /\ q.started
       /\ q.finished = (responses.finished \/ finish)
       /\ ~q.finished => q.outputIndex = 0
       /\ q.client.ends = IF finish /\ ~responses.finished THEN responses.client.ends + 1
                          ELSE responses.client.ends
       /\ Len(calls) <= 1 => Len(q.toolCalls) <= Len(responses.toolCalls) + Len(calls)
  BY <1>2, <1>4, <1>6, <1>15, <1>18, ResponsesChunkIs
<1>20. Typed'
  <2>1. odd' \subseteq OddNames
    BY <1>2, <1>4, <1>11
  <2>2. chunks' \in 0 .. MaxChunks
    BY <1>2, <1>4, StreamsAssumption
  <2>3. Buffered(normalizer')
    BY <1>9, <1>16 DEF Buffered, NormalizerSame
  <2>4. Len(responses'.toolCalls) <= chunks'
    <3> DEFINE before == Len(responses.toolCalls)
               after == Len(responses'.toolCalls)
               more == Len(calls)
    <3>1. before \in Nat /\ after \in Nat /\ more \in Nat
      BY <1>4, <1>6, <1>19 DEF ResponsesTranslators
    <3>2. before <= chunks /\ more <= 1 /\ after <= before + more
      BY <1>4, <1>6, <1>19
    <3>3. chunks \in Nat
      BY <1>4, StreamsAssumption
    <3> HIDE DEF before, after, more
    <3>4. after <= chunks + 1
      BY <3>1, <3>2, <3>3
    <3>5. QED
      BY <1>2, <3>4 DEF after
  <2>5. anthropic'.started = responses'.started /\ anthropic'.finished = responses'.finished
    <3>1. anthropic'.started \in BOOLEAN /\ responses'.started \in BOOLEAN
      BY <1>17, <1>19 DEF Translators, ResponsesTranslators
    <3>2. anthropic'.started /\ responses'.started
      BY <1>17, <1>19
    <3>3. anthropic'.started = responses'.started
      BY <3>1, <3>2
    <3>4. QED
      BY <1>4, <1>17, <1>19, <3>3
  <2>6. anthropic'.skipThinking \in SkipThinking /\ (anthropic'.blockOpen => anthropic'.started)
    BY <1>4, <1>17
  <2>7. ended' \in BOOLEAN
    BY <1>2, <1>3 DEF Typed
  <2>8. QED
    BY <1>8, <1>13, <1>14, <1>16, <1>17, <1>19, <2>1, <2>2, <2>3, <2>4, <2>5, <2>6, <2>7 DEF Typed
<1>21. Ends'
  <2>1. /\ a.client.stops = Once(a.finished) /\ responses.client.ends = Once(responses.finished)
    BY <1>3 DEF Ends, message, response
  <2>2. a.finished \in BOOLEAN /\ responses.finished \in BOOLEAN /\ finish \in BOOLEAN
    BY <1>4, <1>6 DEF Translators, ResponsesTranslators
  <2>3. b.client.stops = Once(a.finished \/ finish)
    BY <1>17, <2>1, <2>2, CountedOnce
  <2>4. q.client.ends = Once(responses.finished \/ finish)
    BY <1>19, <2>1, <2>2, CountedOnce
  <2>5. b.client.stops = Once(b.finished) /\ q.client.ends = Once(q.finished)
    BY <1>17, <1>19, <2>3, <2>4, Zenon
  <2>6. QED
    BY <1>2, <1>19, <2>5 DEF Ends, message, response
<1>22. Placed'
  <2> SUFFICES ASSUME "cutClose" \notin odd' PROVE Settled(Steps, normalizer', place')
    BY DEF Placed
  <2>1. "cutClose" \notin odd /\ "cutClose" \notin found
    BY <1>2
  <2>2. Settled(Steps, normalizer, place)
    BY <1>2, <1>3, <2>1 DEF Placed
  <2>3. Settled(Steps, n, place')
    BY <1>2, <1>9, <1>11, <2>1, <2>2
  <2>4. QED
    BY <1>16, <2>3 DEF Settled, NormalizerSame
<1>23. Follows'
  <2>1. chunks' # 0
    <3>1. chunks \in Nat
      BY <1>4, StreamsAssumption
    <3>2. QED
      BY <1>2, <3>1
  <2>2. ASSUME Regular'
        PROVE  /\ ~b.client.confused
               /\ b.finished \/ sent'.calls # <<>> => place' = "text"
               /\ ~b.finished =>
                    b \in IF sent'.calls = <<>> THEN Fresh \cup Speaking ELSE Calling
    <3>1. Regular /\ \A name \in {"cutClose", "unclosed", "late", "noCall"} : name \notin found
      BY <1>2, <2>2 DEF Regular
    <3>2. /\ ~a.client.confused
          /\ a.finished \/ sent.calls # <<>> => place = "text"
          /\ ~a.finished => a \in IF sent.calls = <<>> THEN Fresh \cup Speaking ELSE Calling
      BY <1>2, <1>3, <3>1 DEF Follows, message
    <3>3. \A x \in Speaking \cup Calling : ~x.client.confused
      BY DEF Speaking, Calling, InStep
    <3>4. CASE a.finished
      <4>1. content = <<>> /\ reasoning = <<>> /\ calls = <<>>
        BY <1>11, <3>1, <3>4
      <4>2. place' = "text" /\ pieces = <<>> /\ sent'.calls = sent.calls
        BY <1>8, <1>9, <1>13, <3>2, <3>4, <4>1
      <4>3. a.started
        <5>1. ~a.started => a \in Fresh
          BY <1>2, <1>3 DEF Follows
        <5>2. QED
          BY <3>4, <5>1 DEF Fresh
      <4>4. QED
        BY <1>17, <3>2, <3>4, <4>1, <4>2, <4>3
    <3>5. CASE ~a.finished /\ sent.calls # <<>>
      <4>1. content = <<>> /\ reasoning = <<>>
        BY <1>11, <3>1, <3>5
      <4>2. place' = "text" /\ pieces = <<>> /\ a \in Calling
        BY <1>8, <1>9, <3>2, <3>5, <4>1
      <4>3. sent'.calls # <<>>
        BY <1>13, <3>5
      <4>4. IF ends THEN ~b.client.confused ELSE b \in Calling
        BY <1>17, <4>2
      <4>5. QED
        BY <1>17, <3>3, <3>5, <4>2, <4>3, <4>4
    <3>6. CASE ~a.finished /\ sent.calls = <<>>
      <4>1. a \in Fresh \cup Speaking /\ \A i \in DOMAIN calls : calls[i].new
        BY <1>11, <3>1, <3>2, <3>6
      <4>2. IF ends THEN ~b.client.confused
            ELSE b \in IF calls = <<>> THEN Speaking ELSE Calling
        BY <1>17, <4>1
      <4>3. calls # <<>> \/ finish => place' = "text"
        BY <1>6, <1>8, <1>11, <3>1
      <4>4. sent'.calls = <<>> <=> calls = <<>>
        BY <1>13, <3>6, <4>1
      <4>5. ~b.client.confused
        BY <3>3, <4>2
      <4>6. QED
        BY <1>17, <3>6, <4>2, <4>3, <4>4, <4>5
    <3>7. QED
      BY <3>4, <3>5, <3>6
  <2>3. QED
    BY <1>2, <1>17, <2>1, <2>2 DEF Follows, message
<1>24. QED
  BY <1>20, <1>21, <1>22, <1>23 DEF StreamsInv

\* The end of the stream keeps it.
LEMMA EndStreamKeeps == StreamsInv /\ EndStream => StreamsInv'
<1> SUFFICES ASSUME StreamsInv, EndStream PROVE StreamsInv'
  OBVIOUS
<1> DEFINE n == NormalizerFlushed(normalizer)
           pieces == n.out
           empty == chunks = 0
           opening == place = "opening"
           found == OddIf("empty", empty) \cup OddIf("openAtEnd", opening)
<1>1. /\ ~ended /\ ended' = TRUE
      /\ odd' = odd \cup found
      /\ normalizer' = [n EXCEPT !.out = <<>>]
      /\ anthropic' = AnthropicFlush(anthropic, pieces)
      /\ responses' = ResponsesFlush(responses, pieces)
      /\ place' = place /\ sent' = sent /\ chunks' = chunks
  BY DEF EndStream
<1>2. Typed /\ Ends /\ Placed /\ Follows
  BY DEF StreamsInv
<1>3. /\ place \in ModelPlaces /\ sent \in Sents /\ DOMAIN sent.inputs = DOMAIN sent.calls
      /\ odd \subseteq OddNames /\ chunks \in 0 .. MaxChunks
      /\ normalizer \in Normalizers /\ Buffered(normalizer) /\ normalizer.remaining = <<>>
      /\ anthropic \in Translators /\ anthropic.skipThinking \in SkipThinking
      /\ anthropic.blockOpen => anthropic.started
      /\ responses \in ResponsesTranslators /\ Len(responses.toolCalls) <= chunks
      /\ anthropic.started = responses.started /\ anthropic.finished = responses.finished
  BY <1>2 DEF Typed
<1>4. /\ found \subseteq OddNames
      /\ "empty" \notin found => chunks # 0
  BY DEF OddIf, OddNames
<1>5. /\ n \in Normalizers /\ Buffered(n) /\ n.remaining = <<>>
      /\ ~normalizer.inThinkTag => pieces = <<>>
  BY <1>3, NormalizerFlushedIs
<1> HIDE DEF n, found
<1>6. pieces \in Seq(NormalizedPieces)
  BY <1>5 DEF Normalizers
<1>7. /\ normalizer' \in Normalizers /\ normalizer'.remaining = <<>>
      /\ NormalizerSame(n, normalizer')
  <2>1. <<>> \in Seq(NormalizedPieces)
    OBVIOUS
  <2> HIDE DEF NormalizedPieces
  <2>2. QED
    BY <1>1, <1>5, <2>1 DEF Normalizers, NormalizerSame
<1> HIDE DEF pieces, CallStates, Translators, ResponsesTranslators
<1> DEFINE a == anthropic
           b == anthropic'
           q == responses'
<1>8. /\ b \in Translators /\ b.finished /\ b.started = a.started
      /\ b.skipThinking = a.skipThinking
      /\ b.client.stops = IF a.finished THEN a.client.stops ELSE a.client.stops + 1
      /\ a \in Speaking => ~b.client.confused
      /\ a \in Calling /\ pieces = <<>> => ~b.client.confused
      /\ ~a.client.confused /\ a.finished /\ pieces = <<>> => ~b.client.confused
      /\ ~a.blockOpen /\ pieces = <<>> => ~b.blockOpen
  BY <1>1, <1>3, <1>6, AnthropicFlushIs
<1>9. ~responses.finished => responses.outputIndex = 0
  BY <1>2 DEF Ends
<1>10. /\ q \in ResponsesTranslators /\ q.finished /\ q.started = responses.started
       /\ q.toolCalls = responses.toolCalls
       /\ q.client.ends = IF responses.finished THEN responses.client.ends
                          ELSE responses.client.ends + 1
  BY <1>1, <1>3, <1>6, <1>9, ResponsesFlushIs
<1>11. ~a.started => a \in Fresh /\ pieces = <<>>
  BY <1>1, <1>2, <1>5 DEF Follows
<1>12. Typed'
  <2>1. odd' \subseteq OddNames
    BY <1>1, <1>3, <1>4
  <2>2. Buffered(normalizer')
    BY <1>5, <1>7 DEF Buffered, NormalizerSame
  <2>3. b.blockOpen => b.started
    <3>1. a \in Fresh => ~a.blockOpen
      BY <1>3 DEF Fresh, InStep, Translators
    <3>2. QED
      BY <1>8, <1>11, <3>1
  <2>4. b.finished = q.finished
    <3>1. b.finished \in BOOLEAN /\ q.finished \in BOOLEAN
      BY <1>8, <1>10 DEF Translators, ResponsesTranslators
    <3>2. QED
      BY <1>8, <1>10, <3>1
  <2>5. b.started = q.started /\ Len(q.toolCalls) <= chunks
    BY <1>3, <1>8, <1>10
  <2>6. ended' \in BOOLEAN
    BY <1>1
  <2>7. QED
    BY <1>1, <1>3, <1>7, <1>8, <1>10, <2>1, <2>2, <2>3, <2>4, <2>5, <2>6 DEF Typed
<1>13. Ends'
  <2>1. /\ a.client.stops = Once(a.finished) /\ responses.client.ends = Once(responses.finished)
    BY <1>2 DEF Ends, message, response
  <2>2. b.client.stops = Once(b.finished) /\ q.client.ends = Once(q.finished)
    BY <1>8, <1>10, <2>1 DEF Once
  <2>3. QED
    BY <1>8, <1>10, <2>2 DEF Ends, message, response
<1>14. Placed'
  BY <1>1 DEF Placed
<1>15. Follows'
  <2>1. ASSUME Regular'
        PROVE  ~b.client.confused
    <3>1. Regular /\ chunks # 0
      BY <1>1, <1>4, <2>1 DEF Regular
    <3>2. /\ ~a.client.confused /\ a.started
          /\ a.finished \/ sent.calls # <<>> => place = "text"
          /\ ~a.finished => a \in IF sent.calls = <<>> THEN Fresh \cup Speaking ELSE Calling
      BY <1>1, <1>2, <3>1 DEF Follows, message
    <3>3. place = "text" => pieces = <<>>
      <4>1. Settled(Steps, normalizer, place)
        BY <1>1, <1>2, <3>1 DEF Placed, Regular
      <4>2. QED
        BY <1>5, <4>1 DEF Settled
    <3>4. CASE a.finished
      BY <1>8, <3>2, <3>3, <3>4
    <3>5. CASE ~a.finished /\ sent.calls # <<>>
      BY <1>8, <3>2, <3>3, <3>5
    <3>6. CASE ~a.finished /\ sent.calls = <<>>
      <4>1. a \notin Fresh
        BY <3>2 DEF Fresh
      <4>2. QED
        BY <1>8, <3>2, <3>6, <4>1
    <3>7. QED
      BY <3>4, <3>5, <3>6
  <2>2. QED
    BY <1>1, <2>1 DEF Follows, message
<1>16. QED
  BY <1>12, <1>13, <1>14, <1>15 DEF StreamsInv

\* Nothing the invariant speaks of changes when nothing happens.
LEMMA StutterKeeps == StreamsInv /\ UNCHANGED vars => StreamsInv'
  BY DEF StreamsInv, Typed, Ends, Placed, Follows, Regular, message, response, vars,
         backendVars

(*****************************************************************************)
(* However long a stream is and however it is cut, the normalizer holds back *)
(* only what may still become a tag and is where the backend's model is, the *)
(* translators begin and finish together, and StreamTranslator is in step    *)
(* with its client: processContentChunk and ProcessChunk, Flush and          *)
(* closeBlock of stream.go.  The inductive invariant of what follows.        *)
(*****************************************************************************)
THEOREM StreamsHangTogether == Spec => []StreamsInv
<1>1. StreamsInv /\ [Next]_vars => StreamsInv'
  BY ReceiveKeeps, EndStreamKeeps, StutterKeeps DEF Next
<1>2. QED
  BY InitHolds, <1>1, PTL DEF Spec

(*****************************************************************************)
(* Every reachable state has the types the code keeps, among them that there *)
(* is text in tagBuffer only inside a passage, in openTagBuffer only the     *)
(* start of a tag outside of one, that a block is open only once the message *)
(* has started, and that a custom tool's client was sent no more input than  *)
(* there is (the fields of normalize.go, stream.go, responses_stream.go).    *)
(*****************************************************************************)
THEOREM TypesHold == Spec => []TypeOK
<1>1. StreamsInv => TypeOK
  <2> SUFFICES ASSUME StreamsInv PROVE TypeOK
    OBVIOUS
  <2>1. Typed
    BY DEF StreamsInv
  <2>2. /\ sent.text \in Nat /\ sent.thoughts \in Nat /\ sent.calls \in Seq(Nat)
        /\ sent.field \in BOOLEAN /\ sent.tags \in BOOLEAN
        /\ DOMAIN sent.inputs = DOMAIN sent.calls
    BY <2>1 DEF Typed, Sents
  <2>3. /\ normalizer.inThinkTag \in BOOLEAN /\ normalizer.hasReasoning \in BOOLEAN
        /\ normalizer.tagBuffer \in Seq(Tokens) /\ normalizer.openTagBuffer \in Seq(Tokens)
    BY <2>1 DEF Typed, Normalizers
  <2>4. /\ normalizer.tagBuffer # <<>> => normalizer.inThinkTag
        /\ normalizer.openTagBuffer # <<>> =>
             ~normalizer.inThinkTag /\ IncompleteOpenTag(normalizer.openTagBuffer)
    BY <2>1 DEF Typed, Buffered, IncompleteOpenTag
  <2>5. anthropic.blockIndex \in Nat
    BY <2>1 DEF Typed, Translators
  <2>6. /\ responses.outputIndex \in 0 .. 1 /\ responses.contentIndex \in Nat
        /\ responses.toolCalls \in Seq(CallStates)
    BY <2>1 DEF Typed, ResponsesTranslators
  <2>7. ASSUME NEW i \in DOMAIN responses.toolCalls
        PROVE  responses.toolCalls[i].inputEmitted <= Len(responses.toolCalls[i].arguments)
    <3>1. responses.toolCalls[i] \in CallStates
      BY <2>6
    <3>2. QED
      BY <3>1 DEF CallStates
  <2> HIDE DEF CallStates
  <2>8. QED
    BY <2>1, <2>2, <2>3, <2>4, <2>5, <2>6, <2>7 DEF Typed, TypeOK
<1>2. QED
  BY <1>1, StreamsHangTogether, PTL

(*****************************************************************************)
(* Whatever the backend sends, in whatever order and wherever it breaks off, *)
(* a client of the Messages or of the Responses API is told exactly once     *)
(* that the answer is over: the `finished` of ProcessChunk and Flush.        *)
(*****************************************************************************)
THEOREM OneEnd == Spec => []EndsOnce
<1>1. StreamsInv => EndsOnce
  BY DEF StreamsInv, Ends, Once, EndsOnce
<1>2. QED
  BY <1>1, StreamsHangTogether, PTL

(*****************************************************************************)
(* A client of the Messages API can follow a stream of any length, cut and   *)
(* broken off anywhere, with reasoning, passages and text in any order       *)
(* before the calls: block starts, deltas and stops are paired and numbered  *)
(* (handleNormalizedContent, handleNormalizedReasoning, closeBlock).         *)
(*****************************************************************************)
THEOREM MessageCanBeFollowed == Spec => []MessageFollows
<1>1. StreamsInv => MessageFollows
  BY DEF StreamsInv, Follows, Regular, MessageFollows
<1>2. QED
  BY <1>1, StreamsHangTogether, PTL

-----------------------------------------------------------------------------
(*****************************************************************************)
(* Counting tokens.                                                          *)
(*****************************************************************************)

LEMMA CountEmpty == \A t : CountOf(t, <<>>) = 0
<1>1. \A t : {i \in DOMAIN <<>> : <<>>[i] = t} = {}
  OBVIOUS
<1>2. QED
  BY <1>1, FS_EmptySet DEF CountOf

\* A token that does not occur.
LEMMA CountNone ==
  ASSUME NEW t, NEW X, NEW s \in Seq(X), \A i \in 1 .. Len(s) : s[i] # t
  PROVE  CountOf(t, s) = 0
<1>1. {i \in DOMAIN s : s[i] = t} = {}
  OBVIOUS
<1>2. QED
  BY <1>1, FS_EmptySet DEF CountOf

LEMMA CountOne ==
  ASSUME NEW t, NEW x
  PROVE  CountOf(t, <<x>>) = IF x = t THEN 1 ELSE 0
<1> DEFINE at == {i \in DOMAIN <<x>> : <<x>>[i] = t}
<1>1. at = IF x = t THEN {1} ELSE {}
  OBVIOUS
<1> HIDE DEF at
<1>2. Cardinality(at) = IF x = t THEN 1 ELSE 0
  BY <1>1, FS_EmptySet, FS_Singleton
<1>3. QED
  BY <1>2 DEF CountOf, at

LEMMA CountConcat ==
  ASSUME NEW t, NEW X, NEW s \in Seq(X), NEW u \in Seq(X)
  PROVE  CountOf(t, s \o u) = CountOf(t, s) + CountOf(t, u)
<1> DEFINE k == Len(s)
           P == {i \in DOMAIN s : s[i] = t}
           Q == {i \in DOMAIN u : u[i] = t}
           R == {i \in DOMAIN (s \o u) : (s \o u)[i] = t}
           T == {k + i : i \in Q}
           f == [i \in Q |-> k + i]
<1>1. /\ k \in Nat /\ DOMAIN s = 1 .. k /\ DOMAIN u = 1 .. Len(u) /\ Len(u) \in Nat
      /\ Q \in SUBSET Nat
  OBVIOUS
<1>2. /\ DOMAIN (s \o u) = 1 .. k + Len(u)
      /\ \A i \in 1 .. k : (s \o u)[i] = s[i]
      /\ \A i \in 1 .. Len(u) : (s \o u)[k + i] = u[i]
  OBVIOUS
<1>3. IsFiniteSet(P) /\ IsFiniteSet(Q)
  <2>1. IsFiniteSet(1 .. k) /\ IsFiniteSet(1 .. Len(u))
    BY <1>1, FS_Interval
  <2>2. P \in SUBSET (1 .. k) /\ Q \in SUBSET (1 .. Len(u))
    OBVIOUS
  <2>3. QED
    BY <2>1, <2>2, FS_Subset
<1>4. R = P \cup T
  <2>1. ASSUME NEW i \in R PROVE i \in P \cup T
    <3>1. CASE i \in 1 .. k
      BY <1>2, <3>1
    <3>2. CASE i \notin 1 .. k
      <4>1. i \in 1 .. k + Len(u)
        BY <1>2
      <4>2. i - k \in 1 .. Len(u) /\ k + (i - k) = i
        BY <1>1, <3>2, <4>1
      <4>3. i - k \in Q
        BY <1>1, <1>2, <4>2
      <4>4. QED
        BY <4>2, <4>3
    <3>3. QED
      BY <3>1, <3>2
  <2>2. ASSUME NEW i \in P PROVE i \in R
    BY <1>1, <1>2
  <2>3. ASSUME NEW i \in Q PROVE k + i \in R
    BY <1>1, <1>2
  <2>4. QED
    BY <2>1, <2>2, <2>3
<1>5. P \cap T = {}
  BY <1>1
<1>6. ExistsBijection(Q, T)
  <2>1. f \in [Q -> T] /\ \A i \in Q : f[i] = k + i
    OBVIOUS
  <2>2. \A i, j \in Q : k + i = k + j => i = j
    BY <1>1
  <2> HIDE DEF f, Q
  <2>3. f \in Bijection(Q, T)
    BY <2>1, <2>2 DEF Bijection, Injection, IsInjective, Surjection
  <2>4. QED
    BY <2>3 DEF ExistsBijection
<1> HIDE DEF P, Q, R, T
<1>7. IsFiniteSet(T) /\ Cardinality(T) = Cardinality(Q)
  BY <1>3, <1>6, FS_Bijection
<1>8. Cardinality(P \cup T) = Cardinality(P) + Cardinality(T) - Cardinality(P \cap T)
  BY <1>3, <1>7, FS_Union
<1>9. Cardinality(P) \in Nat /\ Cardinality(T) \in Nat
  BY <1>3, <1>7, FS_CardinalityType
<1>10. Cardinality(R) = Cardinality(P) + Cardinality(Q)
  <2>1. Cardinality(P \cap T) = 0
    BY <1>5, FS_EmptySet
  <2> DEFINE p == Cardinality(P)
             q == Cardinality(T)
  <2>2. p \in Nat /\ q \in Nat /\ Cardinality(P \cup T) = p + q - 0
    BY <1>8, <1>9, <2>1
  <2>3. Cardinality(R) = Cardinality(P \cup T) /\ q = Cardinality(Q)
    BY <1>4, <1>7
  <2> HIDE DEF p, q
  <2>4. p + q - 0 = p + q
    BY <2>2
  <2>5. QED
    BY <2>2, <2>3, <2>4 DEF p
<1>11. QED
  BY <1>10 DEF CountOf, P, Q, R

\* A sequence is what is before a place, that place, and what is after it.
LEMMA CountSplit ==
  ASSUME NEW t, NEW X, NEW s \in Seq(X), NEW i \in 1 .. Len(s)
  PROVE  CountOf(t, s) = CountOf(t, Before(s, i)) + (IF s[i] = t THEN 1 ELSE 0)
                         + CountOf(t, After(s, i))
<1> DEFINE x == s[i]
           b == Before(s, i)
           a == After(s, i)
           c == <<x>>
<1>1. x \in X /\ c \in Seq(X)
  OBVIOUS
<1>2. b \in Seq(X) /\ a \in Seq(X)
  BY PartsAre
<1>3. s = (b \o c) \o a
  <2>1. /\ Len(s) \in Nat /\ i \in Nat /\ i - 1 \in 0 .. Len(s) /\ i \in i .. Len(s)
        /\ i <= Len(s) /\ 1 \in 1 .. Len(s) + 1 /\ 1 \in 1 .. Len(s)
        /\ i \in 1 .. Len(s) /\ i \in 1 - 1 .. Len(s) /\ Len(s) \in i .. Len(s)
    OBVIOUS
  <2>2. SubSeq(s, 1, i) = SubSeq(s, 1, i - 1) \o <<s[i]>>
    BY <2>1, SubSeqRecursiveSecond
  <2>3. SubSeq(s, 1, i) \o SubSeq(s, i + 1, Len(s)) = SubSeq(s, 1, Len(s))
    BY <2>1, ConcatAdjacentSubSeq
  <2>4. SubSeq(s, 1, Len(s)) = s
    BY SubSeqFull
  <2>5. QED
    BY <2>2, <2>3, <2>4 DEF Before, After
<1> HIDE DEF b, a, c
<1>4. b \o c \in Seq(X)
  BY <1>1, <1>2
<1>5. CountOf(t, s) = CountOf(t, b \o c) + CountOf(t, a)
  BY <1>2, <1>3, <1>4, CountConcat
<1>6. CountOf(t, b \o c) = CountOf(t, b) + CountOf(t, c)
  BY <1>1, <1>2, CountConcat
<1>7. CountOf(t, c) = IF x = t THEN 1 ELSE 0
  BY CountOne DEF c
<1>8. QED
  BY <1>5, <1>6, <1>7 DEF a, b

\* Where halves of tags meet, no word is lost.
LEMMA CountJoined ==
  ASSUME NEW t \in {"text", "thought"}, NEW s \in Seq(Tokens), NEW u \in Seq(Tokens)
  PROVE  CountOf(t, Joined(s, u)) = CountOf(t, s) + CountOf(t, u)
<1> DEFINE meet == s # <<>> /\ u # <<>> /\ Last(s) = "open1" /\ Head(u) = "open2"
<1>1. CASE ~meet
  <2>1. Joined(s, u) = s \o u
    BY <1>1 DEF Joined
  <2>2. QED
    BY <2>1, CountConcat
<1>2. CASE meet
  <2> DEFINE front == Front(s)
             rest == Tail(u)
             tag == <<"open">>
             half == <<"open1">>
             other == <<"open2">>
  <2>1. Joined(s, u) = (front \o tag) \o rest
    BY <1>2 DEF Joined
  <2>2. Len(s) \in Nat \ {0} /\ Len(u) \in Nat \ {0}
    BY <1>2, EmptySeq
  <2>3. front \in Seq(Tokens) /\ rest \in Seq(Tokens)
    BY <1>2, <2>2 DEF Front
  <2>4. tag \in Seq(Tokens) /\ half \in Seq(Tokens) /\ other \in Seq(Tokens)
    BY DEF Tokens
  <2>5. s = front \o half
    <3>1. /\ 1 \in 1 .. Len(s) /\ Len(s) \in 1 .. Len(s) /\ s[Len(s)] = "open1"
      BY <1>2, <2>2 DEF Last
    <3>2. SubSeq(s, 1, Len(s)) = SubSeq(s, 1, Len(s) - 1) \o <<s[Len(s)]>>
      BY <3>1, SubSeqRecursiveSecond
    <3>3. SubSeq(s, 1, Len(s)) = s
      BY SubSeqFull
    <3>4. QED
      BY <3>1, <3>2, <3>3 DEF Front
  <2>6. u = other \o rest
    <3>1. /\ 1 \in 1 .. Len(u) /\ Len(u) \in 1 .. Len(u) /\ u[1] = "open2" /\ 1 + 1 = 2
      BY <1>2, <2>2
    <3>2. SubSeq(u, 1, Len(u)) = <<u[1]>> \o SubSeq(u, 1 + 1, Len(u))
      BY <3>1, SubSeqRecursiveFirst
    <3>3. SubSeq(u, 1, Len(u)) = u
      BY SubSeqFull
    <3>4. rest = SubSeq(u, 2, Len(u))
      BY <1>2, TailIsSubSeq
    <3>5. QED
      BY <3>1, <3>2, <3>3, <3>4
  <2>7. CountOf(t, tag) = 0 /\ CountOf(t, half) = 0 /\ CountOf(t, other) = 0
    BY CountOne
  <2> HIDE DEF front, rest, tag, half, other
  <2>8. CountOf(t, s) = CountOf(t, front) + CountOf(t, half)
    BY <2>3, <2>4, <2>5, CountConcat
  <2>9. CountOf(t, u) = CountOf(t, other) + CountOf(t, rest)
    BY <2>3, <2>4, <2>6, CountConcat
  <2>10. front \o tag \in Seq(Tokens)
    BY <2>3, <2>4
  <2>11. CountOf(t, (front \o tag) \o rest) = CountOf(t, front \o tag) + CountOf(t, rest)
    BY <2>3, <2>10, CountConcat
  <2>12. CountOf(t, front \o tag) = CountOf(t, front) + CountOf(t, tag)
    BY <2>3, <2>4, CountConcat
  <2>13. CountOf(t, front) \in Nat /\ CountOf(t, rest) \in Nat
    BY <2>3, CountIsNumber
  <2>14. QED
    BY <2>1, <2>7, <2>8, <2>9, <2>11, <2>12, <2>13
<1>3. QED
  BY <1>1, <1>2

-----------------------------------------------------------------------------
(*****************************************************************************)
(* Folds over pieces, step by step: what each of the three clients' folds is *)
(* before and after its i-th piece.                                          *)
(*****************************************************************************)

PieceRuns(S, h, b, s) ==
  /\ h \in [0 .. Len(s) -> S] /\ h[0] = b /\ h[Len(s)] = FoldLeft(Piece, b, s)
  /\ \A i \in 1 .. Len(s) : h[i] = Piece(h[i - 1], s[i])

LEMMA PieceRunsAre ==
  ASSUME NEW S, NEW E, NEW b \in S, NEW s \in Seq(E),
         \A x \in S, e \in E : Piece(x, e) \in S
  PROVE  \E h : PieceRuns(S, h, b, s)
<1> DEFINE n == Len(s)
           F == [p \in S \X (1 .. n) |-> Piece(p[1], s[p[2]])]
           G(it) == it = [T \in SUBSET (1 .. n) |->
                            IF T = {} THEN b ELSE Piece(it[T \ {Max(T)}], s[Max(T)])]
           c == CHOOSE it : G(it)
           h == [i \in 0 .. n |-> c[1 .. i]]
<1>1. n \in Nat /\ DOMAIN s = 1 .. n /\ \A i \in 1 .. n : s[i] \in E
  OBVIOUS
<1>2. F \in [S \X (1 .. n) -> S]
  BY <1>1
<1>3. \A x \in S, i \in 1 .. n : F[<<x, i>>] = Piece(x, s[i])
  OBVIOUS
<1> HIDE DEF F
<1>4. PICK it \in [SUBSET (1 .. n) -> S] : FoldOf(it, F, b, n)
  BY <1>1, <1>2, FoldExists
<1>5. ASSUME NEW T \in SUBSET (1 .. n)
      PROVE  it[T] = IF T = {} THEN b ELSE Piece(it[T \ {Max(T)}], s[Max(T)])
  <2>1. T # {} => Max(T) \in T
    BY <1>1, LastOf
  <2>2. QED
    BY <1>3, <1>4, <2>1 DEF FoldOf
<1>6. G(c)
  BY <1>5
<1>7. FoldLeft(Piece, b, s) = c[1 .. n]
  BY <1>1 DEF FoldLeft, MapThenFoldSet
<1> HIDE DEF c
<1>8. ASSUME NEW k \in 1 .. n PROVE c[1 .. k] = Piece(c[1 .. (k - 1)], s[k])
  <2>1. Max(1 .. k) = k /\ (1 .. k) \ {k} = 1 .. (k - 1) /\ 1 .. k # {}
    BY <1>1, LastPlace
  <2>2. 1 .. k \in SUBSET (1 .. n)
    BY <1>1
  <2>3. QED
    BY <1>6, <2>1, <2>2
<1>9. c[{}] = b
  BY <1>6
<1>10. ASSUME NEW m \in 0 .. n PROVE c[1 .. m] \in S
  <2>1. \A k \in 1 .. m : c[1 .. (k - 1)] \in S => c[1 .. k] \in S
    BY <1>1, <1>8
  <2>2. QED
    BY <1>1, <1>9, <2>1, FoldKeeps
<1>11. 1 .. 0 = {} /\ 0 \in 0 .. n /\ n \in 0 .. n
  BY <1>1
<1>12. \A k \in 1 .. n : k \in 0 .. n /\ k - 1 \in 0 .. n
  BY <1>1
<1> HIDE DEF n
<1>13. h \in [0 .. n -> S] /\ h[0] = b /\ h[n] = FoldLeft(Piece, b, s)
  BY <1>7, <1>9, <1>10, <1>11
<1>14. \A k \in 1 .. n : h[k] = Piece(h[k - 1], s[k])
  BY <1>8, <1>12
<1> HIDE DEF h
<1>15. QED
  BY <1>13, <1>14 DEF n, PieceRuns

RPieceRuns(S, h, b, s) ==
  /\ h \in [0 .. Len(s) -> S] /\ h[0] = b /\ h[Len(s)] = FoldLeft(RPiece, b, s)
  /\ \A i \in 1 .. Len(s) : h[i] = RPiece(h[i - 1], s[i])

LEMMA RPieceRunsAre ==
  ASSUME NEW S, NEW E, NEW b \in S, NEW s \in Seq(E),
         \A x \in S, e \in E : RPiece(x, e) \in S
  PROVE  \E h : RPieceRuns(S, h, b, s)
<1> DEFINE n == Len(s)
           F == [p \in S \X (1 .. n) |-> RPiece(p[1], s[p[2]])]
           G(it) == it = [T \in SUBSET (1 .. n) |->
                            IF T = {} THEN b ELSE RPiece(it[T \ {Max(T)}], s[Max(T)])]
           c == CHOOSE it : G(it)
           h == [i \in 0 .. n |-> c[1 .. i]]
<1>1. n \in Nat /\ DOMAIN s = 1 .. n /\ \A i \in 1 .. n : s[i] \in E
  OBVIOUS
<1>2. F \in [S \X (1 .. n) -> S]
  BY <1>1
<1>3. \A x \in S, i \in 1 .. n : F[<<x, i>>] = RPiece(x, s[i])
  OBVIOUS
<1> HIDE DEF F
<1>4. PICK it \in [SUBSET (1 .. n) -> S] : FoldOf(it, F, b, n)
  BY <1>1, <1>2, FoldExists
<1>5. ASSUME NEW T \in SUBSET (1 .. n)
      PROVE  it[T] = IF T = {} THEN b ELSE RPiece(it[T \ {Max(T)}], s[Max(T)])
  <2>1. T # {} => Max(T) \in T
    BY <1>1, LastOf
  <2>2. QED
    BY <1>3, <1>4, <2>1 DEF FoldOf
<1>6. G(c)
  BY <1>5
<1>7. FoldLeft(RPiece, b, s) = c[1 .. n]
  BY <1>1 DEF FoldLeft, MapThenFoldSet
<1> HIDE DEF c
<1>8. ASSUME NEW k \in 1 .. n PROVE c[1 .. k] = RPiece(c[1 .. (k - 1)], s[k])
  <2>1. Max(1 .. k) = k /\ (1 .. k) \ {k} = 1 .. (k - 1) /\ 1 .. k # {}
    BY <1>1, LastPlace
  <2>2. 1 .. k \in SUBSET (1 .. n)
    BY <1>1
  <2>3. QED
    BY <1>6, <2>1, <2>2
<1>9. c[{}] = b
  BY <1>6
<1>10. ASSUME NEW m \in 0 .. n PROVE c[1 .. m] \in S
  <2>1. \A k \in 1 .. m : c[1 .. (k - 1)] \in S => c[1 .. k] \in S
    BY <1>1, <1>8
  <2>2. QED
    BY <1>1, <1>9, <2>1, FoldKeeps
<1>11. 1 .. 0 = {} /\ 0 \in 0 .. n /\ n \in 0 .. n
  BY <1>1
<1>12. \A k \in 1 .. n : k \in 0 .. n /\ k - 1 \in 0 .. n
  BY <1>1
<1> HIDE DEF n
<1>13. h \in [0 .. n -> S] /\ h[0] = b /\ h[n] = FoldLeft(RPiece, b, s)
  BY <1>7, <1>9, <1>10, <1>11
<1>14. \A k \in 1 .. n : h[k] = RPiece(h[k - 1], s[k])
  BY <1>8, <1>12
<1> HIDE DEF h
<1>15. QED
  BY <1>13, <1>14 DEF n, RPieceRuns

PlainReadRuns(S, h, b, s) ==
  /\ h \in [0 .. Len(s) -> S] /\ h[0] = b /\ h[Len(s)] = FoldLeft(PlainRead, b, s)
  /\ \A i \in 1 .. Len(s) : h[i] = PlainRead(h[i - 1], s[i])

LEMMA PlainReadRunsAre ==
  ASSUME NEW S, NEW E, NEW b \in S, NEW s \in Seq(E),
         \A x \in S, e \in E : PlainRead(x, e) \in S
  PROVE  \E h : PlainReadRuns(S, h, b, s)
<1> DEFINE n == Len(s)
           F == [p \in S \X (1 .. n) |-> PlainRead(p[1], s[p[2]])]
           G(it) == it = [T \in SUBSET (1 .. n) |->
                            IF T = {} THEN b ELSE PlainRead(it[T \ {Max(T)}], s[Max(T)])]
           c == CHOOSE it : G(it)
           h == [i \in 0 .. n |-> c[1 .. i]]
<1>1. n \in Nat /\ DOMAIN s = 1 .. n /\ \A i \in 1 .. n : s[i] \in E
  OBVIOUS
<1>2. F \in [S \X (1 .. n) -> S]
  BY <1>1
<1>3. \A x \in S, i \in 1 .. n : F[<<x, i>>] = PlainRead(x, s[i])
  OBVIOUS
<1> HIDE DEF F
<1>4. PICK it \in [SUBSET (1 .. n) -> S] : FoldOf(it, F, b, n)
  BY <1>1, <1>2, FoldExists
<1>5. ASSUME NEW T \in SUBSET (1 .. n)
      PROVE  it[T] = IF T = {} THEN b ELSE PlainRead(it[T \ {Max(T)}], s[Max(T)])
  <2>1. T # {} => Max(T) \in T
    BY <1>1, LastOf
  <2>2. QED
    BY <1>3, <1>4, <2>1 DEF FoldOf
<1>6. G(c)
  BY <1>5
<1>7. FoldLeft(PlainRead, b, s) = c[1 .. n]
  BY <1>1 DEF FoldLeft, MapThenFoldSet
<1> HIDE DEF c
<1>8. ASSUME NEW k \in 1 .. n PROVE c[1 .. k] = PlainRead(c[1 .. (k - 1)], s[k])
  <2>1. Max(1 .. k) = k /\ (1 .. k) \ {k} = 1 .. (k - 1) /\ 1 .. k # {}
    BY <1>1, LastPlace
  <2>2. 1 .. k \in SUBSET (1 .. n)
    BY <1>1
  <2>3. QED
    BY <1>6, <2>1, <2>2
<1>9. c[{}] = b
  BY <1>6
<1>10. ASSUME NEW m \in 0 .. n PROVE c[1 .. m] \in S
  <2>1. \A k \in 1 .. m : c[1 .. (k - 1)] \in S => c[1 .. k] \in S
    BY <1>1, <1>8
  <2>2. QED
    BY <1>1, <1>9, <2>1, FoldKeeps
<1>11. 1 .. 0 = {} /\ 0 \in 0 .. n /\ n \in 0 .. n
  BY <1>1
<1>12. \A k \in 1 .. n : k \in 0 .. n /\ k - 1 \in 0 .. n
  BY <1>1
<1> HIDE DEF n
<1>13. h \in [0 .. n -> S] /\ h[0] = b /\ h[n] = FoldLeft(PlainRead, b, s)
  BY <1>7, <1>9, <1>10, <1>11
<1>14. \A k \in 1 .. n : h[k] = PlainRead(h[k - 1], s[k])
  BY <1>8, <1>12
<1> HIDE DEF h
<1>15. QED
  BY <1>13, <1>14 DEF n, PlainReadRuns

-----------------------------------------------------------------------------
(*****************************************************************************)
(* What pieces say: the text and the thoughts that a plain client has from   *)
(* them, and whether they hold what they should not.                         *)
(*****************************************************************************)

PlainReaders(calls) == [text : Nat, thoughts : Nat, leaked : BOOLEAN, calls : {calls}]

Fit(kind) == IF kind = "content" THEN {"text", "open1"} ELSE {"thought", "close1"}

LEMMA PlainReadIs ==
  ASSUME NEW calls, NEW m \in PlainReaders(calls), NEW p \in NormalizedPieces
  PROVE  LET q == PlainRead(m, p)
         IN /\ q \in PlainReaders(calls)
            /\ q.text = m.text + (IF p.kind = "content" THEN CountOf("text", p.tokens) ELSE 0)
            /\ q.thoughts = m.thoughts
                 + (IF p.kind = "content" THEN 0 ELSE CountOf("thought", p.tokens))
            /\ q.leaked <=> m.leaked \/ ~(ToSet(p.tokens) \subseteq Fit(p.kind))
<1> DEFINE texts == CountOf("text", p.tokens)
           thoughts == CountOf("thought", p.tokens)
           bad == ~(ToSet(p.tokens) \subseteq Fit(p.kind))
<1>1. texts \in Nat /\ thoughts \in Nat
  BY CountIsNumber DEF NormalizedPieces
<1>2. PlainRead(m, p) = IF p.kind = "content"
                        THEN [m EXCEPT !.text = @ + texts, !.leaked = @ \/ bad]
                        ELSE [m EXCEPT !.thoughts = @ + thoughts, !.leaked = @ \/ bad]
  BY DEF PlainRead, Fit
<1>3. bad \in BOOLEAN
  OBVIOUS
<1> HIDE DEF texts, thoughts, bad
<1>4. m.text \in Nat /\ m.thoughts \in Nat /\ m.leaked \in BOOLEAN
  BY DEF PlainReaders
<1>5. m.text + texts \in Nat /\ m.thoughts + thoughts \in Nat
      /\ m.text + 0 = m.text /\ m.thoughts + 0 = m.thoughts
  BY <1>1, <1>4
<1> DEFINE more == m.text + texts
           mind == m.thoughts + thoughts
           spoilt == m.leaked \/ bad
<1>6. more \in Nat /\ mind \in Nat /\ spoilt \in BOOLEAN
  BY <1>5
<1>7. PlainRead(m, p) = IF p.kind = "content"
                        THEN [m EXCEPT !.text = more, !.leaked = spoilt]
                        ELSE [m EXCEPT !.thoughts = mind, !.leaked = spoilt]
  BY <1>2
<1> HIDE DEF more, mind, spoilt
<1>8. LET q == PlainRead(m, p)
      IN /\ q \in PlainReaders(calls)
         /\ q.text = IF p.kind = "content" THEN more ELSE m.text
         /\ q.thoughts = IF p.kind = "content" THEN m.thoughts ELSE mind
         /\ q.leaked = spoilt
  BY <1>6, <1>7 DEF PlainReaders
<1>9. QED
  BY <1>5, <1>8 DEF more, mind, spoilt, texts, thoughts, bad

Heard(pieces) == FoldLeft(PlainRead, NewPlainReader, pieces)

\* What a client has from a stream of pieces it has from each of them.
LEMMA HeardIs ==
  ASSUME NEW calls, NEW m \in PlainReaders(calls), NEW s \in Seq(NormalizedPieces)
  PROVE  LET q == FoldLeft(PlainRead, m, s)
         IN /\ Heard(s) \in PlainReaders(NoCalls)
            /\ q \in PlainReaders(calls)
            /\ q.text = m.text + Heard(s).text
            /\ q.thoughts = m.thoughts + Heard(s).thoughts
            /\ q.leaked <=> m.leaked \/ Heard(s).leaked
<1> DEFINE S == PlainReaders(calls)
           Z == PlainReaders(NoCalls)
           n == NewPlainReader
           k == Len(s)
           E == NormalizedPieces
<1>1. n \in Z /\ n.text = 0 /\ n.thoughts = 0 /\ ~n.leaked
  BY DEF NewPlainReader, PlainReaders
<1>2. \A x \in S, e \in E : PlainRead(x, e) \in S
  BY PlainReadIs
<1>3. \A x \in Z, e \in E : PlainRead(x, e) \in Z
  BY PlainReadIs
<1>4. m \in S /\ k \in Nat /\ s \in Seq(E) /\ \A i \in 1 .. k : s[i] \in E
  OBVIOUS
<1> HIDE DEF S, Z, n, E, k
<1>5. PICK h : PlainReadRuns(S, h, m, s)
  BY <1>2, <1>4, PlainReadRunsAre
<1>6. PICK z : PlainReadRuns(Z, z, n, s)
  BY <1>1, <1>3, <1>4, PlainReadRunsAre
<1>7. /\ h \in [0 .. k -> S] /\ h[0] = m /\ h[k] = FoldLeft(PlainRead, m, s)
      /\ \A i \in 1 .. k : h[i] = PlainRead(h[i - 1], s[i])
  BY <1>5 DEF PlainReadRuns, k
<1>8. /\ z \in [0 .. k -> Z] /\ z[0] = n /\ z[k] = Heard(s)
      /\ \A i \in 1 .. k : z[i] = PlainRead(z[i - 1], s[i])
  BY <1>6 DEF PlainReadRuns, k, Heard, n
<1> DEFINE Agree(a, b) ==
             /\ a.text = m.text + b.text /\ a.thoughts = m.thoughts + b.thoughts
             /\ a.leaked <=> m.leaked \/ b.leaked
           U == {i \in Nat : i <= k => Agree(h[i], z[i])}
<1>9. Agree(m, n)
  <2>1. m.text \in Nat /\ m.thoughts \in Nat
    BY <1>4 DEF S, PlainReaders
  <2>2. QED
    BY <1>1, <2>1
<1>10. 0 \in U
  <2> HIDE DEF Agree
  <2>1. QED
    BY <1>7, <1>8, <1>9
<1>11. ASSUME NEW a \in S, NEW b \in Z, Agree(a, b), NEW e \in E
       PROVE  Agree(PlainRead(a, e), PlainRead(b, e))
  <2> DEFINE dt == IF e.kind = "content" THEN CountOf("text", e.tokens) ELSE 0
             dh == IF e.kind = "content" THEN 0 ELSE CountOf("thought", e.tokens)
             bad == ~(ToSet(e.tokens) \subseteq Fit(e.kind))
             p == PlainRead(a, e)
             q == PlainRead(b, e)
  <2>1. dt \in Nat /\ dh \in Nat
    BY CountIsNumber DEF E, NormalizedPieces
  <2>2. p.text = a.text + dt /\ p.thoughts = a.thoughts + dh /\ (p.leaked <=> a.leaked \/ bad)
    BY PlainReadIs DEF S, E
  <2>3. q.text = b.text + dt /\ q.thoughts = b.thoughts + dh /\ (q.leaked <=> b.leaked \/ bad)
    BY PlainReadIs DEF Z, E
  <2>4. /\ a.text \in Nat /\ a.thoughts \in Nat /\ b.text \in Nat /\ b.thoughts \in Nat
        /\ m.text \in Nat /\ m.thoughts \in Nat
    BY <1>4 DEF S, Z, PlainReaders
  <2> HIDE DEF dt, dh, bad, p, q
  <2>5. p.text = m.text + q.text
    BY <1>11, <2>1, <2>2, <2>3, <2>4
  <2>6. p.thoughts = m.thoughts + q.thoughts
    BY <1>11, <2>1, <2>2, <2>3, <2>4
  <2>7. p.leaked <=> m.leaked \/ q.leaked
    BY <1>11, <2>2, <2>3
  <2>8. QED
    BY <2>5, <2>6, <2>7 DEF p, q
<1>12. ASSUME NEW i \in U PROVE i + 1 \in U
  <2> SUFFICES ASSUME i + 1 <= k PROVE Agree(h[i + 1], z[i + 1])
    OBVIOUS
  <2>1. i + 1 \in 1 .. k /\ (i + 1) - 1 = i /\ i <= k /\ i \in 0 .. k
    BY <1>4
  <2>2. h[i + 1] = PlainRead(h[i], s[i + 1]) /\ z[i + 1] = PlainRead(z[i], s[i + 1])
    BY <1>7, <1>8, <2>1
  <2>3. h[i] \in S /\ z[i] \in Z /\ Agree(h[i], z[i]) /\ s[i + 1] \in E
    BY <1>4, <1>7, <1>8, <2>1
  <2> HIDE DEF Agree
  <2>4. QED
    BY <1>11, <2>2, <2>3
<1>13. U = Nat
  <2> HIDE DEF U
  <2>1. U \in SUBSET Nat
    BY DEF U
  <2>2. QED
    BY <1>10, <1>12, <2>1, NumbersByInduction
<1>14. Agree(h[k], z[k]) /\ h[k] \in S /\ z[k] \in Z
  <2>1. k \in U /\ k <= k /\ k \in 0 .. k
    BY <1>4, <1>13
  <2> HIDE DEF Agree
  <2>2. QED
    BY <1>7, <1>8, <2>1
<1>15. QED
  BY <1>7, <1>8, <1>14 DEF S, Z

LEMMA HeardNothing ==
  /\ Heard(<<>>) = NewPlainReader
  /\ NewPlainReader \in PlainReaders(NoCalls)
  /\ NewPlainReader.text = 0 /\ NewPlainReader.thoughts = 0 /\ ~NewPlainReader.leaked
<1> DEFINE n == NewPlainReader
           S == {n}
           E == {}
<1>1. n \in PlainReaders(NoCalls) /\ n.text = 0 /\ n.thoughts = 0 /\ ~n.leaked
  BY DEF NewPlainReader, PlainReaders
<1>2. n \in S /\ <<>> \in Seq(E) /\ \A x \in S, e \in E : PlainRead(x, e) \in S
  OBVIOUS
<1> HIDE DEF S, E
<1>3. \E h : PlainReadRuns(S, h, n, <<>>)
  BY <1>2, PlainReadRunsAre
<1>4. Len(<<>>) = 0
  OBVIOUS
<1>5. FoldLeft(PlainRead, n, <<>>) = n
  BY <1>3, <1>4 DEF PlainReadRuns
<1>6. QED
  BY <1>1, <1>5 DEF Heard

LEMMA HeardMore ==
  ASSUME NEW s \in Seq(NormalizedPieces), NEW p \in NormalizedPieces
  PROVE  Heard(Append(s, p)) = PlainRead(Heard(s), p)
<1> DEFINE S == PlainReaders(NoCalls)
           E == NormalizedPieces
           n == NewPlainReader
           k == Len(s)
           t == Append(s, p)
<1>1. n \in S
  BY HeardNothing
<1>2. \A x \in S, e \in E : PlainRead(x, e) \in S
  BY PlainReadIs
<1>3. s \in Seq(E) /\ p \in E /\ k \in Nat
  OBVIOUS
<1> HIDE DEF S, E, n
<1>4. t \in Seq(E) /\ Len(t) = k + 1 /\ t[k + 1] = p /\ \A i \in 1 .. k : t[i] = s[i]
  BY <1>3
<1> HIDE DEF t, k
<1>5. PICK h : PlainReadRuns(S, h, n, s)
  BY <1>1, <1>2, <1>3, PlainReadRunsAre
<1>6. PICK z : PlainReadRuns(S, z, n, t)
  BY <1>1, <1>2, <1>4, PlainReadRunsAre
<1>7. /\ h[0] = n /\ h[k] = Heard(s) /\ \A i \in 1 .. k : h[i] = PlainRead(h[i - 1], s[i])
  BY <1>5 DEF PlainReadRuns, k, Heard, n
<1>8. /\ z[0] = n /\ z[k + 1] = Heard(t)
      /\ \A i \in 1 .. k + 1 : z[i] = PlainRead(z[i - 1], t[i])
  BY <1>4, <1>6 DEF PlainReadRuns, Heard, n
<1> DEFINE U == {i \in Nat : i <= k => h[i] = z[i]}
<1>9. 0 \in U
  BY <1>7, <1>8
<1>10. ASSUME NEW i \in U PROVE i + 1 \in U
  <2> SUFFICES ASSUME i + 1 <= k PROVE h[i + 1] = z[i + 1]
    OBVIOUS
  <2>1. i + 1 \in 1 .. k /\ (i + 1) - 1 = i /\ i <= k /\ i + 1 \in 1 .. k + 1
    BY <1>3
  <2>2. h[i + 1] = PlainRead(h[i], s[i + 1]) /\ z[i + 1] = PlainRead(z[i], t[i + 1])
    BY <1>7, <1>8, <2>1
  <2>3. QED
    BY <1>4, <2>1, <2>2
<1>11. U = Nat
  <2> HIDE DEF U
  <2>1. U \in SUBSET Nat
    BY DEF U
  <2>2. QED
    BY <1>9, <1>10, <2>1, NumbersByInduction
<1>12. h[k] = z[k] /\ k + 1 \in 1 .. k + 1 /\ (k + 1) - 1 = k
  BY <1>3, <1>11
<1>13. z[k + 1] = PlainRead(z[k], p)
  BY <1>4, <1>8, <1>12
<1>14. QED
  BY <1>7, <1>8, <1>12, <1>13 DEF t

-----------------------------------------------------------------------------
(*****************************************************************************)
(* What the normalizer says: `Adds' when it goes from n to q by telling s as *)
(* text and t as a passage in tags.                                          *)
(*****************************************************************************)

Adds(n, q, s, t) ==
  /\ q.hasReasoning = n.hasReasoning
  /\ Heard(q.out).text = Heard(n.out).text + CountOf("text", s)
  /\ Heard(q.out).thoughts =
       Heard(n.out).thoughts + (IF n.hasReasoning THEN 0 ELSE CountOf("thought", t))
  /\ ~Heard(n.out).leaked /\ ToSet(s) \subseteq Fit("content")
       /\ ToSet(t) \subseteq Fit("reasoning") => ~Heard(q.out).leaked

Mute(n, q) == q.hasReasoning = n.hasReasoning /\ q.out = n.out

LEMMA HeardIsNumber ==
  ASSUME NEW n \in Normalizers
  PROVE  Heard(n.out).text \in Nat /\ Heard(n.out).thoughts \in Nat
         /\ Heard(n.out).leaked \in BOOLEAN
<1>1. n.out \in Seq(NormalizedPieces)
  BY DEF Normalizers
<1>2. NewPlainReader \in PlainReaders(NoCalls)
  BY HeardNothing
<1>3. Heard(n.out) \in PlainReaders(NoCalls)
  BY <1>1, <1>2, HeardIs
<1>4. QED
  BY <1>3 DEF PlainReaders

LEMMA MuteAdds ==
  ASSUME NEW n \in Normalizers, NEW q, Mute(n, q)
  PROVE  Adds(n, q, <<>>, <<>>)
  BY HeardIsNumber, CountEmpty DEF Adds, Mute

LEMMA EmitTells ==
  ASSUME NEW n \in Normalizers, NEW tokens \in Seq(Tokens)
  PROVE  /\ Adds(n, Emit(n, "content", tokens), tokens, <<>>)
         /\ Adds(n, EmitTagged(n, tokens), <<>>, tokens)
         /\ LET q == Emit(n, "reasoning", tokens)
            IN /\ q.hasReasoning = n.hasReasoning
               /\ Heard(q.out).text = Heard(n.out).text
               /\ Heard(q.out).thoughts = Heard(n.out).thoughts + CountOf("thought", tokens)
               /\ ~Heard(n.out).leaked /\ ToSet(tokens) \subseteq Fit("reasoning")
                    => ~Heard(q.out).leaked
<1> DEFINE h == Heard(n.out)
           Says(k, q) ==
             /\ q.hasReasoning = n.hasReasoning
             /\ Heard(q.out).text
                  = h.text + (IF k = "content" THEN CountOf("text", tokens) ELSE 0)
             /\ Heard(q.out).thoughts
                  = h.thoughts + (IF k = "content" THEN 0 ELSE CountOf("thought", tokens))
             /\ ~h.leaked /\ ToSet(tokens) \subseteq Fit(k) => ~Heard(q.out).leaked
<1>1. ASSUME NEW k \in {"content", "reasoning"} PROVE Says(k, Emit(n, k, tokens))
  <2> DEFINE p == [kind |-> k, tokens |-> tokens]
             q == Emit(n, k, tokens)
  <2>1. p \in NormalizedPieces /\ p.kind = k /\ p.tokens = tokens
    BY DEF NormalizedPieces
  <2>2. n.out \in Seq(NormalizedPieces)
    BY DEF Normalizers
  <2>3. h \in PlainReaders(NoCalls)
    BY <2>2, HeardIs, HeardNothing
  <2>4. h.text \in Nat /\ h.thoughts \in Nat /\ h.leaked \in BOOLEAN
    BY <2>3 DEF PlainReaders
  <2>5. CASE tokens = <<>>
    <3>1. q = n
      BY <2>5 DEF Emit
    <3>2. CountOf("text", tokens) = 0 /\ CountOf("thought", tokens) = 0
      BY <2>5, CountEmpty
    <3>3. QED
      BY <2>4, <3>1, <3>2
  <2>6. CASE tokens # <<>>
    <3> DEFINE more == Append(n.out, p)
    <3>1. q = [n EXCEPT !.out = more]
      BY <2>6 DEF Emit
    <3> HIDE DEF more, p
    <3>2. q.hasReasoning = n.hasReasoning /\ q.out = more
      BY <3>1 DEF Normalizers
    <3>3. Heard(more) = PlainRead(h, p)
      BY <2>1, <2>2, HeardMore DEF more
    <3> HIDE DEF h, q
    <3>4. LET r == PlainRead(h, p)
          IN /\ r.text = h.text + (IF p.kind = "content" THEN CountOf("text", p.tokens) ELSE 0)
             /\ r.thoughts
                  = h.thoughts + (IF p.kind = "content" THEN 0 ELSE CountOf("thought", p.tokens))
             /\ r.leaked <=> h.leaked \/ ~(ToSet(p.tokens) \subseteq Fit(p.kind))
      BY <2>1, <2>3, PlainReadIs
    <3>5. Says(k, q)
      BY <2>1, <3>2, <3>3, <3>4
    <3>6. QED
      BY <3>5 DEF q
  <2>7. QED
    BY <2>5, <2>6
<1> DEFINE content == Emit(n, "content", tokens)
           reasoning == Emit(n, "reasoning", tokens)
           tagged == EmitTagged(n, tokens)
<1>2. Says("content", content) /\ Says("reasoning", reasoning)
  BY <1>1
<1>3. tagged = IF n.hasReasoning THEN n ELSE reasoning
  BY DEF EmitTagged
<1>4. h.text \in Nat /\ h.thoughts \in Nat
  BY HeardIsNumber
<1>5. CountOf("text", <<>>) = 0 /\ CountOf("thought", <<>>) = 0 /\ ToSet(<<>>) = {}
  BY CountEmpty DEF ToSet
<1> HIDE DEF content, reasoning, tagged
<1>6. Adds(n, content, tokens, <<>>)
  BY <1>2, <1>4, <1>5 DEF Adds
<1>7. Adds(n, tagged, <<>>, tokens)
  <2>1. CASE n.hasReasoning
    <3>1. tagged = n
      BY <1>3, <2>1
    <3>2. h.text = h.text + 0 /\ h.thoughts = h.thoughts + 0
      BY <1>4
    <3> HIDE DEF Fit
    <3>3. QED
      BY <1>5, <2>1, <3>1, <3>2 DEF Adds
  <2>2. CASE ~n.hasReasoning
    <3>1. tagged = reasoning
      BY <1>3, <2>2
    <3>2. /\ Heard(tagged.out).text = h.text + 0
          /\ Heard(tagged.out).thoughts = h.thoughts + CountOf("thought", tokens)
          /\ ~h.leaked /\ ToSet(tokens) \subseteq Fit("reasoning") => ~Heard(tagged.out).leaked
          /\ tagged.hasReasoning = n.hasReasoning
      BY <1>2, <3>1
    <3> HIDE DEF Fit
    <3>3. QED
      BY <1>5, <2>2, <3>2 DEF Adds
  <2>3. QED
    BY <2>1, <2>2
<1>8. h.text + 0 = h.text
  BY <1>4
<1>9. QED
  BY <1>2, <1>6, <1>7, <1>8 DEF content, reasoning, tagged

\* First text, then a passage.
LEMMA AddsBoth ==
  ASSUME NEW n \in Normalizers, NEW m \in Normalizers, NEW q,
         NEW s, NEW t, Adds(n, m, s, <<>>), Adds(m, q, <<>>, t)
  PROVE  Adds(n, q, s, t)
<1> DEFINE none == <<>>
           x == CountOf("text", s)
           y == IF n.hasReasoning THEN 0 ELSE CountOf("thought", t)
<1>1. CountOf("text", <<>>) = 0 /\ CountOf("thought", <<>>) = 0 /\ ToSet(<<>>) = {}
  BY CountEmpty DEF ToSet
<1>2. /\ Heard(n.out).text \in Nat /\ Heard(n.out).thoughts \in Nat
      /\ Heard(m.out).text \in Nat /\ Heard(m.out).thoughts \in Nat
  BY HeardIsNumber
<1>3. /\ m.hasReasoning = n.hasReasoning /\ q.hasReasoning = m.hasReasoning
      /\ Heard(m.out).text = Heard(n.out).text + x
      /\ Heard(m.out).thoughts = Heard(n.out).thoughts + 0
      /\ Heard(q.out).text = Heard(m.out).text + 0
      /\ Heard(q.out).thoughts = Heard(m.out).thoughts + y
  BY <1>1 DEF Adds
<1>4. /\ ~Heard(n.out).leaked /\ ToSet(s) \subseteq Fit("content") => ~Heard(m.out).leaked
      /\ ~Heard(m.out).leaked /\ ToSet(t) \subseteq Fit("reasoning") => ~Heard(q.out).leaked
  BY <1>1 DEF Adds
<1> HIDE DEF x, y
<1>5. Heard(q.out).text = Heard(n.out).text + x
      /\ Heard(q.out).thoughts = Heard(n.out).thoughts + y
  BY <1>2, <1>3
<1>6. QED
  BY <1>3, <1>4, <1>5 DEF Adds, x, y

LEMMA ContinueMute ==
  ASSUME NEW n \in Normalizers, NEW tokens \in Seq(Tokens)
  PROVE  /\ Continue(n, tokens).hasReasoning = n.hasReasoning
         /\ Continue(n, tokens).out = n.out
         /\ Return(n).hasReasoning = n.hasReasoning /\ Return(n).out = n.out
<1> HIDE DEF NormalizedPieces
<1>1. QED
  BY DEF Continue, Return, Normalizers

LEMMA LeaveTagTells ==
  ASSUME NEW n \in Normalizers, NEW tokens \in Seq(Tokens)
  PROVE  Adds(n, LeaveTag(n, tokens), <<>>, n.tagBuffer \o tokens)
<1> DEFINE s == n.tagBuffer \o tokens
           told == EmitTagged(n, s)
           q == LeaveTag(n, tokens)
<1>1. s \in Seq(Tokens)
  BY DEF Normalizers
<1> HIDE DEF s
<1>2. told \in Normalizers
  BY <1>1, EmitIs
<1>3. q = [told EXCEPT !.tagBuffer = <<>>, !.inThinkTag = FALSE]
  BY DEF LeaveTag, s
<1>4. Adds(n, told, <<>>, s)
  BY <1>1, EmitTells
<1> HIDE DEF told, NormalizedPieces
<1>5. q.out = told.out /\ q.hasReasoning = told.hasReasoning
  BY <1>2, <1>3 DEF Normalizers
<1> HIDE DEF q
<1>6. Adds(n, q, <<>>, s)
  BY <1>4, <1>5 DEF Adds
<1>7. QED
  BY <1>6 DEF q, s

-----------------------------------------------------------------------------
(*****************************************************************************)
(* What a run of the loop of processContentChunk does with the tokens it     *)
(* finds, and what it tells or keeps of them.                                *)
(*****************************************************************************)

\* What a run of the loop does with the words it finds: it keeps those of a
\* passage that goes on, and tells those of one that ends; it drops what is
\* before a closing tag that closes nothing; it tells text, or keeps it with
\* the start of a tag; or it tells the text before a tag and goes on inside,
\* up to the end or to the closing tag.
Gathers(n, q) ==
  /\ n.inThinkTag /\ \A i \in 1 .. Len(n.remaining) : n.remaining[i] # "close"
  /\ q.remaining = <<>> /\ q.openTagBuffer = n.openTagBuffer
  /\ q.tagBuffer = n.tagBuffer \o n.remaining
  /\ Mute(n, q)

Leaves(n, q) ==
  \E c \in 1 .. Len(n.remaining) :
    /\ n.inThinkTag /\ n.remaining[c] = "close"
    /\ \A i \in 1 .. c - 1 : n.remaining[i] # "close"
    /\ q.remaining = After(n.remaining, c) /\ q.openTagBuffer = n.openTagBuffer
    /\ q.tagBuffer = <<>>
    /\ Adds(n, q, <<>>, n.tagBuffer \o Before(n.remaining, c))

Drops(n, q) ==
  \E c \in 1 .. Len(n.remaining) :
    /\ ~n.inThinkTag /\ n.remaining[c] = "close"
    /\ \A i \in 1 .. c - 1 : n.remaining[i] # "open"
    /\ q.remaining = After(n.remaining, c) /\ q.openTagBuffer = n.openTagBuffer
    /\ q.tagBuffer = n.tagBuffer
    /\ Mute(n, q)

Speaks(n, q) ==
  /\ ~n.inThinkTag
  /\ \A i \in 1 .. Len(n.remaining) : n.remaining[i] \notin {"open", "close"}
  /\ q.remaining = <<>> /\ q.tagBuffer = n.tagBuffer
  /\ \/ q.openTagBuffer = n.remaining /\ Mute(n, q)
     \/ q.openTagBuffer = n.openTagBuffer /\ Adds(n, q, n.remaining, <<>>)

Enters(n, q) ==
  \E o \in 1 .. Len(n.remaining) :
    /\ ~n.inThinkTag /\ n.remaining[o] = "open"
    /\ \A i \in 1 .. o - 1 : n.remaining[i] \notin {"open", "close"}
    /\ \A i \in 1 .. Len(After(n.remaining, o)) : After(n.remaining, o)[i] # "close"
    /\ q.remaining = <<>> /\ q.openTagBuffer = n.openTagBuffer
    /\ q.tagBuffer = After(n.remaining, o)
    /\ Adds(n, q, Before(n.remaining, o), <<>>)

Visits(n, q) ==
  \E o \in 1 .. Len(n.remaining) : \E c \in 1 .. Len(After(n.remaining, o)) :
    /\ ~n.inThinkTag /\ n.remaining[o] = "open"
    /\ \A i \in 1 .. o - 1 : n.remaining[i] \notin {"open", "close"}
    /\ After(n.remaining, o)[c] = "close"
    /\ \A i \in 1 .. c - 1 : After(n.remaining, o)[i] # "close"
    /\ q.remaining = After(After(n.remaining, o), c) /\ q.openTagBuffer = n.openTagBuffer
    /\ q.tagBuffer = n.tagBuffer
    /\ Adds(n, q, Before(n.remaining, o), Before(After(n.remaining, o), c))

LEMMA FirstFound ==
  ASSUME NEW X, NEW tag, NEW s \in Seq(X)
  PROVE  /\ Find(tag, s) \in 0 .. Len(s)
         /\ Find(tag, s) # 0 => s[Find(tag, s)] = tag
         /\ Find(tag, s) = 0 => \A i \in 1 .. Len(s) : s[i] # tag
         /\ \A i \in 1 .. Find(tag, s) - 1 : s[i] # tag
<1>1. /\ Find(tag, s) \in 0 .. Len(s) /\ DOMAIN s = 1 .. Len(s) /\ Len(s) \in Nat
      /\ Find(tag, s) # 0 => s[Find(tag, s)] = tag
      /\ Find(tag, s) = 0 <=> \A i \in DOMAIN s : s[i] # tag
      /\ \A i \in DOMAIN s : s[i] = tag => Find(tag, s) <= i
  BY FindIs
<1> DEFINE f == Find(tag, s)
<1> HIDE DEF f
<1>2. f \in 0 .. Len(s) /\ \A i \in DOMAIN s : s[i] = tag => f <= i
  BY <1>1 DEF f
<1>3. ASSUME NEW i \in 1 .. f - 1 PROVE s[i] # tag
  <2>1. i \in 1 .. Len(s) /\ ~(f <= i)
    BY <1>1, <1>2
  <2>2. QED
    BY <1>1, <1>2, <2>1
<1>4. QED
  BY <1>1, <1>3 DEF f

LEMMA InsidePassTells ==
  ASSUME NEW n \in Normalizers, n.inThinkTag
  PROVE  Gathers(n, InsidePass(n)) \/ Leaves(n, InsidePass(n))
<1> DEFINE r == n.remaining
           close == Find("close", r)
           q == InsidePass(n)
<1>1. r \in Seq(Tokens) /\ n.tagBuffer \in Seq(Tokens)
  BY DEF Normalizers
<1>2. /\ close \in 0 .. Len(r) /\ (close # 0 => r[close] = "close")
      /\ close = 0 => \A i \in 1 .. Len(r) : r[i] # "close"
      /\ \A i \in 1 .. close - 1 : r[i] # "close"
  BY <1>1, FirstFound
<1> HIDE DEF close, NormalizedPieces
<1>3. CASE close = 0
  <2> DEFINE buffer == n.tagBuffer \o r
             kept == [n EXCEPT !.tagBuffer = buffer]
  <2>1. buffer \in Seq(Tokens)
    BY <1>1
  <2>2. q = Return(kept)
    BY <1>3 DEF InsidePass, close
  <2> HIDE DEF buffer, q
  <2>3. /\ kept \in Normalizers /\ kept.openTagBuffer = n.openTagBuffer
        /\ kept.tagBuffer = buffer /\ Mute(n, kept)
    BY <2>1 DEF Normalizers, Mute
  <2> HIDE DEF kept
  <2>4. /\ q.remaining = <<>> /\ q.openTagBuffer = kept.openTagBuffer
        /\ q.tagBuffer = kept.tagBuffer
    BY <2>2, <2>3, ReturnIs
  <2>5. q.hasReasoning = kept.hasReasoning /\ q.out = kept.out
    <3>1. <<>> \in Seq(Tokens)
      OBVIOUS
    <3>2. QED
      BY <2>2, <2>3, <3>1, ContinueMute
  <2>6. Gathers(n, q)
    BY <1>2, <1>3, <2>3, <2>4, <2>5 DEF Gathers, Mute, buffer
  <2>7. QED
    BY <2>6 DEF q
<1>4. CASE close # 0
  <2> DEFINE before == Before(r, close)
             left == LeaveTag(n, before)
             rest == After(r, close)
  <2>1. close \in 1 .. Len(r)
    BY <1>2, <1>4
  <2>2. before \in Seq(Tokens) /\ rest \in Seq(Tokens)
    BY <1>1, <2>1, PartsAre
  <2>3. q = Continue(left, rest)
    BY <1>4 DEF InsidePass, close
  <2> HIDE DEF before, rest, q
  <2>4. /\ left \in Normalizers /\ left.tagBuffer = <<>>
        /\ left.openTagBuffer = n.openTagBuffer
    BY <2>2, LeaveTagIs
  <2>5. Adds(n, left, <<>>, n.tagBuffer \o before)
    BY <2>2, LeaveTagTells
  <2> HIDE DEF left
  <2>6. /\ q.remaining = rest /\ q.tagBuffer = <<>> /\ q.openTagBuffer = n.openTagBuffer
    BY <2>2, <2>3, <2>4, ContinueIs
  <2>7. q.hasReasoning = left.hasReasoning /\ q.out = left.out
    BY <2>2, <2>3, <2>4, ContinueMute
  <2>8. Adds(n, q, <<>>, n.tagBuffer \o before)
    BY <2>5, <2>7 DEF Adds
  <2>9. Leaves(n, q)
    BY <1>2, <1>4, <2>1, <2>6, <2>8 DEF Leaves, before, rest
  <2>10. QED
    BY <2>9 DEF q
<1>5. QED
  BY <1>3, <1>4

LEMMA PlainPassTells ==
  ASSUME NEW n \in Normalizers, ~n.inThinkTag,
         \A i \in 1 .. Len(n.remaining) : n.remaining[i] \notin {"open", "close"}
  PROVE  Speaks(n, PlainPass(n))
<1> DEFINE r == n.remaining
           kept == [n EXCEPT !.openTagBuffer = r]
           told == Emit(n, "content", r)
           q == PlainPass(n)
<1>1. r \in Seq(Tokens) /\ <<>> \in Seq(Tokens)
  BY DEF Normalizers
<1>2. told \in Normalizers /\ NormalizerSame(n, told) /\ Adds(n, told, r, <<>>)
  BY <1>1, EmitIs, EmitTells
<1>3. q = IF Last(r) = "open1" THEN Return(kept) ELSE Return(told)
  BY DEF PlainPass, IncompleteOpenTag, told
<1> HIDE DEF told, NormalizedPieces, q
<1>4. /\ kept \in Normalizers /\ kept.tagBuffer = n.tagBuffer /\ kept.openTagBuffer = r
      /\ Mute(n, kept)
  BY DEF Normalizers, Mute
<1> HIDE DEF kept
<1>5. CASE Last(r) = "open1"
  <2>1. /\ q.remaining = <<>> /\ q.tagBuffer = kept.tagBuffer
        /\ q.openTagBuffer = kept.openTagBuffer
    BY <1>3, <1>4, <1>5, ReturnIs
  <2>2. q.hasReasoning = kept.hasReasoning /\ q.out = kept.out
    BY <1>1, <1>3, <1>4, <1>5, ContinueMute
  <2>3. Speaks(n, q)
    BY <1>4, <2>1, <2>2 DEF Speaks, Mute
  <2>4. QED
    BY <2>3 DEF q
<1>6. CASE Last(r) # "open1"
  <2>1. /\ q.remaining = <<>> /\ q.tagBuffer = told.tagBuffer
        /\ q.openTagBuffer = told.openTagBuffer
    BY <1>2, <1>3, <1>6, ReturnIs
  <2>2. q.hasReasoning = told.hasReasoning /\ q.out = told.out
    BY <1>1, <1>2, <1>3, <1>6, ContinueMute
  <2>3. Adds(n, q, r, <<>>)
    BY <1>2, <2>2 DEF Adds
  <2>4. Speaks(n, q)
    BY <1>2, <2>1, <2>3 DEF Speaks, NormalizerSame
  <2>5. QED
    BY <2>4 DEF q
<1>7. QED
  BY <1>5, <1>6

LEMMA OpeningPassTells ==
  ASSUME NEW n \in Normalizers, ~n.inThinkTag, NEW o \in 1 .. Len(n.remaining),
         n.remaining[o] = "open",
         \A i \in 1 .. o - 1 : n.remaining[i] \notin {"open", "close"}
  PROVE  Enters(n, OpeningPass(n, o)) \/ Visits(n, OpeningPass(n, o))
<1> DEFINE r == n.remaining
           before == Before(r, o)
           inside == After(r, o)
           told == Emit(n, "content", before)
           close == Find("close", inside)
           q == OpeningPass(n, o)
<1>1. r \in Seq(Tokens) /\ <<>> \in Seq(Tokens)
  BY DEF Normalizers
<1>2. before \in Seq(Tokens) /\ inside \in Seq(Tokens)
  BY <1>1, PartsAre
<1>3. q = IF close = 0 THEN Return([told EXCEPT !.inThinkTag = TRUE, !.tagBuffer = inside])
          ELSE Continue(EmitTagged(told, Before(inside, close)), After(inside, close))
  BY DEF OpeningPass
<1> HIDE DEF before, inside, q
<1>4. told \in Normalizers /\ NormalizerSame(n, told) /\ Adds(n, told, before, <<>>)
  BY <1>2, EmitIs, EmitTells
<1>5. /\ close \in 0 .. Len(inside) /\ (close # 0 => inside[close] = "close")
      /\ close = 0 => \A i \in 1 .. Len(inside) : inside[i] # "close"
      /\ \A i \in 1 .. close - 1 : inside[i] # "close"
  BY <1>2, FirstFound
<1> HIDE DEF told, close, NormalizedPieces
<1>6. CASE close = 0
  <2> DEFINE kept == [told EXCEPT !.inThinkTag = TRUE, !.tagBuffer = inside]
  <2>1. kept \in Normalizers /\ kept.tagBuffer = inside /\ Mute(told, kept)
    BY <1>2, <1>4 DEF Normalizers, Mute
  <2>2. kept.openTagBuffer = n.openTagBuffer
    BY <1>4 DEF Normalizers, NormalizerSame
  <2>3. q = Return(kept)
    BY <1>3, <1>6
  <2> HIDE DEF kept
  <2>4. /\ q.remaining = <<>> /\ q.tagBuffer = inside /\ q.openTagBuffer = n.openTagBuffer
    BY <2>1, <2>2, <2>3, ReturnIs
  <2>5. q.hasReasoning = kept.hasReasoning /\ q.out = kept.out
    BY <1>1, <2>1, <2>3, ContinueMute
  <2>6. Adds(n, q, before, <<>>)
    BY <1>4, <2>1, <2>5 DEF Adds, Mute
  <2>7. Enters(n, q)
    BY <1>5, <1>6, <2>4, <2>6 DEF Enters, before, inside
  <2>8. QED
    BY <2>7 DEF q
<1>7. CASE close # 0
  <2> DEFINE passage == Before(inside, close)
             left == EmitTagged(told, passage)
             rest == After(inside, close)
  <2>1. close \in 1 .. Len(inside)
    BY <1>2, <1>5, <1>7
  <2>2. passage \in Seq(Tokens) /\ rest \in Seq(Tokens)
    BY <1>2, <2>1, PartsAre
  <2>3. q = Continue(left, rest)
    BY <1>3, <1>7
  <2> HIDE DEF passage, rest
  <2>4. left \in Normalizers /\ NormalizerSame(told, left) /\ Adds(told, left, <<>>, passage)
    BY <1>4, <2>2, EmitIs, EmitTells
  <2> HIDE DEF left
  <2>5. Adds(n, left, before, passage)
    BY <1>4, <2>4, AddsBoth
  <2>6. /\ q.remaining = rest /\ q.tagBuffer = left.tagBuffer
        /\ q.openTagBuffer = left.openTagBuffer
    BY <2>2, <2>3, <2>4, ContinueIs
  <2>7. q.hasReasoning = left.hasReasoning /\ q.out = left.out
    BY <2>2, <2>3, <2>4, ContinueMute
  <2>8. Adds(n, q, before, passage)
    BY <2>5, <2>7 DEF Adds
  <2>9. q.tagBuffer = n.tagBuffer /\ q.openTagBuffer = n.openTagBuffer
    BY <1>4, <2>4, <2>6 DEF NormalizerSame
  <2>10. Visits(n, q)
    BY <1>5, <1>7, <2>1, <2>6, <2>8, <2>9 DEF Visits, before, inside, passage, rest
  <2>11. QED
    BY <2>10 DEF q
<1>8. QED
  BY <1>6, <1>7

LEMMA PassTells ==
  ASSUME NEW n \in Normalizers, n.remaining # <<>>
  PROVE  LET q == Pass(n)
         IN \/ Gathers(n, q) \/ Leaves(n, q) \/ Drops(n, q)
            \/ Speaks(n, q) \/ Enters(n, q) \/ Visits(n, q)
<1> DEFINE r == n.remaining
           open == Find("open", r)
           close == Find("close", r)
<1>1. r \in Seq(Tokens) /\ Len(r) \in Nat
  BY DEF Normalizers
<1>2. /\ close \in 0 .. Len(r) /\ (close # 0 => r[close] = "close")
      /\ close = 0 => \A i \in 1 .. Len(r) : r[i] # "close"
      /\ \A i \in 1 .. close - 1 : r[i] # "close"
  BY <1>1, FirstFound
<1>3. /\ open \in 0 .. Len(r) /\ (open # 0 => r[open] = "open")
      /\ open = 0 => \A i \in 1 .. Len(r) : r[i] # "open"
      /\ \A i \in 1 .. open - 1 : r[i] # "open"
  BY <1>1, FirstFound
<1>4. /\ n.inThinkTag => Pass(n) = InsidePass(n)
      /\ ~n.inThinkTag => Pass(n) = IF close # 0 /\ open \notin 1 .. close
                                    THEN Continue(n, After(r, close))
                                    ELSE IF open = 0 THEN PlainPass(n)
                                    ELSE OpeningPass(n, open)
  BY DEF Pass, StandaloneClosing
<1> HIDE DEF open, close
<1>5. CASE n.inThinkTag
  BY <1>4, <1>5, InsidePassTells
<1>6. CASE ~n.inThinkTag /\ close # 0 /\ open \notin 1 .. close
  <2> DEFINE rest == After(r, close)
             q == Continue(n, rest)
  <2>1. close \in 1 .. Len(r)
    BY <1>2, <1>6
  <2>2. rest \in Seq(Tokens)
    BY <1>1, <2>1, PartsAre
  <2> HIDE DEF rest
  <2>3. /\ q.remaining = rest /\ q.tagBuffer = n.tagBuffer
        /\ q.openTagBuffer = n.openTagBuffer
    BY <2>2, ContinueIs
  <2>4. Mute(n, q)
    BY <2>2, ContinueMute DEF Mute
  <2>5. Pass(n) = q
    BY <1>4, <1>6 DEF rest
  <2>6. ASSUME NEW i \in 1 .. close - 1 PROVE r[i] # "open"
    <3>1. i \in 1 .. Len(r) /\ i < close
      BY <1>1, <2>1
    <3>2. CASE open = 0
      BY <1>3, <3>1, <3>2
    <3>3. CASE open # 0
      <4>1. open > close
        BY <1>3, <1>6, <2>1, <3>3
      <4>2. i \in 1 .. open - 1
        BY <1>3, <2>1, <3>1, <4>1
      <4>3. QED
        BY <1>3, <4>2
    <3>4. QED
      BY <3>2, <3>3
  <2> HIDE DEF q
  <2>7. Drops(n, q)
    BY <1>2, <1>6, <2>1, <2>3, <2>4, <2>6 DEF Drops, rest
  <2>8. QED
    BY <2>5, <2>7
<1>7. CASE ~n.inThinkTag /\ ~(close # 0 /\ open \notin 1 .. close) /\ open = 0
  <2>1. close = 0
    BY <1>7
  <2>2. \A i \in 1 .. Len(r) : r[i] \notin {"open", "close"}
    BY <1>2, <1>3, <1>7, <2>1
  <2>3. Pass(n) = PlainPass(n)
    BY <1>4, <1>7
  <2>4. QED
    BY <1>7, <2>2, <2>3, PlainPassTells
<1>8. CASE ~n.inThinkTag /\ ~(close # 0 /\ open \notin 1 .. close) /\ open # 0
  <2>1. open \in 1 .. Len(r) /\ r[open] = "open"
    BY <1>3, <1>8
  <2>2. ASSUME NEW i \in 1 .. open - 1 PROVE r[i] \notin {"open", "close"}
    <3>1. r[i] # "open" /\ i \in 1 .. Len(r)
      BY <1>1, <1>3, <2>1
    <3>2. CASE close = 0
      BY <1>2, <3>1, <3>2
    <3>3. CASE close # 0
      <4>1. i \in 1 .. close - 1
        BY <1>2, <1>8, <2>1, <3>3
      <4>2. QED
        BY <1>2, <3>1, <4>1
    <3>4. QED
      BY <3>2, <3>3
  <2>3. Pass(n) = OpeningPass(n, open)
    BY <1>4, <1>8
  <2>4. QED
    BY <1>8, <2>1, <2>2, <2>3, OpeningPassTells
<1>9. QED
  BY <1>5, <1>6, <1>7, <1>8

-----------------------------------------------------------------------------
(*****************************************************************************)
(* Nothing is lost between what the loop is given and what it tells.         *)
(*****************************************************************************)

\* Up to the first closing tag a passage has thoughts only.
LEMMA InsideRun ==
  ASSUME NEW W \in SUBSET Steps, NEW X, NEW s \in Seq(X), NEW q, Leads(W, "thought", s, q),
         NEW k \in 0 .. Len(s), \A i \in 1 .. k : s[i] # "close"
  PROVE  \A i \in 1 .. k : s[i] = "thought"
<1>1. PICK g \in [0 .. Len(s) -> ModelPlaces] :
        /\ g[0] = "thought" /\ g[Len(s)] = q
        /\ \A j \in 1 .. Len(s) : <<g[j - 1], s[j], g[j]>> \in W
  BY DEF Leads
<1>2. k \in Nat /\ Len(s) \in Nat /\ k <= Len(s)
  OBVIOUS
<1>3. ASSUME NEW i \in 1 .. k, g[i - 1] = "thought"
      PROVE  g[i] = "thought" /\ s[i] = "thought"
  <2>1. i \in 1 .. Len(s) /\ s[i] # "close"
    BY <1>2
  <2>2. <<g[i - 1], s[i], g[i]>> \in Steps
    BY <1>1, <2>1
  <2>3. QED
    BY <1>3, <2>1, <2>2 DEF Steps
<1> DEFINE U == {i \in Nat : i <= k => g[i] = "thought"}
<1>4. 0 \in U
  BY <1>1
<1>5. ASSUME NEW i \in U PROVE i + 1 \in U
  <2> SUFFICES ASSUME i + 1 <= k PROVE g[i + 1] = "thought"
    OBVIOUS
  <2>1. i + 1 \in 1 .. k /\ (i + 1) - 1 = i /\ i <= k
    BY <1>2
  <2>2. QED
    BY <1>3, <2>1
<1>6. U = Nat
  <2> HIDE DEF U
  <2>1. U \in SUBSET Nat
    BY DEF U
  <2>2. QED
    BY <1>4, <1>5, <2>1, NumbersByInduction
<1>7. ASSUME NEW i \in 1 .. k PROVE s[i] = "thought"
  <2>1. i - 1 \in Nat /\ i - 1 <= k
    BY <1>2
  <2>2. QED
    BY <1>3, <1>6, <2>1
<1>8. QED
  BY <1>7

\* Up to the first opening tag there are no thoughts.
LEMMA PlainRun ==
  ASSUME NEW W \in SUBSET Steps, NEW X, NEW s \in Seq(X), NEW q, Leads(W, "text", s, q),
         NEW k \in 0 .. Len(s), \A i \in 1 .. k : s[i] # "open"
  PROVE  \A i \in 1 .. k : /\ s[i] \in {"text", "open1", "close"}
                           /\ W \in SUBSET CleanSteps => s[i] # "close"
<1>1. PICK g \in [0 .. Len(s) -> ModelPlaces] :
        /\ g[0] = "text" /\ g[Len(s)] = q
        /\ \A j \in 1 .. Len(s) : <<g[j - 1], s[j], g[j]>> \in W
  BY DEF Leads
<1>2. k \in Nat /\ Len(s) \in Nat /\ k <= Len(s)
  OBVIOUS
<1>3. ASSUME NEW i \in 1 .. k, g[i - 1] \in {"text", "opening"}
      PROVE  /\ g[i] \in {"text", "opening"} /\ s[i] \in {"text", "open1", "close"}
             /\ W \in SUBSET CleanSteps => s[i] # "close"
  <2>1. i \in 1 .. Len(s) /\ s[i] # "open"
    BY <1>2
  <2>2. <<g[i - 1], s[i], g[i]>> \in W
    BY <1>1, <2>1
  <2>3. g[i] \in {"text", "opening"} /\ s[i] \in {"text", "open1", "close"}
    BY <1>3, <2>1, <2>2 DEF Steps
  <2>4. W \in SUBSET CleanSteps => s[i] # "close"
    BY <1>3, <2>1, <2>2 DEF Steps, CleanSteps
  <2>5. QED
    BY <2>3, <2>4
<1> DEFINE U == {i \in Nat : i <= k => g[i] \in {"text", "opening"}}
<1>4. 0 \in U
  BY <1>1
<1>5. ASSUME NEW i \in U PROVE i + 1 \in U
  <2> SUFFICES ASSUME i + 1 <= k PROVE g[i + 1] \in {"text", "opening"}
    OBVIOUS
  <2>1. i + 1 \in 1 .. k /\ (i + 1) - 1 = i /\ i <= k
    BY <1>2
  <2>2. QED
    BY <1>3, <2>1
<1>6. U = Nat
  <2> HIDE DEF U
  <2>1. U \in SUBSET Nat
    BY DEF U
  <2>2. QED
    BY <1>4, <1>5, <2>1, NumbersByInduction
<1>7. ASSUME NEW i \in 1 .. k
      PROVE  /\ s[i] \in {"text", "open1", "close"}
             /\ W \in SUBSET CleanSteps => s[i] # "close"
  <2>1. i - 1 \in Nat /\ i - 1 <= k
    BY <1>2
  <2>2. QED
    BY <1>3, <1>6, <2>1
<1>8. QED
  BY <1>7

LEMMA BeforeIs ==
  ASSUME NEW X, NEW s \in Seq(X), NEW i \in 1 .. Len(s)
  PROVE  /\ Before(s, i) \in Seq(X) /\ Len(Before(s, i)) = i - 1
         /\ \A j \in 1 .. i - 1 : Before(s, i)[j] = s[j]
  BY DEF Before

\* Words that are thoughts only, that have none, and that are text only.
Thoughts(s) == \A i \in 1 .. Len(s) : s[i] = "thought"
Thoughtless(s) == \A i \in 1 .. Len(s) : s[i] # "thought"
Plain(s) == \A i \in 1 .. Len(s) : s[i] \in {"text", "open1"}

LEMMA WordsAre ==
  ASSUME NEW s \in Seq(Tokens)
  PROVE  /\ Thoughts(s) => CountOf("text", s) = 0 /\ ToSet(s) \subseteq {"thought"}
         /\ Thoughtless(s) => CountOf("thought", s) = 0
         /\ Plain(s) => ToSet(s) \subseteq Fit("content")
<1>1. ASSUME Thoughts(s) PROVE CountOf("text", s) = 0
  BY <1>1, CountNone DEF Thoughts
<1>2. ASSUME Thoughtless(s) PROVE CountOf("thought", s) = 0
  BY <1>2, CountNone DEF Thoughtless
<1>3. ToSet(s) = {s[i] : i \in 1 .. Len(s)}
  BY DEF ToSet
<1>4. QED
  BY <1>1, <1>2, <1>3 DEF Thoughts, Plain, Fit

\* What a stretch that the model wrote is made of: before the first closing tag
\* of a passage, and before the first opening tag outside of one.
LEMMA StretchInside ==
  ASSUME NEW W \in SUBSET Steps, NEW s \in Seq(Tokens), NEW e, Leads(W, "thought", s, e),
         NEW c \in 1 .. Len(s), \A i \in 1 .. c - 1 : s[i] # "close"
  PROVE  Thoughts(Before(s, c))
<1>1. c - 1 \in 0 .. Len(s)
  OBVIOUS
<1>2. \A i \in 1 .. c - 1 : s[i] = "thought"
  BY <1>1, InsideRun
<1>3. QED
  BY <1>2, BeforeIs DEF Thoughts

LEMMA StretchPlain ==
  ASSUME NEW W \in SUBSET Steps, NEW s \in Seq(Tokens), NEW e, Leads(W, "text", s, e),
         NEW c \in 1 .. Len(s), \A i \in 1 .. c - 1 : s[i] # "open"
  PROVE  /\ Thoughtless(Before(s, c))
         /\ W \in SUBSET CleanSteps => Plain(Before(s, c))
<1>1. c - 1 \in 0 .. Len(s)
  OBVIOUS
<1>2. \A i \in 1 .. c - 1 : /\ s[i] \in {"text", "open1", "close"}
                            /\ W \in SUBSET CleanSteps => s[i] # "close"
  BY <1>1, PlainRun
<1>3. QED
  BY <1>2, BeforeIs DEF Thoughtless, Plain

TextIn(n) ==
  Heard(n.out).text + CountOf("text", n.openTagBuffer) + CountOf("text", n.remaining)
ThoughtsIn(n) ==
  Heard(n.out).thoughts + CountOf("thought", n.tagBuffer)
    + CountOf("thought", n.openTagBuffer) + CountOf("thought", n.remaining)
Pure(n) == ~Heard(n.out).leaked /\ ToSet(n.tagBuffer) \subseteq {"thought"}

\* From n to q no text is lost and no thought told as text, and no thought is
\* lost unless the backend reasons apart from its content.
Balanced(n, q, e) ==
  /\ q.hasReasoning = n.hasReasoning
  /\ ThoughtsIn(q) <= ThoughtsIn(n)
  /\ Going(Steps, n, e) =>
       /\ ~n.hasReasoning => ThoughtsIn(q) = ThoughtsIn(n)
       /\ CountOf("thought", n.openTagBuffer) = 0 => CountOf("thought", q.openTagBuffer) = 0
  /\ Going(CleanSteps, n, e) => TextIn(q) = TextIn(n) /\ (Pure(n) => Pure(q))

\* What is counted before a run of the loop.
LEMMA BeforeRun ==
  ASSUME NEW n \in Normalizers, Buffered(n), n.remaining # <<>>, NEW e
  PROVE  /\ n.remaining \in Seq(Tokens) /\ n.tagBuffer \in Seq(Tokens)
         /\ n.openTagBuffer = <<>> /\ (~n.inThinkTag => n.tagBuffer = <<>>)
         /\ \A W : Going(W, n, e) => Leads(W, PlaceOf(n), n.remaining, e)
         /\ TextIn(n) = Heard(n.out).text + CountOf("text", n.remaining)
         /\ ThoughtsIn(n) = Heard(n.out).thoughts + CountOf("thought", n.tagBuffer)
                              + CountOf("thought", n.remaining)
<1>1. n.remaining \in Seq(Tokens) /\ n.tagBuffer \in Seq(Tokens) /\ n.openTagBuffer = <<>>
      /\ (~n.inThinkTag => n.tagBuffer = <<>>)
  BY DEF Normalizers, Buffered
<1>2. \A W : Going(W, n, e) => Leads(W, PlaceOf(n), n.remaining, e)
  BY DEF Going
<1> DEFINE a == Heard(n.out).text
           b == Heard(n.out).thoughts
           c == CountOf("text", n.remaining)
           d == CountOf("thought", n.remaining)
           f == CountOf("thought", n.tagBuffer)
<1>3. a \in Nat /\ b \in Nat /\ c \in Nat /\ d \in Nat /\ f \in Nat
  BY <1>1, HeardIsNumber, CountIsNumber
<1>4. TextIn(n) = a + 0 + c /\ ThoughtsIn(n) = b + f + 0 + d
  BY <1>1, CountEmpty DEF TextIn, ThoughtsIn
<1> HIDE DEF a, b, c, d, f
<1>5. TextIn(n) = a + c /\ ThoughtsIn(n) = b + f + d
  BY <1>3, <1>4
<1>6. QED
  BY <1>1, <1>2, <1>5 DEF a, b, c, d, f

\* A stretch that is read to its end.
LEMMA WholeStretch ==
  ASSUME NEW W \in SUBSET Steps, NEW s \in Seq(Tokens), NEW e
  PROVE  /\ Leads(W, "thought", s, e) /\ (\A i \in 1 .. Len(s) : s[i] # "close") => Thoughts(s)
         /\ Leads(W, "text", s, e) /\ (\A i \in 1 .. Len(s) : s[i] \notin {"open", "close"})
              => Thoughtless(s) /\ Plain(s)
<1>1. Len(s) \in 0 .. Len(s)
  OBVIOUS
<1>2. ASSUME Leads(W, "thought", s, e), \A i \in 1 .. Len(s) : s[i] # "close"
      PROVE  Thoughts(s)
  BY <1>1, <1>2, InsideRun DEF Thoughts
<1>3. ASSUME Leads(W, "text", s, e), \A i \in 1 .. Len(s) : s[i] \notin {"open", "close"}
      PROVE  Thoughtless(s) /\ Plain(s)
  <2>1. \A i \in 1 .. Len(s) : s[i] \in {"text", "open1", "close"}
    BY <1>1, <1>3, PlainRun
  <2>2. QED
    BY <1>3, <2>1 DEF Thoughtless, Plain
<1>4. QED
  BY <1>2, <1>3

LEMMA WordsOfBoth ==
  ASSUME NEW X, NEW s \in Seq(X), NEW t \in Seq(X)
  PROVE  ToSet(s \o t) \subseteq ToSet(s) \cup ToSet(t)
<1> DEFINE u == s \o t
           k == Len(s)
           l == Len(t)
<1>1. /\ DOMAIN s = 1 .. k /\ DOMAIN t = 1 .. l /\ DOMAIN u = 1 .. k + l
      /\ k \in Nat /\ l \in Nat
      /\ \A i \in 1 .. k : u[i] = s[i]
      /\ \A i \in 1 .. l : u[k + i] = t[i]
  OBVIOUS
<1> HIDE DEF u, k, l
<1>2. ASSUME NEW i \in 1 .. k + l PROVE u[i] \in ToSet(s) \cup ToSet(t)
  <2>1. CASE i \in 1 .. k
    BY <1>1, <2>1 DEF ToSet
  <2>2. CASE i \notin 1 .. k
    <3>1. i - k \in 1 .. l /\ k + (i - k) = i
      BY <1>1, <2>2
    <3>2. u[i] = t[i - k]
      BY <1>1, <3>1
    <3>3. QED
      BY <1>1, <3>1, <3>2 DEF ToSet
  <2>3. QED
    BY <2>1, <2>2
<1>3. ToSet(u) = {u[i] : i \in 1 .. k + l}
  BY <1>1 DEF ToSet
<1>4. QED
  BY <1>2, <1>3 DEF u

LEMMA StepsOfSteps == Steps \in SUBSET Steps /\ CleanSteps \in SUBSET Steps
                      /\ CleanSteps \in SUBSET CleanSteps
  BY DEF CleanSteps

LEMMA GathersBalanced ==
  ASSUME NEW n \in Normalizers, Buffered(n), n.remaining # <<>>, NEW e,
         NEW q \in Normalizers, Gathers(n, q)
  PROVE  Balanced(n, q, e)
<1> DEFINE r == n.remaining
           b == n.tagBuffer
           both == b \o r
           h == Heard(n.out)
<1>1. /\ r \in Seq(Tokens) /\ b \in Seq(Tokens) /\ n.openTagBuffer = <<>>
      /\ \A W : Going(W, n, e) => Leads(W, PlaceOf(n), r, e)
      /\ TextIn(n) = h.text + CountOf("text", r)
      /\ ThoughtsIn(n) = h.thoughts + CountOf("thought", b) + CountOf("thought", r)
  BY BeforeRun
<1>2. /\ n.inThinkTag /\ (\A i \in 1 .. Len(r) : r[i] # "close") /\ q.remaining = <<>>
      /\ q.openTagBuffer = <<>> /\ q.tagBuffer = both /\ q.out = n.out
      /\ q.hasReasoning = n.hasReasoning
  BY <1>1 DEF Gathers, Mute
<1>3. CountOf("thought", both) = CountOf("thought", b) + CountOf("thought", r)
  BY <1>1, CountConcat
<1> DEFINE x == CountOf("thought", b)
           y == CountOf("thought", r)
<1>4. /\ h.text \in Nat /\ h.thoughts \in Nat /\ x \in Nat /\ y \in Nat
      /\ CountOf("text", r) \in Nat
  BY <1>1, HeardIsNumber, CountIsNumber
<1>5. TextIn(q) = h.text + 0 + 0 /\ ThoughtsIn(q) = h.thoughts + (x + y) + 0 + 0
  BY <1>2, <1>3, CountEmpty DEF TextIn, ThoughtsIn
<1>6. \A W : PlaceOf(n) = "thought"
  BY <1>2 DEF PlaceOf
<1>7. ASSUME Going(CleanSteps, n, e) PROVE TextIn(q) = TextIn(n) /\ (Pure(n) => Pure(q))
  <2>1. Leads(CleanSteps, "thought", r, e)
    BY <1>1, <1>6, <1>7
  <2>2. Thoughts(r)
    BY <1>1, <1>2, <2>1, StepsOfSteps, WholeStretch
  <2>3. CountOf("text", r) = 0 /\ ToSet(r) \subseteq {"thought"}
    BY <1>1, <2>2, WordsAre
  <2>4. TextIn(q) = TextIn(n)
    BY <1>1, <1>4, <1>5, <2>3
  <2>5. ToSet(both) \subseteq ToSet(b) \cup ToSet(r)
    BY <1>1, WordsOfBoth
  <2>6. Pure(n) => Pure(q)
    BY <1>2, <2>3, <2>5 DEF Pure
  <2>7. QED
    BY <2>4, <2>6
<1> DEFINE z == h.thoughts
<1> HIDE DEF x, y, z
<1>8. ThoughtsIn(n) = z + x + y /\ ThoughtsIn(q) = z + (x + y) + 0 + 0 /\ z \in Nat
  BY <1>1, <1>4, <1>5 DEF x, y, z
<1>9. ThoughtsIn(q) = ThoughtsIn(n) /\ ThoughtsIn(q) <= ThoughtsIn(n)
  BY <1>4, <1>8
<1>10. CountOf("thought", q.openTagBuffer) = 0
  BY <1>2, CountEmpty
<1>11. QED
  BY <1>2, <1>7, <1>9, <1>10 DEF Balanced

LEMMA LeavesBalanced ==
  ASSUME NEW n \in Normalizers, Buffered(n), n.remaining # <<>>, NEW e,
         NEW q \in Normalizers, Leaves(n, q)
  PROVE  Balanced(n, q, e)
<1> DEFINE r == n.remaining
           b == n.tagBuffer
           h == Heard(n.out)
<1>1. /\ r \in Seq(Tokens) /\ b \in Seq(Tokens) /\ n.openTagBuffer = <<>>
      /\ \A W : Going(W, n, e) => Leads(W, PlaceOf(n), r, e)
      /\ TextIn(n) = h.text + CountOf("text", r)
      /\ ThoughtsIn(n) = h.thoughts + CountOf("thought", b) + CountOf("thought", r)
  BY BeforeRun
<1>2. PICK c \in 1 .. Len(r) :
        /\ n.inThinkTag /\ r[c] = "close" /\ \A i \in 1 .. c - 1 : r[i] # "close"
        /\ q.remaining = After(r, c) /\ q.openTagBuffer = <<>> /\ q.tagBuffer = <<>>
        /\ Adds(n, q, <<>>, b \o Before(r, c))
  BY <1>1 DEF Leaves
<1> DEFINE first == Before(r, c)
           rest == After(r, c)
           both == b \o first
           x == CountOf("thought", b)
           y == CountOf("thought", first)
           z == CountOf("thought", rest)
           t == h.thoughts
<1>3. first \in Seq(Tokens) /\ rest \in Seq(Tokens)
  BY <1>1, PartsAre
<1>4. /\ CountOf("thought", r) = y + 0 + z
      /\ CountOf("text", r) = CountOf("text", first) + 0 + CountOf("text", rest)
  BY <1>1, <1>2, CountSplit
<1>5. CountOf("thought", both) = x + y
  BY <1>1, <1>3, CountConcat
<1>6. /\ h.text \in Nat /\ t \in Nat /\ x \in Nat /\ y \in Nat /\ z \in Nat
      /\ CountOf("text", first) \in Nat /\ CountOf("text", rest) \in Nat
  BY <1>1, <1>3, HeardIsNumber, CountIsNumber
<1>7. /\ q.hasReasoning = n.hasReasoning /\ Heard(q.out).text = h.text + 0
      /\ Heard(q.out).thoughts = t + (IF n.hasReasoning THEN 0 ELSE x + y)
      /\ ~h.leaked /\ ToSet(both) \subseteq Fit("reasoning") => ~Heard(q.out).leaked
  <2>1. ToSet(<<>>) \subseteq Fit("content")
    BY DEF ToSet
  <2>2. QED
    BY <1>2, <1>5, <2>1, CountEmpty DEF Adds
<1>8. /\ TextIn(q) = (h.text + 0) + 0 + CountOf("text", rest)
      /\ ThoughtsIn(q) = (t + (IF n.hasReasoning THEN 0 ELSE x + y)) + 0 + 0 + z
  BY <1>2, <1>7, CountEmpty DEF TextIn, ThoughtsIn
<1>9. PlaceOf(n) = "thought"
  BY <1>2 DEF PlaceOf
<1>10. ASSUME Going(CleanSteps, n, e) PROVE TextIn(q) = TextIn(n) /\ (Pure(n) => Pure(q))
  <2>1. Leads(CleanSteps, "thought", r, e)
    BY <1>1, <1>9, <1>10
  <2>2. Thoughts(first)
    BY <1>1, <1>2, <2>1, StepsOfSteps, StretchInside
  <2>3. CountOf("text", first) = 0 /\ ToSet(first) \subseteq {"thought"}
    BY <1>3, <2>2, WordsAre
  <2>4. TextIn(q) = TextIn(n)
    <3> DEFINE v == CountOf("text", rest)
               w == h.text
    <3>1. TextIn(n) = w + (0 + 0 + v) /\ TextIn(q) = (w + 0) + 0 + v /\ v \in Nat /\ w \in Nat
      BY <1>1, <1>4, <1>6, <1>8, <2>3
    <3> HIDE DEF v, w
    <3>2. QED
      BY <3>1
  <2>5. ToSet(both) \subseteq ToSet(b) \cup ToSet(first)
    <3> HIDE DEF first
    <3>1. QED
      BY <1>1, <1>3, WordsOfBoth
  <2>6. ToSet(<<>>) = {}
    BY DEF ToSet
  <2>7. Pure(n) => Pure(q)
    BY <1>2, <1>7, <2>3, <2>5, <2>6 DEF Pure, Fit
  <2>8. QED
    BY <2>4, <2>7
<1>11. ThoughtsIn(n) = t + x + (y + 0 + z)
  BY <1>1, <1>4
<1> HIDE DEF x, y, z, t
<1>12. /\ ThoughtsIn(q) <= ThoughtsIn(n)
       /\ ~n.hasReasoning => ThoughtsIn(q) = ThoughtsIn(n)
  <2>1. CASE n.hasReasoning
    <3>1. ThoughtsIn(q) = (t + 0) + 0 + 0 + z
      BY <1>8, <2>1
    <3>2. QED
      BY <1>6, <1>11, <2>1, <3>1
  <2>2. CASE ~n.hasReasoning
    <3>1. ThoughtsIn(q) = (t + (x + y)) + 0 + 0 + z
      BY <1>8, <2>2
    <3>2. QED
      BY <1>6, <1>11, <3>1
  <2>3. QED
    BY <2>1, <2>2
<1>13. CountOf("thought", q.openTagBuffer) = 0
  BY <1>2, CountEmpty
<1>14. QED
  BY <1>7, <1>10, <1>12, <1>13 DEF Balanced

LEMMA DropsBalanced ==
  ASSUME NEW n \in Normalizers, Buffered(n), n.remaining # <<>>, NEW e,
         NEW q \in Normalizers, Drops(n, q)
  PROVE  Balanced(n, q, e)
<1> DEFINE r == n.remaining
           h == Heard(n.out)
<1>1. /\ r \in Seq(Tokens) /\ n.openTagBuffer = <<>> /\ (~n.inThinkTag => n.tagBuffer = <<>>)
      /\ \A W : Going(W, n, e) => Leads(W, PlaceOf(n), r, e)
      /\ TextIn(n) = h.text + CountOf("text", r)
      /\ ThoughtsIn(n) = h.thoughts + CountOf("thought", n.tagBuffer) + CountOf("thought", r)
  BY BeforeRun
<1>2. PICK c \in 1 .. Len(r) :
        /\ ~n.inThinkTag /\ r[c] = "close" /\ \A i \in 1 .. c - 1 : r[i] # "open"
        /\ q.remaining = After(r, c) /\ q.openTagBuffer = <<>> /\ q.tagBuffer = <<>>
        /\ q.hasReasoning = n.hasReasoning /\ q.out = n.out
  BY <1>1 DEF Drops, Mute
<1> DEFINE first == Before(r, c)
           rest == After(r, c)
           y == CountOf("thought", first)
           z == CountOf("thought", rest)
           t == h.thoughts
<1>3. first \in Seq(Tokens) /\ rest \in Seq(Tokens)
  BY <1>1, PartsAre
<1>4. CountOf("thought", r) = y + 0 + z
  BY <1>1, <1>2, CountSplit
<1>5. t \in Nat /\ y \in Nat /\ z \in Nat
  BY <1>3, HeardIsNumber, CountIsNumber
<1>6. ThoughtsIn(n) = t + 0 + (y + 0 + z) /\ ThoughtsIn(q) = t + 0 + 0 + z
  BY <1>1, <1>2, <1>4, CountEmpty DEF ThoughtsIn
<1>7. PlaceOf(n) = "text"
  BY <1>2 DEF PlaceOf
<1>8. ASSUME Going(Steps, n, e) PROVE y = 0
  <2>1. Leads(Steps, "text", r, e)
    BY <1>1, <1>7, <1>8
  <2>2. Thoughtless(first)
    BY <1>1, <1>2, <2>1, StepsOfSteps, StretchPlain
  <2>3. QED
    BY <1>3, <2>2, WordsAre
<1>9. ~Going(CleanSteps, n, e)
  <2>1. SUFFICES ASSUME Leads(CleanSteps, "text", r, e) PROVE FALSE
    BY <1>1, <1>7
  <2>2. c \in 0 .. Len(r) /\ c \in 1 .. c
    OBVIOUS
  <2>3. \A i \in 1 .. c : r[i] # "open"
    BY <1>2
  <2>4. r[c] # "close"
    BY <1>1, <2>1, <2>2, <2>3, StepsOfSteps, PlainRun
  <2>5. QED
    BY <1>2, <2>4
<1> HIDE DEF y, z, t
<1>10. ThoughtsIn(q) <= ThoughtsIn(n) /\ (Going(Steps, n, e) => ThoughtsIn(q) = ThoughtsIn(n))
  BY <1>5, <1>6, <1>8
<1>11. CountOf("thought", q.openTagBuffer) = 0
  BY <1>2, CountEmpty
<1>12. QED
  BY <1>2, <1>9, <1>10, <1>11 DEF Balanced

LEMMA SpeaksBalanced ==
  ASSUME NEW n \in Normalizers, Buffered(n), n.remaining # <<>>, NEW e,
         NEW q \in Normalizers, Speaks(n, q)
  PROVE  Balanced(n, q, e)
<1> DEFINE r == n.remaining
           h == Heard(n.out)
           x == CountOf("text", r)
           y == CountOf("thought", r)
           s == h.text
           t == h.thoughts
<1>1. /\ r \in Seq(Tokens) /\ n.openTagBuffer = <<>> /\ (~n.inThinkTag => n.tagBuffer = <<>>)
      /\ \A W : Going(W, n, e) => Leads(W, PlaceOf(n), r, e)
      /\ TextIn(n) = s + x
      /\ ThoughtsIn(n) = t + CountOf("thought", n.tagBuffer) + y
  BY BeforeRun
<1>2. /\ ~n.inThinkTag /\ (\A i \in 1 .. Len(r) : r[i] \notin {"open", "close"})
      /\ q.remaining = <<>> /\ q.tagBuffer = <<>> /\ n.tagBuffer = <<>>
      /\ \/ q.openTagBuffer = r /\ q.out = n.out /\ q.hasReasoning = n.hasReasoning
         \/ q.openTagBuffer = <<>> /\ Adds(n, q, r, <<>>)
  BY <1>1 DEF Speaks, Mute
<1>3. t \in Nat /\ s \in Nat /\ x \in Nat /\ y \in Nat
  BY <1>1, HeardIsNumber, CountIsNumber
<1>4. PlaceOf(n) = "text"
  BY <1>2 DEF PlaceOf
<1>5. ASSUME Going(Steps, n, e) PROVE y = 0
  <2>1. Leads(Steps, "text", r, e)
    BY <1>1, <1>4, <1>5
  <2>2. Thoughtless(r)
    BY <1>1, <1>2, <2>1, StepsOfSteps, WholeStretch
  <2>3. QED
    BY <1>1, <2>2, WordsAre
<1>6. ASSUME Going(CleanSteps, n, e) PROVE ToSet(r) \subseteq Fit("content")
  <2>1. Leads(CleanSteps, "text", r, e)
    BY <1>1, <1>4, <1>6
  <2>2. Plain(r)
    BY <1>1, <1>2, <2>1, StepsOfSteps, WholeStretch
  <2>3. QED
    BY <1>1, <2>2, WordsAre
<1>7. ThoughtsIn(n) = t + 0 + y
  BY <1>1, <1>2, CountEmpty
<1>8. CASE q.openTagBuffer = r /\ q.out = n.out /\ q.hasReasoning = n.hasReasoning
  <2>1. TextIn(q) = s + x + 0 /\ ThoughtsIn(q) = t + 0 + y + 0
    BY <1>2, <1>8, CountEmpty DEF TextIn, ThoughtsIn
  <2>2. CountOf("thought", q.openTagBuffer) = y
    BY <1>8
  <2>3. Pure(n) => Pure(q)
    BY <1>2, <1>8 DEF Pure
  <2> HIDE DEF s, t, x, y
  <2>4. TextIn(q) = TextIn(n) /\ ThoughtsIn(q) = ThoughtsIn(n) /\ ThoughtsIn(q) <= ThoughtsIn(n)
    BY <1>1, <1>3, <1>7, <2>1
  <2>5. QED
    BY <1>5, <1>8, <2>2, <2>3, <2>4 DEF Balanced
<1>9. CASE q.openTagBuffer = <<>> /\ Adds(n, q, r, <<>>)
  <2>1. ToSet(<<>>) = {}
    BY DEF ToSet
  <2>2. /\ q.hasReasoning = n.hasReasoning /\ Heard(q.out).text = s + x
        /\ Heard(q.out).thoughts = t + 0
        /\ ~h.leaked /\ ToSet(r) \subseteq Fit("content") => ~Heard(q.out).leaked
    BY <1>9, <2>1, CountEmpty DEF Adds
  <2>3. TextIn(q) = (s + x) + 0 + 0 /\ ThoughtsIn(q) = (t + 0) + 0 + 0 + 0
    BY <1>2, <1>9, <2>2, CountEmpty DEF TextIn, ThoughtsIn
  <2>4. Going(CleanSteps, n, e) /\ Pure(n) => Pure(q)
    BY <1>2, <1>6, <2>1, <2>2 DEF Pure
  <2>5. CountOf("thought", q.openTagBuffer) = 0
    BY <1>9, CountEmpty
  <2> HIDE DEF s, t, x, y
  <2>6. /\ TextIn(q) = TextIn(n) /\ ThoughtsIn(q) <= ThoughtsIn(n)
        /\ Going(Steps, n, e) => ThoughtsIn(q) = ThoughtsIn(n)
    BY <1>1, <1>3, <1>5, <1>7, <2>3
  <2>7. QED
    BY <2>2, <2>4, <2>5, <2>6 DEF Balanced
<1>10. QED
  BY <1>2, <1>8, <1>9

LEMMA EntersBalanced ==
  ASSUME NEW n \in Normalizers, Buffered(n), n.remaining # <<>>, NEW e,
         NEW q \in Normalizers, Enters(n, q)
  PROVE  Balanced(n, q, e)
<1> DEFINE r == n.remaining
           h == Heard(n.out)
<1>1. /\ r \in Seq(Tokens) /\ n.openTagBuffer = <<>> /\ (~n.inThinkTag => n.tagBuffer = <<>>)
      /\ \A W : Going(W, n, e) => Leads(W, PlaceOf(n), r, e)
      /\ TextIn(n) = h.text + CountOf("text", r)
      /\ ThoughtsIn(n) = h.thoughts + CountOf("thought", n.tagBuffer) + CountOf("thought", r)
  BY BeforeRun
<1>2. PICK o \in 1 .. Len(r) :
        /\ ~n.inThinkTag /\ r[o] = "open"
        /\ \A i \in 1 .. o - 1 : r[i] \notin {"open", "close"}
        /\ \A i \in 1 .. Len(After(r, o)) : After(r, o)[i] # "close"
        /\ q.remaining = <<>> /\ q.openTagBuffer = <<>> /\ q.tagBuffer = After(r, o)
        /\ Adds(n, q, Before(r, o), <<>>)
  BY <1>1 DEF Enters
<1> DEFINE first == Before(r, o)
           rest == After(r, o)
           s == h.text
           t == h.thoughts
           u == CountOf("text", first)
           v == CountOf("text", rest)
           y == CountOf("thought", first)
           z == CountOf("thought", rest)
<1>3. first \in Seq(Tokens) /\ rest \in Seq(Tokens)
  BY <1>1, PartsAre
<1>4. CountOf("thought", r) = y + 0 + z /\ CountOf("text", r) = u + 0 + v
  BY <1>1, <1>2, CountSplit
<1>5. s \in Nat /\ t \in Nat /\ u \in Nat /\ v \in Nat /\ y \in Nat /\ z \in Nat
  BY <1>3, HeardIsNumber, CountIsNumber
<1>6. /\ q.hasReasoning = n.hasReasoning /\ Heard(q.out).text = s + u
      /\ Heard(q.out).thoughts = t + 0
      /\ ~h.leaked /\ ToSet(first) \subseteq Fit("content") => ~Heard(q.out).leaked
  <2>1. ToSet(<<>>) = {}
    BY DEF ToSet
  <2>2. QED
    BY <1>2, <2>1, CountEmpty DEF Adds
<1>7. /\ TextIn(n) = s + (u + 0 + v) /\ TextIn(q) = (s + u) + 0 + 0
      /\ ThoughtsIn(n) = t + 0 + (y + 0 + z) /\ ThoughtsIn(q) = (t + 0) + z + 0 + 0
  BY <1>1, <1>2, <1>4, <1>6, CountEmpty DEF TextIn, ThoughtsIn
<1>8. PlaceOf(n) = "text"
  BY <1>2 DEF PlaceOf
<1>9. ASSUME Going(Steps, n, e) PROVE y = 0
  <2>1. Leads(Steps, "text", r, e)
    BY <1>1, <1>8, <1>9
  <2>2. Thoughtless(first)
    BY <1>1, <1>2, <2>1, StepsOfSteps, StretchPlain
  <2>3. QED
    BY <1>3, <2>2, WordsAre
<1>10. ASSUME Going(CleanSteps, n, e) PROVE v = 0 /\ (Pure(n) => Pure(q))
  <2>1. Leads(CleanSteps, "text", r, e)
    BY <1>1, <1>8, <1>10
  <2>2. Plain(first)
    BY <1>1, <1>2, <2>1, StepsOfSteps, StretchPlain
  <2>3. Leads(CleanSteps, "thought", rest, e)
    BY <1>1, <1>2, <2>1, StepsOfSteps, LeadsOn
  <2>4. Thoughts(rest)
    BY <1>2, <1>3, <2>3, StepsOfSteps, WholeStretch
  <2>5. v = 0 /\ ToSet(rest) \subseteq {"thought"} /\ ToSet(first) \subseteq Fit("content")
    BY <1>3, <2>2, <2>4, WordsAre
  <2>6. QED
    BY <1>2, <1>6, <2>5 DEF Pure
<1> HIDE DEF s, t, u, v, y, z
<1>11. /\ ThoughtsIn(q) <= ThoughtsIn(n)
       /\ Going(Steps, n, e) => ThoughtsIn(q) = ThoughtsIn(n)
       /\ Going(CleanSteps, n, e) => TextIn(q) = TextIn(n)
  BY <1>5, <1>7, <1>9, <1>10
<1>12. CountOf("thought", q.openTagBuffer) = 0
  BY <1>2, CountEmpty
<1>13. QED
  BY <1>6, <1>10, <1>11, <1>12 DEF Balanced

LEMMA VisitsBalanced ==
  ASSUME NEW n \in Normalizers, Buffered(n), n.remaining # <<>>, NEW e,
         NEW q \in Normalizers, Visits(n, q)
  PROVE  Balanced(n, q, e)
<1> DEFINE r == n.remaining
           h == Heard(n.out)
<1>1. /\ r \in Seq(Tokens) /\ n.openTagBuffer = <<>> /\ (~n.inThinkTag => n.tagBuffer = <<>>)
      /\ \A W : Going(W, n, e) => Leads(W, PlaceOf(n), r, e)
      /\ TextIn(n) = h.text + CountOf("text", r)
      /\ ThoughtsIn(n) = h.thoughts + CountOf("thought", n.tagBuffer) + CountOf("thought", r)
  BY BeforeRun
<1>2. PICK o \in 1 .. Len(r) : \E c \in 1 .. Len(After(r, o)) :
        /\ ~n.inThinkTag /\ r[o] = "open"
        /\ \A i \in 1 .. o - 1 : r[i] \notin {"open", "close"}
        /\ After(r, o)[c] = "close" /\ \A i \in 1 .. c - 1 : After(r, o)[i] # "close"
        /\ q.remaining = After(After(r, o), c) /\ q.openTagBuffer = <<>> /\ q.tagBuffer = <<>>
        /\ Adds(n, q, Before(r, o), Before(After(r, o), c))
  BY <1>1 DEF Visits
<1> DEFINE first == Before(r, o)
           inside == After(r, o)
<1>3. first \in Seq(Tokens) /\ inside \in Seq(Tokens)
  BY <1>1, PartsAre
<1>4. PICK c \in 1 .. Len(inside) :
        /\ ~n.inThinkTag /\ r[o] = "open"
        /\ \A i \in 1 .. o - 1 : r[i] \notin {"open", "close"}
        /\ inside[c] = "close" /\ \A i \in 1 .. c - 1 : inside[i] # "close"
        /\ q.remaining = After(inside, c) /\ q.openTagBuffer = <<>> /\ q.tagBuffer = <<>>
        /\ Adds(n, q, first, Before(inside, c))
  BY <1>2
<1> DEFINE passage == Before(inside, c)
           rest == After(inside, c)
           s == h.text
           t == h.thoughts
           u == CountOf("text", first)
           v == CountOf("text", passage)
           w == CountOf("text", rest)
           x == CountOf("thought", first)
           y == CountOf("thought", passage)
           z == CountOf("thought", rest)
<1>5. CountOf("thought", r) = x + 0 + CountOf("thought", inside)
      /\ CountOf("text", r) = u + 0 + CountOf("text", inside)
  BY <1>1, <1>4, CountSplit
<1> HIDE DEF inside
<1>6. passage \in Seq(Tokens) /\ rest \in Seq(Tokens)
  BY <1>3, PartsAre
<1>7. CountOf("thought", inside) = y + 0 + z /\ CountOf("text", inside) = v + 0 + w
  BY <1>3, <1>4, CountSplit
<1>8. /\ s \in Nat /\ t \in Nat /\ u \in Nat /\ v \in Nat /\ w \in Nat
      /\ x \in Nat /\ y \in Nat /\ z \in Nat
  BY <1>3, <1>6, HeardIsNumber, CountIsNumber
<1>9. /\ q.hasReasoning = n.hasReasoning /\ Heard(q.out).text = s + u
      /\ Heard(q.out).thoughts = t + (IF n.hasReasoning THEN 0 ELSE y)
      /\ ~h.leaked /\ ToSet(first) \subseteq Fit("content")
           /\ ToSet(passage) \subseteq Fit("reasoning") => ~Heard(q.out).leaked
  BY <1>4 DEF Adds
<1> DEFINE told == IF n.hasReasoning THEN 0 ELSE y
<1>10. /\ TextIn(n) = s + (u + 0 + (v + 0 + w)) /\ TextIn(q) = (s + u) + 0 + w
       /\ ThoughtsIn(n) = t + 0 + (x + 0 + (y + 0 + z))
       /\ ThoughtsIn(q) = (t + told) + 0 + 0 + z
  BY <1>1, <1>4, <1>5, <1>7, <1>9, CountEmpty DEF TextIn, ThoughtsIn
<1>11. PlaceOf(n) = "text"
  BY <1>4 DEF PlaceOf
<1>12. ASSUME Going(Steps, n, e) PROVE x = 0
  <2>1. Leads(Steps, "text", r, e)
    BY <1>1, <1>11, <1>12
  <2>2. Thoughtless(first)
    BY <1>1, <1>4, <2>1, StepsOfSteps, StretchPlain
  <2>3. QED
    BY <1>3, <2>2, WordsAre
<1>13. ASSUME Going(CleanSteps, n, e) PROVE v = 0 /\ (Pure(n) => Pure(q))
  <2>1. Leads(CleanSteps, "text", r, e)
    BY <1>1, <1>11, <1>13
  <2>2. Plain(first)
    BY <1>1, <1>4, <2>1, StepsOfSteps, StretchPlain
  <2>3. Leads(CleanSteps, "thought", inside, e)
    BY <1>1, <1>4, <2>1, StepsOfSteps, LeadsOn DEF inside
  <2>4. Thoughts(passage)
    BY <1>3, <1>4, <2>3, StepsOfSteps, StretchInside
  <2>5. v = 0 /\ ToSet(passage) \subseteq {"thought"} /\ ToSet(first) \subseteq Fit("content")
    BY <1>3, <1>6, <2>2, <2>4, WordsAre
  <2>6. ToSet(<<>>) = {} /\ {"thought"} \subseteq Fit("reasoning")
    BY DEF ToSet, Fit
  <2>7. QED
    BY <1>4, <1>9, <2>5, <2>6 DEF Pure
<1>14. told \in Nat /\ told <= y /\ (~n.hasReasoning => told = y)
  BY <1>8
<1> HIDE DEF s, t, u, v, w, x, y, z, told
<1>15. /\ ThoughtsIn(q) <= ThoughtsIn(n)
       /\ Going(Steps, n, e) /\ ~n.hasReasoning => ThoughtsIn(q) = ThoughtsIn(n)
       /\ Going(CleanSteps, n, e) => TextIn(q) = TextIn(n)
  BY <1>8, <1>10, <1>12, <1>13, <1>14
<1>16. CountOf("thought", q.openTagBuffer) = 0
  BY <1>4, CountEmpty
<1>17. QED
  BY <1>9, <1>13, <1>15, <1>16 DEF Balanced

LEMMA PassBalanced ==
  ASSUME NEW n \in Normalizers, Buffered(n), NEW e \in ModelPlaces
  PROVE  Balanced(n, Pass(n), e)
<1> DEFINE q == Pass(n)
<1>1. CASE n.remaining = <<>>
  <2>1. q = n
    BY <1>1 DEF Pass
  <2>2. ThoughtsIn(n) \in Nat
    <3>1. n.tagBuffer \in Seq(Tokens) /\ n.openTagBuffer \in Seq(Tokens) /\ n.remaining \in Seq(Tokens)
      BY DEF Normalizers
    <3>2. Heard(n.out).thoughts \in Nat /\ CountOf("thought", n.tagBuffer) \in Nat
          /\ CountOf("thought", n.openTagBuffer) \in Nat /\ CountOf("thought", n.remaining) \in Nat
      BY <3>1, HeardIsNumber, CountIsNumber
    <3>3. QED
      BY <3>2 DEF ThoughtsIn
  <2>3. ThoughtsIn(n) <= ThoughtsIn(n)
    BY <2>2
  <2>4. QED
    BY <2>1, <2>3 DEF Balanced
<1>2. CASE n.remaining # <<>>
  <2>1. q \in Normalizers
    BY <1>2, PassIs
  <2>2. Gathers(n, q) \/ Leaves(n, q) \/ Drops(n, q) \/ Speaks(n, q) \/ Enters(n, q) \/ Visits(n, q)
    BY <1>2, PassTells
  <2> HIDE DEF q
  <2>3. Balanced(n, q, e)
    BY <1>2, <2>1, <2>2, GathersBalanced, LeavesBalanced, DropsBalanced, SpeaksBalanced,
       EntersBalanced, VisitsBalanced
  <2>4. QED
    BY <2>3 DEF q
<1>3. QED
  BY <1>1, <1>2

-----------------------------------------------------------------------------
(*****************************************************************************)
(* What a whole chunk, and the end of the stream, make of what is held back. *)
(*****************************************************************************)

LEMMA ParseBalanced ==
  ASSUME NEW n \in Normalizers, Buffered(n), n.openTagBuffer = <<>>,
         NEW tokens \in Seq(Tokens), NEW e \in ModelPlaces
  PROVE  LET b == Continue(n, tokens)
             q == Parse(n, tokens)
         IN /\ q.hasReasoning = n.hasReasoning
            /\ ThoughtsIn(q) <= ThoughtsIn(b)
            /\ Leads(Steps, PlaceOf(n), tokens, e) =>
                 /\ ~n.hasReasoning => ThoughtsIn(q) = ThoughtsIn(b)
                 /\ CountOf("thought", q.openTagBuffer) = 0
            /\ Leads(CleanSteps, PlaceOf(n), tokens, e) =>
                 TextIn(q) = TextIn(b) /\ (Pure(b) => Pure(q))
<1> DEFINE b == Continue(n, tokens)
           any == Leads(Steps, PlaceOf(n), tokens, e)
           clean == Leads(CleanSteps, PlaceOf(n), tokens, e)
           Since(x) ==
             /\ x.hasReasoning = n.hasReasoning
             /\ ThoughtsIn(x) <= ThoughtsIn(b)
             /\ any => /\ Going(Steps, x, e)
                       /\ ~n.hasReasoning => ThoughtsIn(x) = ThoughtsIn(b)
                       /\ CountOf("thought", x.openTagBuffer) = 0
             /\ clean => /\ Going(CleanSteps, x, e)
                         /\ TextIn(x) = TextIn(b) /\ (Pure(b) => Pure(x))
           S == {x \in Normalizers : Buffered(x) /\ Since(x)}
<1>1. ASSUME NEW x \in Normalizers PROVE ThoughtsIn(x) \in Nat
  <2>1. x.tagBuffer \in Seq(Tokens) /\ x.openTagBuffer \in Seq(Tokens) /\ x.remaining \in Seq(Tokens)
    BY DEF Normalizers
  <2>2. Heard(x.out).thoughts \in Nat /\ CountOf("thought", x.tagBuffer) \in Nat
        /\ CountOf("thought", x.openTagBuffer) \in Nat /\ CountOf("thought", x.remaining) \in Nat
    BY <2>1, HeardIsNumber, CountIsNumber
  <2>3. QED
    BY <2>2 DEF ThoughtsIn
<1>2. b \in S
  <2>1. /\ b \in Normalizers /\ b.remaining = tokens /\ b.inThinkTag = n.inThinkTag
        /\ b.tagBuffer = n.tagBuffer /\ b.openTagBuffer = <<>>
    BY ContinueIs
  <2>2. b.hasReasoning = n.hasReasoning
    BY ContinueMute
  <2> HIDE DEF b
  <2>3. Buffered(b)
    BY <2>1 DEF Buffered
  <2>4. PlaceOf(b) = PlaceOf(n)
    BY <2>1 DEF PlaceOf
  <2>5. (any => Going(Steps, b, e)) /\ (clean => Going(CleanSteps, b, e))
    BY <2>1, <2>4 DEF Going
  <2>6. CountOf("thought", b.openTagBuffer) = 0
    BY <2>1, CountEmpty
  <2>7. ThoughtsIn(b) <= ThoughtsIn(b)
    BY <1>1, <2>1
  <2> HIDE DEF any, clean
  <2>8. QED
    BY <2>1, <2>2, <2>3, <2>5, <2>6, <2>7
<1>3. ASSUME NEW x \in S PROVE Pass(x) \in S
  <2> DEFINE y == Pass(x)
  <2>1. x \in Normalizers /\ Buffered(x) /\ Since(x)
    OBVIOUS
  <2>2. /\ y \in Normalizers /\ Buffered(y)
        /\ Going(Steps, x, e) => Going(Steps, y, e)
        /\ Going(CleanSteps, x, e) => Going(CleanSteps, y, e)
    BY <2>1, StepsOfSteps, PassKeeps
  <2>3. Balanced(x, y, e)
    BY <2>1, PassBalanced
  <2> HIDE DEF y, any, clean
  <2>4. ThoughtsIn(x) \in Nat /\ ThoughtsIn(y) \in Nat /\ ThoughtsIn(b) \in Nat
    BY <1>1, <1>2, <2>1, <2>2
  <2>5. ThoughtsIn(y) <= ThoughtsIn(b)
    <3>1. ThoughtsIn(y) <= ThoughtsIn(x) /\ ThoughtsIn(x) <= ThoughtsIn(b)
      BY <2>1, <2>3 DEF Balanced
    <3>2. QED
      BY <2>4, <3>1
  <2>6. y.hasReasoning = n.hasReasoning
    BY <2>1, <2>3 DEF Balanced
  <2>7. any => /\ Going(Steps, y, e)
               /\ ~n.hasReasoning => ThoughtsIn(y) = ThoughtsIn(b)
               /\ CountOf("thought", y.openTagBuffer) = 0
    BY <2>1, <2>2, <2>3 DEF Balanced
  <2>8. clean => /\ Going(CleanSteps, y, e)
                 /\ TextIn(y) = TextIn(b) /\ (Pure(b) => Pure(y))
    BY <2>1, <2>2, <2>3 DEF Balanced
  <2>9. y \in S
    BY <2>2, <2>5, <2>6, <2>7, <2>8
  <2>10. QED
    BY <2>9 DEF y
<1> HIDE DEF S
<1>4. PICK g \in [0 .. Len(tokens) -> S] :
        /\ g[0] = Continue(n, tokens)
        /\ \A i \in 1 .. Len(tokens) : g[i] = Pass(g[i - 1])
        /\ Parse(n, tokens) = g[Len(tokens)]
  BY <1>2, <1>3, ParseRuns
<1>5. Parse(n, tokens) \in S
  BY <1>4
<1> DEFINE q == Parse(n, tokens)
<1> HIDE DEF q
<1>6. Since(q)
  BY <1>5 DEF S, q
<1> HIDE DEF b
<1>7. /\ q.hasReasoning = n.hasReasoning
      /\ ThoughtsIn(q) <= ThoughtsIn(b)
      /\ Leads(Steps, PlaceOf(n), tokens, e) =>
           /\ ~n.hasReasoning => ThoughtsIn(q) = ThoughtsIn(b)
           /\ CountOf("thought", q.openTagBuffer) = 0
      /\ Leads(CleanSteps, PlaceOf(n), tokens, e) =>
           TextIn(q) = TextIn(b) /\ (Pure(b) => Pure(q))
  BY <1>6
<1>8. QED
  BY <1>7 DEF b, q

\* The thoughts of a passage that is not over, or taken for the start of a tag.
Held(n) == CountOf("thought", n.tagBuffer) + CountOf("thought", n.openTagBuffer)

\* What a chunk makes of the normalizer: it holds back or tells no more
\* thoughts than there are; all of them; and all of the text, as text.
NoMoreThoughts(n, q, content, reasoning) ==
  Heard(q.out).thoughts + Held(q)
    <= Held(n) + CountOf("thought", content) + CountOf("thought", reasoning)

AllThoughts(n, q, content, reasoning) ==
  /\ CountOf("thought", n.openTagBuffer) = 0 => CountOf("thought", q.openTagBuffer) = 0
  /\ ~n.hasReasoning /\ reasoning = <<>> =>
       Heard(q.out).thoughts + Held(q) = Held(n) + CountOf("thought", content)

AllText(n, q, content, reasoning) ==
  /\ Heard(q.out).text + CountOf("text", q.openTagBuffer)
       = CountOf("text", n.openTagBuffer) + CountOf("text", content)
  /\ ToSet(n.tagBuffer) \subseteq {"thought"} /\ ToSet(reasoning) \subseteq {"thought"} =>
       ~Heard(q.out).leaked /\ ToSet(q.tagBuffer) \subseteq {"thought"}

\* What the model writes in a chunk, from p, is what the loop is given whole.
WellCut(W, n, p, g, content) ==
  /\ Settled(W, n, p) /\ OneChunk(content) /\ Passes(g, p, content)
  /\ Keeping(W, g, content) /\ g[Len(content)] # "closing"

\* The reasoning that comes apart from the content is told as it is.
LEMMA ReasoningTold ==
  ASSUME NEW n \in Normalizers, NEW reasoning \in Seq(Tokens)
  PROVE  LET fresh == [n EXCEPT !.out = <<>>]
             told == IF reasoning = <<>> THEN fresh
                     ELSE Emit([fresh EXCEPT !.hasReasoning = TRUE], "reasoning", reasoning)
         IN /\ told \in Normalizers /\ NormalizerSame(n, told)
            /\ told.hasReasoning <=> n.hasReasoning \/ reasoning # <<>>
            /\ Heard(told.out).text = 0
            /\ Heard(told.out).thoughts = CountOf("thought", reasoning)
            /\ ToSet(reasoning) \subseteq {"thought"} => ~Heard(told.out).leaked
<1> DEFINE none == <<>>
           fresh == [n EXCEPT !.out = none]
           marked == [fresh EXCEPT !.hasReasoning = TRUE]
           said == Emit(marked, "reasoning", reasoning)
           told == IF reasoning = <<>> THEN fresh ELSE said
<1>1. none \in Seq(NormalizedPieces) /\ none \in Seq(Tokens)
  OBVIOUS
<1>2. Heard(none) = NewPlainReader
  BY HeardNothing
<1> HIDE DEF none, NormalizedPieces
<1>3. /\ fresh \in Normalizers /\ NormalizerSame(n, fresh) /\ fresh.out = none
      /\ fresh.hasReasoning = n.hasReasoning
  BY <1>1 DEF Normalizers, NormalizerSame
<1> HIDE DEF fresh
<1>4. /\ marked \in Normalizers /\ NormalizerSame(n, marked) /\ marked.out = none
      /\ marked.hasReasoning = TRUE
  BY <1>3 DEF Normalizers, NormalizerSame
<1> HIDE DEF marked
<1>5. said \in Normalizers /\ NormalizerSame(marked, said)
  BY <1>4, EmitIs
<1>6. /\ said.hasReasoning = TRUE
      /\ Heard(said.out).text = 0
      /\ Heard(said.out).thoughts = 0 + CountOf("thought", reasoning)
      /\ ToSet(reasoning) \subseteq Fit("reasoning") => ~Heard(said.out).leaked
  BY <1>2, <1>4, EmitTells, HeardNothing
<1> HIDE DEF said
<1>7. CountOf("thought", reasoning) \in Nat
  BY CountIsNumber
<1>8. {"thought"} \subseteq Fit("reasoning")
  BY DEF Fit
<1>9. CASE reasoning = <<>>
  <2>1. told = fresh /\ CountOf("thought", reasoning) = 0
    BY <1>9, CountEmpty
  <2>2. Heard(told.out).text = 0 /\ Heard(told.out).thoughts = 0 /\ ~Heard(told.out).leaked
    BY <1>2, <1>3, <2>1, HeardNothing
  <2>3. told.hasReasoning <=> n.hasReasoning
    BY <1>3, <2>1
  <2> HIDE DEF told
  <2>4. QED
    BY <1>3, <1>9, <2>1, <2>2, <2>3 DEF told, fresh, said, marked, none
<1>10. CASE reasoning # <<>>
  <2>1. told = said
    BY <1>10
  <2> HIDE DEF told
  <2>2. told \in Normalizers /\ NormalizerSame(n, told)
    BY <1>4, <1>5, <2>1 DEF NormalizerSame
  <2>3. /\ told.hasReasoning = TRUE /\ Heard(told.out).text = 0
        /\ Heard(told.out).thoughts = CountOf("thought", reasoning)
        /\ ToSet(reasoning) \subseteq {"thought"} => ~Heard(told.out).leaked
    BY <1>6, <1>7, <1>8, <2>1
  <2>4. QED
    BY <1>10, <2>2, <2>3 DEF told, fresh, said, marked, none
<1>11. QED
  BY <1>9, <1>10

\* Through the loop: what it is given is the start of a tag that was kept, and
\* the chunk.
LEMMA LoopTells ==
  ASSUME NEW n \in Normalizers, Buffered(n), n.remaining = <<>>,
         NEW told \in Normalizers, NormalizerSame(n, told),
         NEW content \in Seq(Tokens), content # <<>>, NEW reasoning \in Seq(Tokens),
         told.hasReasoning <=> n.hasReasoning \/ reasoning # <<>>,
         Heard(told.out).text = 0, Heard(told.out).thoughts = CountOf("thought", reasoning),
         ToSet(reasoning) \subseteq {"thought"} => ~Heard(told.out).leaked
  PROVE  LET q == Parse([told EXCEPT !.openTagBuffer = <<>>], Joined(n.openTagBuffer, content))
         IN /\ q.hasReasoning <=> n.hasReasoning \/ reasoning # <<>>
            /\ NoMoreThoughts(n, q, content, reasoning)
            /\ \A p \in ModelPlaces : \A g :
                 /\ WellCut(Steps, n, p, g, content) => AllThoughts(n, q, content, reasoning)
                 /\ WellCut(CleanSteps, n, p, g, content) => AllText(n, q, content, reasoning)
<1> DEFINE none == <<>>
           cleared == [told EXCEPT !.openTagBuffer = none]
           s == n.openTagBuffer
           joined == Joined(s, content)
           b == Continue(cleared, joined)
           q == Parse(cleared, joined)
<1>1. none \in Seq(Tokens) /\ s \in Seq(Tokens) /\ n.tagBuffer \in Seq(Tokens)
  BY DEF Normalizers
<1> HIDE DEF none, NormalizedPieces
<1>2. /\ cleared \in Normalizers /\ cleared.inThinkTag = n.inThinkTag
      /\ cleared.tagBuffer = n.tagBuffer /\ cleared.openTagBuffer = <<>>
      /\ cleared.hasReasoning = told.hasReasoning /\ cleared.out = told.out
  BY <1>1 DEF Normalizers, NormalizerSame, none
<1> HIDE DEF cleared
<1>3. Buffered(cleared) /\ PlaceOf(cleared) = PlaceOf(n)
  BY <1>2 DEF Buffered, PlaceOf
<1>4. joined \in Seq(Tokens)
  <2>1. "open" \in Tokens
    BY DEF Tokens
  <2>2. QED
    BY <1>1, <2>1, JoinedIs
<1>5. /\ CountOf("text", joined) = CountOf("text", s) + CountOf("text", content)
      /\ CountOf("thought", joined) = CountOf("thought", s) + CountOf("thought", content)
  BY <1>1, CountJoined
<1> HIDE DEF joined
<1>6. /\ b \in Normalizers /\ b.remaining = joined /\ b.tagBuffer = n.tagBuffer
      /\ b.openTagBuffer = <<>> /\ b.out = told.out
  BY <1>2, <1>4, ContinueIs, ContinueMute
<1> DEFINE st == CountOf("text", s)
           ct == CountOf("text", content)
           sh == CountOf("thought", s)
           ch == CountOf("thought", content)
           rh == CountOf("thought", reasoning)
           bh == CountOf("thought", n.tagBuffer)
<1>7. /\ st \in Nat /\ ct \in Nat /\ sh \in Nat /\ ch \in Nat /\ rh \in Nat /\ bh \in Nat
  BY <1>1, CountIsNumber
<1>8. TextIn(b) = 0 + 0 + (st + ct) /\ ThoughtsIn(b) = rh + bh + 0 + (sh + ch)
  BY <1>5, <1>6, CountEmpty DEF TextIn, ThoughtsIn
<1>9. \A e \in ModelPlaces : q \in Normalizers /\ q.remaining = <<>>
  BY <1>2, <1>3, <1>4, StepsOfSteps, ParseKeeps
<1>10. ASSUME NEW e \in ModelPlaces
       PROVE  /\ q.hasReasoning = cleared.hasReasoning
              /\ ThoughtsIn(q) <= ThoughtsIn(b)
              /\ Leads(Steps, PlaceOf(cleared), joined, e) =>
                   /\ ~cleared.hasReasoning => ThoughtsIn(q) = ThoughtsIn(b)
                   /\ CountOf("thought", q.openTagBuffer) = 0
              /\ Leads(CleanSteps, PlaceOf(cleared), joined, e) =>
                   TextIn(q) = TextIn(b) /\ (Pure(b) => Pure(q))
  BY <1>2, <1>3, <1>4, ParseBalanced
<1> HIDE DEF b, q
<1>11. "text" \in ModelPlaces
  BY DEF ModelPlaces
<1>12. /\ q \in Normalizers /\ q.remaining = <<>> /\ q.hasReasoning = cleared.hasReasoning
       /\ ThoughtsIn(q) <= ThoughtsIn(b)
  BY <1>9, <1>10, <1>11
<1> DEFINE qt == CountOf("text", q.openTagBuffer)
           qh == CountOf("thought", q.openTagBuffer)
           qb == CountOf("thought", q.tagBuffer)
           x == Heard(q.out).text
           y == Heard(q.out).thoughts
<1>13. qt \in Nat /\ qh \in Nat /\ qb \in Nat /\ x \in Nat /\ y \in Nat
  <2>1. q.tagBuffer \in Seq(Tokens) /\ q.openTagBuffer \in Seq(Tokens)
    BY <1>12 DEF Normalizers
  <2>2. QED
    BY <1>12, <2>1, CountIsNumber, HeardIsNumber
<1>14. TextIn(q) = x + qt + 0 /\ ThoughtsIn(q) = y + qb + qh + 0
  BY <1>12, CountEmpty DEF TextIn, ThoughtsIn
<1>15. Held(q) = qb + qh /\ Held(n) = bh + sh
  BY DEF Held
<1>16. NoMoreThoughts(n, q, content, reasoning)
  <2> HIDE DEF sh, ch, rh, bh, qh, qb, y
  <2>1. y + (qb + qh) <= (bh + sh) + ch + rh
    BY <1>7, <1>8, <1>12, <1>13, <1>14
  <2>2. QED
    BY <1>15, <2>1 DEF NoMoreThoughts, y, ch, rh
<1>17. ASSUME NEW W \in SUBSET Steps, <<"text", "open", "thought">> \in W,
              NEW p \in ModelPlaces, NEW g, WellCut(W, n, p, g, content)
       PROVE  Leads(W, PlaceOf(cleared), joined, g[Len(content)]) /\ g[Len(content)] \in ModelPlaces
  <2>1. Leads(W, PlaceOf(n), joined, g[Len(content)])
    BY <1>17, JoinedLeads DEF WellCut, joined
  <2>2. g[Len(content)] \in ModelPlaces
    BY <1>17 DEF WellCut, Passes
  <2>3. QED
    BY <1>3, <2>1, <2>2
<1>18. ASSUME NEW p \in ModelPlaces, NEW g, WellCut(Steps, n, p, g, content)
       PROVE  AllThoughts(n, q, content, reasoning)
  <2>1. <<"text", "open", "thought">> \in Steps
    BY DEF Steps
  <2>2. /\ ~cleared.hasReasoning => ThoughtsIn(q) = ThoughtsIn(b)
        /\ CountOf("thought", q.openTagBuffer) = 0
    BY <1>10, <1>17, <1>18, <2>1, StepsOfSteps
  <2>3. ASSUME ~n.hasReasoning, reasoning = <<>>
        PROVE  Heard(q.out).thoughts + Held(q) = Held(n) + CountOf("thought", content)
    <3>1. ThoughtsIn(q) = ThoughtsIn(b) /\ rh = 0
      BY <1>2, <2>2, <2>3, CountEmpty
    <3> HIDE DEF sh, ch, rh, bh, qh, qb, y
    <3>2. y + (qb + qh) = (bh + sh) + ch
      BY <1>7, <1>8, <1>13, <1>14, <3>1
    <3>3. QED
      BY <1>15, <3>2 DEF y, ch
  <2>4. QED
    BY <2>2, <2>3 DEF AllThoughts
<1>19. ASSUME NEW p \in ModelPlaces, NEW g, WellCut(CleanSteps, n, p, g, content)
       PROVE  AllText(n, q, content, reasoning)
  <2>1. <<"text", "open", "thought">> \in CleanSteps
    BY DEF CleanSteps, Steps
  <2>2. TextIn(q) = TextIn(b) /\ (Pure(b) => Pure(q))
    BY <1>10, <1>17, <1>19, <2>1, StepsOfSteps
  <2>3. ToSet(n.tagBuffer) \subseteq {"thought"} /\ ToSet(reasoning) \subseteq {"thought"} => Pure(b)
    BY <1>6 DEF Pure
  <2>4. x + qt = st + ct
    <3> HIDE DEF x, qt, st, ct
    <3>1. QED
      BY <1>7, <1>8, <1>13, <1>14, <2>2
  <2>5. QED
    BY <2>2, <2>3, <2>4 DEF AllText, Pure
<1>20. q.hasReasoning <=> n.hasReasoning \/ reasoning # <<>>
  BY <1>2, <1>12
<1>21. QED
  BY <1>16, <1>18, <1>19, <1>20 DEF q, cleared, joined, none

LEMMA NormalizedTells ==
  ASSUME NEW n \in Normalizers, Buffered(n), n.remaining = <<>>,
         NEW content \in Seq(Tokens), NEW reasoning \in Seq(Tokens)
  PROVE  LET q == Normalized(n, content, reasoning)
         IN /\ q.hasReasoning <=> n.hasReasoning \/ reasoning # <<>>
            /\ NoMoreThoughts(n, q, content, reasoning)
            /\ \A p \in ModelPlaces : \A g :
                 /\ WellCut(Steps, n, p, g, content) => AllThoughts(n, q, content, reasoning)
                 /\ WellCut(CleanSteps, n, p, g, content) => AllText(n, q, content, reasoning)
<1> DEFINE fresh == [n EXCEPT !.out = <<>>]
           told == IF reasoning = <<>> THEN fresh
                   ELSE Emit([fresh EXCEPT !.hasReasoning = TRUE], "reasoning", reasoning)
           q == Normalized(n, content, reasoning)
<1>1. /\ told \in Normalizers /\ NormalizerSame(n, told)
      /\ told.hasReasoning <=> n.hasReasoning \/ reasoning # <<>>
      /\ Heard(told.out).text = 0
      /\ Heard(told.out).thoughts = CountOf("thought", reasoning)
      /\ ToSet(reasoning) \subseteq {"thought"} => ~Heard(told.out).leaked
  BY ReasoningTold
<1>2. q = IF content = <<>> THEN told
          ELSE Parse([told EXCEPT !.openTagBuffer = <<>>], Joined(n.openTagBuffer, content))
  BY DEF Normalized
<1> HIDE DEF told
<1>3. CASE content = <<>>
  <2>1. q = told
    BY <1>2, <1>3
  <2> HIDE DEF q
  <2>2. q.tagBuffer = n.tagBuffer /\ q.openTagBuffer = n.openTagBuffer /\ Held(q) = Held(n)
    BY <1>1, <2>1 DEF NormalizerSame, Held
  <2>3. CountOf("text", content) = 0 /\ CountOf("thought", content) = 0
    BY <1>3, CountEmpty
  <2> DEFINE h == Held(n)
             r == CountOf("thought", reasoning)
             t == CountOf("text", n.openTagBuffer)
  <2>4. h \in Nat /\ r \in Nat /\ t \in Nat
    <3>1. n.tagBuffer \in Seq(Tokens) /\ n.openTagBuffer \in Seq(Tokens)
      BY DEF Normalizers
    <3>2. CountOf("thought", n.tagBuffer) \in Nat /\ CountOf("thought", n.openTagBuffer) \in Nat
          /\ r \in Nat /\ t \in Nat
      BY <3>1, CountIsNumber
    <3>3. QED
      BY <3>2 DEF Held
  <2>5. reasoning = <<>> => r = 0
    BY CountEmpty
  <2> HIDE DEF h, r, t
  <2>6. /\ r + h <= h + 0 + r /\ (r = 0 => r + h = h + 0) /\ 0 + t = t + 0
    BY <2>4
  <2>7. NoMoreThoughts(n, q, content, reasoning)
    BY <1>1, <2>1, <2>2, <2>3, <2>6 DEF NoMoreThoughts, h, r
  <2>8. AllThoughts(n, q, content, reasoning)
    BY <1>1, <2>1, <2>2, <2>3, <2>5, <2>6 DEF AllThoughts, h, r
  <2>9. AllText(n, q, content, reasoning)
    BY <1>1, <2>1, <2>2, <2>3, <2>6 DEF AllText, t
  <2>10. QED
    BY <1>1, <2>1, <2>7, <2>8, <2>9 DEF q
<1>4. CASE content # <<>>
  <2>1. q = Parse([told EXCEPT !.openTagBuffer = <<>>], Joined(n.openTagBuffer, content))
    BY <1>2, <1>4
  <2> HIDE DEF q
  <2>2. /\ q.hasReasoning <=> n.hasReasoning \/ reasoning # <<>>
        /\ NoMoreThoughts(n, q, content, reasoning)
        /\ \A p \in ModelPlaces : \A g :
             /\ WellCut(Steps, n, p, g, content) => AllThoughts(n, q, content, reasoning)
             /\ WellCut(CleanSteps, n, p, g, content) => AllText(n, q, content, reasoning)
    BY <1>1, <1>4, <2>1, LoopTells
  <2>3. QED
    BY <2>2 DEF q
<1>5. QED
  BY <1>3, <1>4

\* At the end the passage that is open is told, and nothing else.
LEMMA FlushedTells ==
  ASSUME NEW n \in Normalizers, Buffered(n), n.remaining = <<>>
  PROVE  LET q == NormalizerFlushed(n)
         IN /\ q.tagBuffer = <<>> /\ q.openTagBuffer = n.openTagBuffer
            /\ q.hasReasoning = n.hasReasoning
            /\ Heard(q.out).text = 0
            /\ Heard(q.out).thoughts <= CountOf("thought", n.tagBuffer)
            /\ ~n.hasReasoning => Heard(q.out).thoughts = CountOf("thought", n.tagBuffer)
            /\ ToSet(n.tagBuffer) \subseteq {"thought"} => ~Heard(q.out).leaked
<1> DEFINE none == <<>>
           fresh == [n EXCEPT !.out = none]
           left == LeaveTag(fresh, none)
           q == NormalizerFlushed(n)
           b == n.tagBuffer
           y == CountOf("thought", b)
<1>1. none \in Seq(NormalizedPieces) /\ none \in Seq(Tokens) /\ b \in Seq(Tokens)
  BY DEF Normalizers
<1>2. q = IF n.inThinkTag /\ b # <<>> THEN left ELSE fresh
  BY DEF NormalizerFlushed
<1>3. Heard(none) = NewPlainReader
  BY HeardNothing
<1>4. b \o none = b
  BY <1>1
<1> HIDE DEF none, NormalizedPieces
<1>5. /\ fresh \in Normalizers /\ NormalizerSame(n, fresh) /\ fresh.out = none
      /\ fresh.hasReasoning = n.hasReasoning /\ fresh.tagBuffer = b
      /\ fresh.openTagBuffer = n.openTagBuffer
  BY <1>1 DEF Normalizers, NormalizerSame
<1> HIDE DEF fresh
<1>6. /\ left.tagBuffer = <<>> /\ left.openTagBuffer = n.openTagBuffer
      /\ Adds(fresh, left, <<>>, b)
  BY <1>1, <1>4, <1>5, LeaveTagIs, LeaveTagTells
<1> HIDE DEF left
<1>7. y \in Nat
  BY <1>1, CountIsNumber
<1>8. CASE n.inThinkTag /\ b # <<>>
  <2>1. q = left
    BY <1>2, <1>8
  <2>2. ToSet(<<>>) = {} /\ {"thought"} \subseteq Fit("reasoning")
    BY DEF ToSet, Fit
  <2>3. /\ q.hasReasoning = n.hasReasoning /\ Heard(q.out).text = 0 + 0
        /\ Heard(q.out).thoughts = 0 + (IF n.hasReasoning THEN 0 ELSE y)
        /\ ToSet(b) \subseteq {"thought"} => ~Heard(q.out).leaked
    BY <1>3, <1>5, <1>6, <2>1, <2>2, CountEmpty, HeardNothing DEF Adds
  <2> HIDE DEF q, y
  <2>4. /\ Heard(q.out).thoughts <= y /\ (~n.hasReasoning => Heard(q.out).thoughts = y)
        /\ Heard(q.out).text = 0
    BY <1>7, <2>3
  <2>5. QED
    BY <1>6, <2>1, <2>3, <2>4 DEF q, y
<1>9. CASE ~(n.inThinkTag /\ b # <<>>)
  <2>1. q = fresh
    BY <1>2, <1>9
  <2>2. b = <<>> /\ y = 0
    <3>1. b = <<>>
      BY <1>9 DEF Buffered
    <3>2. QED
      BY <3>1, CountEmpty
  <2> HIDE DEF q, y
  <2>3. Heard(q.out).thoughts = 0 /\ Heard(q.out).text = 0 /\ ~Heard(q.out).leaked
    BY <1>3, <1>5, <2>1, HeardNothing
  <2>4. QED
    BY <1>5, <2>1, <2>2, <2>3 DEF q, y
<1>10. QED
  BY <1>8, <1>9

-----------------------------------------------------------------------------
(*****************************************************************************)
(* What the Messages client has of a chunk: the text of its pieces, and the  *)
(* thoughts unless they are skipped.                                         *)
(*****************************************************************************)

Silent(a, b) ==
  /\ b.skipThinking = a.skipThinking
  /\ b.client.text = a.client.text /\ b.client.thoughts = a.client.thoughts
  /\ b.client.leaked <=> a.client.leaked

\* It is told more: so much text, so many thoughts, and whether they fit.
SaysMore(a, b, text, thoughts, fits) ==
  /\ b.skipThinking = a.skipThinking
  /\ b.client.text = a.client.text + text
  /\ b.client.thoughts = a.client.thoughts + (IF a.skipThinking THEN 0 ELSE thoughts)
  /\ fits /\ ~a.client.leaked => ~b.client.leaked

LEMMA ClientNumbers ==
  ASSUME NEW a \in Translators
  PROVE  /\ a.client \in MessageReaders /\ a.skipThinking \in BOOLEAN
         /\ a.client.text \in Nat /\ a.client.thoughts \in Nat /\ a.client.leaked \in BOOLEAN
<1>1. a.client \in MessageReaders /\ a.skipThinking \in BOOLEAN
  BY DEF Translators
<1>2. QED
  BY <1>1 DEF MessageReaders

LEMMA EmittedTells ==
  ASSUME NEW a \in Translators, NEW e \in MessageEvents
  PROVE  LET b == Emitted(a, e)
         IN /\ b.skipThinking = a.skipThinking
            /\ e.tokens = <<>> => Silent(a, b)
            /\ e.block = "text" =>
                 /\ b.client.text = a.client.text + CountOf("text", e.tokens)
                 /\ b.client.thoughts = a.client.thoughts
                 /\ b.client.leaked <=>
                      a.client.leaked \/ ~(ToSet(e.tokens) \subseteq Fit("content"))
            /\ e.block = "thinking" =>
                 /\ b.client.text = a.client.text
                 /\ b.client.thoughts = a.client.thoughts + CountOf("thought", e.tokens)
                 /\ b.client.leaked <=>
                      a.client.leaked \/ ~(ToSet(e.tokens) \subseteq Fit("reasoning"))
<1> DEFINE b == Emitted(a, e)
           m == a.client
           x == CountOf("text", e.tokens)
           y == CountOf("thought", e.tokens)
<1>1. SameBut(a, b) /\ b.client = MessageRead(m, e)
  BY EmittedIs
<1>2. /\ b.client.text = m.text + (IF e.block = "text" THEN x ELSE 0)
      /\ b.client.thoughts = m.thoughts + (IF e.block = "thinking" THEN y ELSE 0)
      /\ b.client.leaked <=>
           \/ m.leaked
           \/ e.block = "text" /\ ~(ToSet(e.tokens) \subseteq Fit("content"))
           \/ e.block = "thinking" /\ ~(ToSet(e.tokens) \subseteq Fit("reasoning"))
  <2> DEFINE q == MessageRead(m, e)
  <2>1. /\ q.text = m.text + (IF e.block = "text" THEN x ELSE 0)
        /\ q.thoughts = m.thoughts + (IF e.block = "thinking" THEN y ELSE 0)
    BY DEF MessageRead
  <2>2. q.leaked <=>
           \/ m.leaked
           \/ e.block = "text" /\ ~(ToSet(e.tokens) \subseteq Fit("content"))
           \/ e.block = "thinking" /\ ~(ToSet(e.tokens) \subseteq Fit("reasoning"))
    <3> DEFINE s == ToSet(e.tokens)
    <3> HIDE DEF s
    <3>1. q.leaked = (\/ m.leaked
                      \/ e.block = "text" /\ ~(s \subseteq {"text", "open1"})
                      \/ e.block = "thinking" /\ ~(s \subseteq {"thought", "close1"}))
      BY DEF MessageRead, s
    <3>2. Fit("content") = {"text", "open1"} /\ Fit("reasoning") = {"thought", "close1"}
      BY DEF Fit
    <3> HIDE DEF q
    <3>3. QED
      BY <3>1, <3>2 DEF s
  <2> HIDE DEF q, x, y
  <2>3. QED
    BY <1>1, <2>1, <2>2 DEF q
<1>3. m.text \in Nat /\ m.thoughts \in Nat
  BY ClientNumbers
<1>4. e.tokens = <<>> => x = 0 /\ y = 0 /\ ToSet(e.tokens) = {}
  BY CountEmpty DEF ToSet
<1> HIDE DEF x, y, b
<1>5. b.skipThinking = a.skipThinking
  BY <1>1 DEF SameBut
<1>6. m.text + 0 = m.text /\ m.thoughts + 0 = m.thoughts
  BY <1>3
<1>7. e.tokens = <<>> => Silent(a, b)
  <2> SUFFICES ASSUME e.tokens = <<>> PROVE Silent(a, b)
    OBVIOUS
  <2>1. b.client.text = m.text /\ b.client.thoughts = m.thoughts
    BY <1>2, <1>4, <1>6
  <2>2. b.client.leaked <=> m.leaked
    BY <1>2, <1>4
  <2>3. QED
    BY <1>5, <2>1, <2>2 DEF Silent
<1>8. ASSUME e.block = "text"
      PROVE  /\ b.client.text = m.text + x /\ b.client.thoughts = m.thoughts
             /\ b.client.leaked <=> m.leaked \/ ~(ToSet(e.tokens) \subseteq Fit("content"))
  BY <1>2, <1>6, <1>8
<1>9. ASSUME e.block = "thinking"
      PROVE  /\ b.client.text = m.text /\ b.client.thoughts = m.thoughts + y
             /\ b.client.leaked <=> m.leaked \/ ~(ToSet(e.tokens) \subseteq Fit("reasoning"))
  BY <1>2, <1>6, <1>9
<1>10. QED
  BY <1>5, <1>7, <1>8, <1>9 DEF b, x, y

LEMMA SilentSteps ==
  ASSUME NEW a \in Translators
  PROVE  /\ \A t \in {"message_start", "message_delta", "message_stop"} : Silent(a, Signal(a, t))
         /\ \A block \in Blocks : Silent(a, OpenBlock(a, block))
         /\ \A block \in Blocks : Silent(a, Delta(a, block, <<>>))
         /\ Silent(a, CloseBlock(a)) /\ Silent(a, ClosedIfOpen(a))
         /\ \A v \in BOOLEAN : Silent(a, [a EXCEPT !.inThinking = v])
<1>1. a.blockIndex \in Nat
  BY DEF Translators
<1>2. ASSUME NEW t \in {"message_start", "message_delta", "message_stop"}
      PROVE  Silent(a, Signal(a, t))
  <2> DEFINE e == Event(t, 0, "", <<>>)
  <2>1. e \in MessageEvents /\ e.tokens = <<>>
    BY DEF Event, MessageEvents
  <2>2. Signal(a, t) = Emitted(a, e)
    BY DEF Signal
  <2> HIDE DEF e
  <2>3. QED
    BY <2>1, <2>2, EmittedTells
<1>3. ASSUME NEW block \in Blocks PROVE Silent(a, OpenBlock(a, block))
  <2> DEFINE none == <<>>
             e == Event("block_start", a.blockIndex, block, none)
             o == Emitted(a, e)
             b == [o EXCEPT !.blockOpen = TRUE]
  <2>0. none \in Seq(Tokens)
    OBVIOUS
  <2> HIDE DEF none
  <2>1. e \in MessageEvents /\ e.tokens = <<>>
    BY <1>1, <2>0 DEF Event, MessageEvents, Blocks, none
  <2>2. OpenBlock(a, block) = b
    BY DEF OpenBlock, none
  <2> HIDE DEF e
  <2>3. Silent(a, o) /\ o \in Translators
    BY <2>1, EmittedTells, EmittedIs
  <2> HIDE DEF o, MessageReaders
  <2>4. b.client = o.client /\ b.skipThinking = o.skipThinking
    BY <2>3 DEF Translators
  <2>5. QED
    BY <2>2, <2>3, <2>4 DEF Silent
<1>4. ASSUME NEW block \in Blocks PROVE Silent(a, Delta(a, block, <<>>))
  <2> DEFINE none == <<>>
             e == Event("block_delta", a.blockIndex, block, none)
  <2>0. none \in Seq(Tokens)
    OBVIOUS
  <2> HIDE DEF none
  <2>1. e \in MessageEvents /\ e.tokens = <<>>
    BY <1>1, <2>0 DEF Event, MessageEvents, Blocks, none
  <2>2. Delta(a, block, <<>>) = Emitted(a, e)
    BY DEF Delta, none
  <2> HIDE DEF e
  <2>3. QED
    BY <2>1, <2>2, EmittedTells
<1>5. Silent(a, CloseBlock(a))
  <2> DEFINE e == Event("block_stop", a.blockIndex, "", <<>>)
             o == Emitted(a, e)
             i == o.blockIndex + 1
             b == [o EXCEPT !.blockIndex = i, !.blockOpen = FALSE]
  <2>1. e \in MessageEvents /\ e.tokens = <<>>
    BY <1>1 DEF Event, MessageEvents
  <2>2. CloseBlock(a) = b
    BY DEF CloseBlock
  <2> HIDE DEF e
  <2>3. Silent(a, o) /\ o \in Translators
    BY <2>1, EmittedTells, EmittedIs
  <2> HIDE DEF o, i, MessageReaders
  <2>4. b.client = o.client /\ b.skipThinking = o.skipThinking
    BY <2>3 DEF Translators
  <2>5. QED
    BY <2>2, <2>3, <2>4 DEF Silent
<1>6. Silent(a, ClosedIfOpen(a))
  <2>1. ClosedIfOpen(a) = IF a.blockOpen THEN CloseBlock(a) ELSE a
    BY DEF ClosedIfOpen
  <2>2. Silent(a, a)
    BY DEF Silent
  <2>3. QED
    BY <1>5, <2>1, <2>2
<1>7. ASSUME NEW v \in BOOLEAN PROVE Silent(a, [a EXCEPT !.inThinking = v])
  <2>1. LET b == [a EXCEPT !.inThinking = v]
        IN SameEnds(a, b) /\ b.client = a.client
    BY ThinkingSet
  <2>2. QED
    BY <2>1 DEF SameEnds, Silent
<1>8. QED
  BY <1>2, <1>3, <1>4, <1>5, <1>6, <1>7

LEMMA DeltaTells ==
  ASSUME NEW a \in Translators, NEW tokens \in Seq(Tokens)
  PROVE  /\ LET b == Delta(a, "text", tokens)
            IN /\ b.skipThinking = a.skipThinking
               /\ b.client.text = a.client.text + CountOf("text", tokens)
               /\ b.client.thoughts = a.client.thoughts
               /\ b.client.leaked <=> a.client.leaked \/ ~(ToSet(tokens) \subseteq Fit("content"))
         /\ LET b == Delta(a, "thinking", tokens)
            IN /\ b.skipThinking = a.skipThinking
               /\ b.client.text = a.client.text
               /\ b.client.thoughts = a.client.thoughts + CountOf("thought", tokens)
               /\ b.client.leaked <=> a.client.leaked \/ ~(ToSet(tokens) \subseteq Fit("reasoning"))
<1>1. a.blockIndex \in Nat
  BY DEF Translators
<1> DEFINE e == Event("block_delta", a.blockIndex, "text", tokens)
           f == Event("block_delta", a.blockIndex, "thinking", tokens)
<1>2. /\ e \in MessageEvents /\ e.block = "text" /\ e.tokens = tokens
      /\ f \in MessageEvents /\ f.block = "thinking" /\ f.tokens = tokens
  BY <1>1 DEF Event, MessageEvents
<1>3. Delta(a, "text", tokens) = Emitted(a, e) /\ Delta(a, "thinking", tokens) = Emitted(a, f)
  BY DEF Delta
<1> HIDE DEF e, f
<1>4. LET b == Emitted(a, e)
      IN /\ b.skipThinking = a.skipThinking
         /\ b.client.text = a.client.text + CountOf("text", e.tokens)
         /\ b.client.thoughts = a.client.thoughts
         /\ b.client.leaked <=> a.client.leaked \/ ~(ToSet(e.tokens) \subseteq Fit("content"))
  BY <1>2, EmittedTells
<1>5. LET b == Emitted(a, f)
      IN /\ b.skipThinking = a.skipThinking
         /\ b.client.text = a.client.text
         /\ b.client.thoughts = a.client.thoughts + CountOf("thought", f.tokens)
         /\ b.client.leaked <=> a.client.leaked \/ ~(ToSet(f.tokens) \subseteq Fit("reasoning"))
  BY <1>2, EmittedTells
<1>6. QED
  BY <1>2, <1>3, <1>4, <1>5

LEMMA ContentTells ==
  ASSUME NEW a \in Translators, NEW tokens \in Seq(Tokens)
  PROVE  SaysMore(a, Content(a, tokens), CountOf("text", tokens), 0,
                  ToSet(tokens) \subseteq Fit("content"))
<1> DEFINE closed == ClosedIfOpen(a)
           ready == IF a.inThinking THEN [closed EXCEPT !.inThinking = FALSE] ELSE a
           opened == OpenBlock(ready, "text")
           open == IF ready.blockOpen THEN ready ELSE opened
           b == Delta(open, "text", tokens)
<1>1. closed \in Translators /\ Silent(a, closed) /\ Silent(a, a)
  BY ClosedIfOpenIs, SilentSteps DEF Silent
<1>2. b = Content(a, tokens)
  BY DEF Content
<1> HIDE DEF closed
<1>3. [closed EXCEPT !.inThinking = FALSE] \in Translators
      /\ Silent(closed, [closed EXCEPT !.inThinking = FALSE])
  BY <1>1, ThinkingSet, SilentSteps
<1>4. ready \in Translators /\ Silent(a, ready)
  BY <1>1, <1>3 DEF Silent
<1> HIDE DEF ready
<1>5. opened \in Translators /\ Silent(ready, opened)
  BY <1>4, OpenBlockIs, SilentSteps DEF Blocks
<1> HIDE DEF opened
<1>6. open \in Translators /\ Silent(a, open)
  BY <1>4, <1>5 DEF Silent
<1> HIDE DEF open
<1>7. /\ b.skipThinking = open.skipThinking
      /\ b.client.text = open.client.text + CountOf("text", tokens)
      /\ b.client.thoughts = open.client.thoughts
      /\ b.client.leaked <=> open.client.leaked \/ ~(ToSet(tokens) \subseteq Fit("content"))
  BY <1>6, DeltaTells
<1>8. a.client.thoughts \in Nat
  BY ClientNumbers
<1> HIDE DEF b
<1>9. b.client.thoughts = a.client.thoughts + (IF a.skipThinking THEN 0 ELSE 0)
  BY <1>6, <1>7, <1>8 DEF Silent
<1>10. SaysMore(a, b, CountOf("text", tokens), 0, ToSet(tokens) \subseteq Fit("content"))
  BY <1>6, <1>7, <1>9 DEF Silent, SaysMore
<1>11. QED
  BY <1>2, <1>10

LEMMA ReasoningTells ==
  ASSUME NEW a \in Translators, NEW tokens \in Seq(Tokens)
  PROVE  SaysMore(a, Reasoning(a, tokens), 0, CountOf("thought", tokens),
                  ToSet(tokens) \subseteq Fit("reasoning"))
<1> DEFINE closed == ClosedIfOpen(a)
           opened == OpenBlock(closed, "thinking")
           marked == [opened EXCEPT !.inThinking = TRUE]
           open == IF a.inThinking THEN a ELSE marked
           b == Delta(open, "thinking", tokens)
           fits == ToSet(tokens) \subseteq Fit("reasoning")
           y == CountOf("thought", tokens)
<1>1. closed \in Translators /\ Silent(a, closed) /\ Silent(a, a)
  BY ClosedIfOpenIs, SilentSteps DEF Silent
<1>2. Reasoning(a, tokens) = IF a.skipThinking THEN a ELSE b
  BY DEF Reasoning
<1> HIDE DEF closed
<1>3. opened \in Translators /\ Silent(closed, opened)
  BY <1>1, OpenBlockIs, SilentSteps DEF Blocks
<1> HIDE DEF opened
<1>4. marked \in Translators /\ Silent(opened, marked)
  BY <1>3, ThinkingSet, SilentSteps
<1> HIDE DEF marked
<1>5. open \in Translators /\ Silent(a, open)
  BY <1>1, <1>3, <1>4 DEF Silent
<1> HIDE DEF open
<1>6. /\ b.skipThinking = open.skipThinking
      /\ b.client.text = open.client.text
      /\ b.client.thoughts = open.client.thoughts + y
      /\ b.client.leaked <=> open.client.leaked \/ ~fits
  BY <1>5, DeltaTells
<1> HIDE DEF b, y, fits
<1>7. a.client.text \in Nat /\ a.client.thoughts \in Nat
  BY ClientNumbers
<1>8. CASE a.skipThinking
  <2>1. a.client.text = a.client.text + 0 /\ a.client.thoughts = a.client.thoughts + 0
    BY <1>7
  <2>2. SaysMore(a, a, 0, y, fits)
    BY <1>8, <2>1 DEF SaysMore
  <2>3. QED
    BY <1>2, <1>8, <2>2 DEF y, fits
<1>9. CASE ~a.skipThinking
  <2>1. a.client.text = a.client.text + 0
    BY <1>7
  <2>2. SaysMore(a, b, 0, y, fits)
    BY <1>5, <1>6, <1>9, <2>1 DEF SaysMore, Silent
  <2>3. QED
    BY <1>2, <1>9, <2>2 DEF y, fits
<1>10. QED
  BY <1>8, <1>9

\* A client of the translator that started at a has what the pieces say.
Follow(a, b, heard) ==
  SaysMore(a, b, heard.text, heard.thoughts, ~heard.leaked)

LEMMA PieceTells ==
  ASSUME NEW a \in Translators, NEW b \in Translators, NEW m \in PlainReaders(NoCalls),
         Follow(a, b, m), NEW p \in NormalizedPieces
  PROVE  Piece(b, p) \in Translators /\ Follow(a, Piece(b, p), PlainRead(m, p))
<1> DEFINE c == Piece(b, p)
           q == PlainRead(m, p)
           content == p.kind = "content"
           x == IF content THEN CountOf("text", p.tokens) ELSE 0
           y == IF content THEN 0 ELSE CountOf("thought", p.tokens)
           fits == ToSet(p.tokens) \subseteq Fit(p.kind)
<1>1. p.tokens \in Seq(Tokens) /\ p.kind \in {"content", "reasoning"}
  BY DEF NormalizedPieces
<1>2. x \in Nat /\ y \in Nat
  BY <1>1, CountIsNumber
<1>3. q.text = m.text + x /\ q.thoughts = m.thoughts + y /\ (q.leaked <=> m.leaked \/ ~fits)
  BY PlainReadIs
<1>4. c \in Translators /\ SaysMore(b, c, x, y, fits)
  <2>1. CASE content
    <3>1. c = Content(b, p.tokens)
      BY <2>1 DEF Piece
    <3>2. SaysMore(b, Content(b, p.tokens), CountOf("text", p.tokens), 0,
                   ToSet(p.tokens) \subseteq Fit("content"))
      BY <1>1, ContentTells
    <3>3. Content(b, p.tokens) \in Translators
      BY <1>1, ContentIs
    <3>4. QED
      BY <2>1, <3>1, <3>2, <3>3
  <2>2. CASE ~content
    <3>1. c = Reasoning(b, p.tokens)
      BY <2>2 DEF Piece
    <3>2. SaysMore(b, Reasoning(b, p.tokens), 0, CountOf("thought", p.tokens),
                   ToSet(p.tokens) \subseteq Fit("reasoning"))
      BY <1>1, ReasoningTells
    <3>3. Reasoning(b, p.tokens) \in Translators
      BY <1>1, ReasoningIs
    <3>4. p.kind = "reasoning"
      BY <1>1, <2>2
    <3>5. QED
      BY <2>2, <3>1, <3>2, <3>3, <3>4
  <2>3. QED
    BY <2>1, <2>2
<1> HIDE DEF c, q, x, y, fits
<1>5. /\ a.client.text \in Nat /\ a.client.thoughts \in Nat /\ m.text \in Nat
      /\ m.thoughts \in Nat
  BY ClientNumbers DEF PlainReaders
<1>6. /\ b.skipThinking = a.skipThinking /\ c.skipThinking = b.skipThinking
      /\ b.client.text = a.client.text + m.text
      /\ c.client.text = b.client.text + x
      /\ b.client.thoughts = a.client.thoughts + (IF a.skipThinking THEN 0 ELSE m.thoughts)
      /\ c.client.thoughts = b.client.thoughts + (IF b.skipThinking THEN 0 ELSE y)
  BY <1>4 DEF Follow, SaysMore
<1>7. c.client.text = a.client.text + (m.text + x)
  BY <1>2, <1>5, <1>6
<1>8. c.client.thoughts
        = a.client.thoughts + (IF a.skipThinking THEN 0 ELSE m.thoughts + y)
  <2>1. CASE a.skipThinking
    BY <1>5, <1>6, <2>1
  <2>2. CASE ~a.skipThinking
    <3>1. c.client.thoughts = (a.client.thoughts + m.thoughts) + y
      BY <1>6, <2>2
    <3>2. (a.client.thoughts + m.thoughts) + y = a.client.thoughts + (m.thoughts + y)
      BY <1>2, <1>5
    <3>3. QED
      BY <2>2, <3>1, <3>2
  <2>3. QED
    BY <2>1, <2>2
<1>9. ~q.leaked /\ ~a.client.leaked => ~c.client.leaked
  BY <1>3, <1>4 DEF Follow, SaysMore
<1>10. Follow(a, c, q)
  BY <1>3, <1>6, <1>7, <1>8, <1>9 DEF Follow, SaysMore
<1>11. QED
  BY <1>4, <1>10 DEF c, q

LEMMA FollowStart ==
  ASSUME NEW a \in Translators
  PROVE  Follow(a, a, NewPlainReader)
<1>1. a.client.text \in Nat /\ a.client.thoughts \in Nat
  BY ClientNumbers
<1>2. a.client.text = a.client.text + 0
      /\ a.client.thoughts = a.client.thoughts + (IF a.skipThinking THEN 0 ELSE 0)
  BY <1>1
<1> DEFINE n == NewPlainReader
<1>3. n.text = 0 /\ n.thoughts = 0 /\ ~n.leaked
  BY HeardNothing
<1> HIDE DEF n
<1>4. SaysMore(a, a, n.text, n.thoughts, ~n.leaked)
  BY <1>2, <1>3 DEF SaysMore
<1>5. QED
  BY <1>4 DEF Follow, n

LEMMA PiecesTell ==
  ASSUME NEW a \in Translators, NEW s \in Seq(NormalizedPieces)
  PROVE  FoldLeft(Piece, a, s) \in Translators /\ Follow(a, FoldLeft(Piece, a, s), Heard(s))
<1> DEFINE S == Translators
           Z == PlainReaders(NoCalls)
           n == NewPlainReader
           k == Len(s)
           E == NormalizedPieces
<1>1. n \in Z
  BY HeardNothing
<1>2. \A x \in S, e \in E : Piece(x, e) \in S
  BY ContentIs, ReasoningIs DEF Piece, NormalizedPieces
<1>3. \A x \in Z, e \in E : PlainRead(x, e) \in Z
  BY PlainReadIs
<1>4. a \in S /\ k \in Nat /\ s \in Seq(E) /\ \A i \in 1 .. k : s[i] \in E
  OBVIOUS
<1>5. Follow(a, a, n)
  BY FollowStart
<1>6. \A b \in S, m \in Z, p \in E : Follow(a, b, m) => Follow(a, Piece(b, p), PlainRead(m, p))
  BY PieceTells
<1> HIDE DEF S, Z, n, E, k
<1>7. PICK h : PieceRuns(S, h, a, s)
  BY <1>2, <1>4, PieceRunsAre
<1>8. PICK z : PlainReadRuns(Z, z, n, s)
  BY <1>1, <1>3, <1>4, PlainReadRunsAre
<1>9. /\ h \in [0 .. k -> S] /\ h[0] = a /\ h[k] = FoldLeft(Piece, a, s)
      /\ \A i \in 1 .. k : h[i] = Piece(h[i - 1], s[i])
  BY <1>7 DEF PieceRuns, k
<1>10. /\ z \in [0 .. k -> Z] /\ z[0] = n /\ z[k] = Heard(s)
       /\ \A i \in 1 .. k : z[i] = PlainRead(z[i - 1], s[i])
  BY <1>8 DEF PlainReadRuns, k, Heard, n
<1> DEFINE U == {i \in Nat : i <= k => Follow(a, h[i], z[i])}
<1>11. 0 \in U
  BY <1>5, <1>9, <1>10
<1>12. ASSUME NEW i \in U PROVE i + 1 \in U
  <2> SUFFICES ASSUME i + 1 <= k PROVE Follow(a, h[i + 1], z[i + 1])
    OBVIOUS
  <2>1. i + 1 \in 1 .. k /\ (i + 1) - 1 = i /\ i <= k /\ i \in 0 .. k
    BY <1>4
  <2>2. h[i + 1] = Piece(h[i], s[i + 1]) /\ z[i + 1] = PlainRead(z[i], s[i + 1])
    BY <1>9, <1>10, <2>1
  <2>3. h[i] \in S /\ z[i] \in Z /\ Follow(a, h[i], z[i]) /\ s[i + 1] \in E
    BY <1>4, <1>9, <1>10, <2>1
  <2>4. QED
    BY <1>6, <2>2, <2>3
<1>13. U = Nat
  <2> HIDE DEF U
  <2>1. U \in SUBSET Nat
    BY DEF U
  <2>2. QED
    BY <1>11, <1>12, <2>1, NumbersByInduction
<1>14. Follow(a, h[k], z[k]) /\ h[k] \in S
  BY <1>4, <1>9, <1>13
<1>15. QED
  BY <1>9, <1>10, <1>14 DEF S

\* Calls and the end say nothing of text or thoughts.
LEMMA ToolDeltasSilent ==
  ASSUME NEW a \in Translators, NEW calls \in Seq(ToolCalls)
  PROVE  LET b == FoldLeft(ToolDelta, a, calls) IN b \in Translators /\ Silent(a, b)
<1> DEFINE S == {x \in Translators : Silent(a, x)}
           E == ToolCalls
<1>1. a \in S /\ calls \in Seq(E)
  BY DEF Silent
<1>2. ASSUME NEW x \in S, NEW tc \in E PROVE ToolDelta(x, tc) \in S
  <2> DEFINE closed == ClosedIfOpen(x)
             opened == OpenBlock(closed, "tool_use")
             open == IF tc.new THEN opened ELSE x
             d == Delta(open, "tool_use", <<>>)
  <2>1. x \in Translators /\ Silent(a, x) /\ Silent(x, x)
    BY DEF Silent
  <2>2. closed \in Translators /\ Silent(x, closed)
    BY <2>1, ClosedIfOpenIs, SilentSteps
  <2>3. ToolDelta(x, tc) = IF tc.piece # <<>> THEN d ELSE open
    BY DEF ToolDelta
  <2> HIDE DEF closed
  <2>4. opened \in Translators /\ Silent(closed, opened)
    BY <2>2, OpenBlockIs, SilentSteps DEF Blocks
  <2> HIDE DEF opened
  <2>5. open \in Translators /\ Silent(x, open)
    BY <2>1, <2>2, <2>4 DEF Silent
  <2> HIDE DEF open
  <2>6. <<>> \in Seq(Tokens)
    OBVIOUS
  <2>7. d \in Translators /\ Silent(open, d)
    BY <2>5, <2>6, DeltaIs, SilentSteps DEF Blocks
  <2> HIDE DEF d
  <2>8. ToolDelta(x, tc) \in Translators /\ Silent(a, ToolDelta(x, tc))
    BY <2>1, <2>3, <2>5, <2>7 DEF Silent
  <2>9. QED
    BY <2>8
<1> HIDE DEF S, E
<1>3. FoldLeft(ToolDelta, a, calls) \in S
  BY <1>1, <1>2, ToolDeltaFold
<1>4. QED
  BY <1>3 DEF S

LEMMA FinishSilent ==
  ASSUME NEW a \in Translators
  PROVE  Silent(a, Finish(a))
<1> DEFINE c == ClosedIfOpen(a)
           d == Signal(c, "message_delta")
           s == Signal(d, "message_stop")
           f == [s EXCEPT !.finished = TRUE]
<1>1. c \in Translators /\ Silent(a, c)
  BY ClosedIfOpenIs, SilentSteps
<1>2. Finish(a) = f
  BY DEF Finish
<1> HIDE DEF c
<1>3. d \in Translators /\ Silent(c, d)
  BY <1>1, SignalIs, SilentSteps
<1> HIDE DEF d
<1>4. s \in Translators /\ Silent(d, s)
  BY <1>3, SignalIs, SilentSteps
<1> HIDE DEF s, MessageReaders
<1>5. f.client = s.client /\ f.skipThinking = s.skipThinking
  BY <1>4 DEF Translators
<1> HIDE DEF f
<1>6. Silent(a, f)
  BY <1>1, <1>3, <1>4, <1>5 DEF Silent
<1>7. QED
  BY <1>2, <1>6

\* What is silent before or after changes nothing of what is said.
LEMMA SilentFollow ==
  ASSUME NEW a, NEW b, NEW c, NEW heard, Follow(a, b, heard)
  PROVE  /\ Silent(b, c) => Follow(a, c, heard)
         /\ Silent(c, a) => Follow(c, b, heard)
<1>1. ASSUME Silent(b, c) PROVE Follow(a, c, heard)
  BY <1>1 DEF Silent, Follow, SaysMore
<1>2. ASSUME Silent(c, a) PROVE Follow(c, b, heard)
  BY <1>2 DEF Silent, Follow, SaysMore
<1>3. QED
  BY <1>1, <1>2

LEMMA AnthropicChunkTells ==
  ASSUME NEW a \in Translators, NEW pieces \in Seq(NormalizedPieces),
         NEW calls \in Seq(ToolCalls), NEW finish \in BOOLEAN
  PROVE  Follow(a, AnthropicChunk(a, pieces, calls, finish), Heard(pieces))
<1> DEFINE lit == [a EXCEPT !.started = TRUE]
           begun == IF a.started THEN a ELSE Signal(lit, "message_start")
           said == FoldLeft(Piece, begun, pieces)
           told == FoldLeft(ToolDelta, said, calls)
           b == AnthropicChunk(a, pieces, calls, finish)
           h == Heard(pieces)
<1>1. lit \in Translators /\ lit.client = a.client /\ lit.skipThinking = a.skipThinking
  <2> HIDE DEF MessageReaders
  <2>1. QED
    BY DEF Translators
<1>2. b = IF finish /\ ~told.finished THEN Finish(told) ELSE told
  BY DEF AnthropicChunk
<1> HIDE DEF lit
<1>3. Silent(a, lit) /\ Silent(a, a)
  BY <1>1 DEF Silent
<1>4. Signal(lit, "message_start") \in Translators /\ Silent(lit, Signal(lit, "message_start"))
  BY <1>1, SignalIs, SilentSteps
<1>5. begun \in Translators /\ Silent(a, begun)
  BY <1>3, <1>4 DEF Silent
<1> HIDE DEF begun
<1>6. said \in Translators /\ Follow(begun, said, h)
  BY <1>5, PiecesTell
<1> HIDE DEF said
<1>7. told \in Translators /\ Silent(said, told)
  BY <1>6, ToolDeltasSilent
<1> HIDE DEF told, h
<1>8. Silent(told, Finish(told)) /\ Silent(told, told)
  BY <1>7, FinishSilent DEF Silent
<1>9. Silent(told, b)
  BY <1>2, <1>8
<1> HIDE DEF b
<1>10. Follow(a, said, h)
  BY <1>5, <1>6, SilentFollow
<1>11. Follow(a, told, h)
  BY <1>7, <1>10, SilentFollow
<1>12. Follow(a, b, h)
  BY <1>9, <1>11, SilentFollow
<1>13. QED
  BY <1>12 DEF b, h

LEMMA AnthropicFlushTells ==
  ASSUME NEW a \in Translators, NEW pieces \in Seq(NormalizedPieces)
  PROVE  Follow(a, AnthropicFlush(a, pieces), Heard(pieces))
<1> DEFINE told == FoldLeft(Piece, a, pieces)
           b == AnthropicFlush(a, pieces)
           h == Heard(pieces)
<1>1. told \in Translators /\ Follow(a, told, h)
  BY PiecesTell
<1>2. b = IF told.finished THEN told ELSE Finish(told)
  BY DEF AnthropicFlush
<1> HIDE DEF told, h
<1>3. Silent(told, Finish(told)) /\ Silent(told, told)
  BY <1>1, FinishSilent DEF Silent
<1>4. Silent(told, b)
  BY <1>2, <1>3
<1> HIDE DEF b
<1>5. Follow(a, b, h)
  BY <1>1, <1>4, SilentFollow
<1>6. QED
  BY <1>5 DEF b, h

-----------------------------------------------------------------------------
(*****************************************************************************)
(* What the Responses client has of a chunk: the text of its pieces.         *)
(*****************************************************************************)

LEMMA RPieceTells ==
  ASSUME NEW r \in ResponsesTranslators, NEW q \in ResponsesTranslators,
         NEW m \in PlainReaders(NoCalls), q.client.text = r.client.text + m.text,
         NEW p \in NormalizedPieces
  PROVE  /\ RPiece(q, p) \in ResponsesTranslators
         /\ RPiece(q, p).client.text = r.client.text + PlainRead(m, p).text
<1> DEFINE c == RPiece(q, p)
           content == p.kind = "content"
           x == CountOf("text", p.tokens)
<1>1. p.tokens \in Seq(Tokens) /\ p.kind \in {"content", "reasoning"} /\ x \in Nat
  BY CountIsNumber DEF NormalizedPieces
<1>2. PlainRead(m, p).text = m.text + (IF content THEN x ELSE 0)
  BY PlainReadIs
<1>3. r.client.text \in Nat /\ m.text \in Nat
  BY DEF ResponsesTranslators, ResponseReaders, PlainReaders
<1>4. c \in ResponsesTranslators /\ c.client.text = q.client.text + (IF content THEN x ELSE 0)
  <2>1. CASE content
    <3>1. c = RContent(q, p.tokens)
      BY <2>1 DEF RPiece
    <3>2. QED
      BY <1>1, <2>1, <3>1, RContentIs
  <2>2. CASE ~content
    <3>1. c = RReasoning(q, p.tokens)
      BY <2>2 DEF RPiece
    <3>2. c \in ResponsesTranslators /\ c.client.text = q.client.text
      BY <1>1, <3>1, RReasoningIs DEF RSame
    <3>3. q.client.text + 0 = q.client.text
      BY <1>3
    <3>4. QED
      BY <2>2, <3>2, <3>3
  <2>3. QED
    BY <2>1, <2>2
<1> DEFINE y == IF content THEN x ELSE 0
<1>5. y \in Nat
  BY <1>1
<1> HIDE DEF c, x, content, y
<1>6. c.client.text = r.client.text + (m.text + y)
  BY <1>3, <1>4, <1>5 DEF y
<1>7. QED
  BY <1>2, <1>4, <1>6 DEF c, y

LEMMA RPiecesTell ==
  ASSUME NEW r \in ResponsesTranslators, NEW s \in Seq(NormalizedPieces)
  PROVE  FoldLeft(RPiece, r, s).client.text = r.client.text + Heard(s).text
<1> DEFINE S == ResponsesTranslators
           Z == PlainReaders(NoCalls)
           n == NewPlainReader
           k == Len(s)
           E == NormalizedPieces
           Says(q, m) == q.client.text = r.client.text + m.text
<1>1. n \in Z
  BY HeardNothing
<1>2. \A x \in S, e \in E : RPiece(x, e) \in S
  BY RContentIs, RReasoningIs DEF RPiece, NormalizedPieces
<1>3. \A x \in Z, e \in E : PlainRead(x, e) \in Z
  BY PlainReadIs
<1>4. r \in S /\ k \in Nat /\ s \in Seq(E) /\ \A i \in 1 .. k : s[i] \in E
  OBVIOUS
<1>5. Says(r, n)
  <2>1. r.client.text \in Nat
    BY DEF ResponsesTranslators, ResponseReaders
  <2>2. n.text = 0
    BY HeardNothing
  <2>3. QED
    BY <2>1, <2>2
<1>6. \A q \in S, m \in Z, p \in E : Says(q, m) => Says(RPiece(q, p), PlainRead(m, p))
  BY RPieceTells
<1> HIDE DEF S, Z, n, E, k, Says
<1>7. PICK h : RPieceRuns(S, h, r, s)
  BY <1>2, <1>4, RPieceRunsAre
<1>8. PICK z : PlainReadRuns(Z, z, n, s)
  BY <1>1, <1>3, <1>4, PlainReadRunsAre
<1>9. /\ h \in [0 .. k -> S] /\ h[0] = r /\ h[k] = FoldLeft(RPiece, r, s)
      /\ \A i \in 1 .. k : h[i] = RPiece(h[i - 1], s[i])
  BY <1>7 DEF RPieceRuns, k
<1>10. /\ z \in [0 .. k -> Z] /\ z[0] = n /\ z[k] = Heard(s)
       /\ \A i \in 1 .. k : z[i] = PlainRead(z[i - 1], s[i])
  BY <1>8 DEF PlainReadRuns, k, Heard, n
<1> DEFINE U == {i \in Nat : i <= k => Says(h[i], z[i])}
<1>11. 0 \in U
  BY <1>5, <1>9, <1>10
<1>12. ASSUME NEW i \in U PROVE i + 1 \in U
  <2> SUFFICES ASSUME i + 1 <= k PROVE Says(h[i + 1], z[i + 1])
    OBVIOUS
  <2>1. i + 1 \in 1 .. k /\ (i + 1) - 1 = i /\ i <= k /\ i \in 0 .. k
    BY <1>4
  <2>2. h[i + 1] = RPiece(h[i], s[i + 1]) /\ z[i + 1] = PlainRead(z[i], s[i + 1])
    BY <1>9, <1>10, <2>1
  <2>3. h[i] \in S /\ z[i] \in Z /\ Says(h[i], z[i]) /\ s[i + 1] \in E
    BY <1>4, <1>9, <1>10, <2>1
  <2>4. QED
    BY <1>6, <2>2, <2>3
<1>13. U = Nat
  <2> HIDE DEF U
  <2>1. U \in SUBSET Nat
    BY DEF U
  <2>2. QED
    BY <1>11, <1>12, <2>1, NumbersByInduction
<1>14. Says(h[k], z[k])
  BY <1>4, <1>13
<1>15. QED
  BY <1>9, <1>10, <1>14 DEF Says

\* The client of the Responses API has the text of the pieces after them.
LEMMA ResponsesChunkTells ==
  ASSUME NEW r \in ResponsesTranslators, ~r.finished => r.outputIndex = 0,
         NEW pieces \in Seq(NormalizedPieces), NEW calls \in Seq(ToolCalls),
         NEW finish \in BOOLEAN
  PROVE  ResponsesChunk(r, pieces, calls, finish).client.text
           = r.client.text + Heard(pieces).text
<1> DEFINE lit == [r EXCEPT !.started = TRUE]
           created == Tell(lit, "created", 0, TheMessage)
           begun == IF r.started THEN r ELSE created
           said == FoldLeft(RPiece, begun, pieces)
           told == RToolDeltas(said, calls)
           q == ResponsesChunk(r, pieces, calls, finish)
<1>1. /\ lit \in ResponsesTranslators /\ lit.client = r.client
      /\ lit.finished = r.finished /\ lit.outputIndex = r.outputIndex
  <2> HIDE DEF CallStates, ResponseReaders
  <2>1. QED
    BY DEF ResponsesTranslators
<1>2. q = IF finish /\ ~told.finished THEN RFinish(told) ELSE told
  BY DEF ResponsesChunk
<1> HIDE DEF lit
<1>3. created \in ResponsesTranslators /\ RSame(lit, created)
  <2>1. "created" \in QuietTypes /\ TheMessage \in Nat /\ 0 \in Nat
    BY DEF QuietTypes, EventTypes, TheMessage
  <2>2. QED
    BY <1>1, <2>1, TellIs
<1> HIDE DEF created
<1>4. /\ begun \in ResponsesTranslators /\ begun.client.text = r.client.text
      /\ begun.finished = r.finished /\ begun.outputIndex = r.outputIndex
  BY <1>1, <1>3 DEF RSame, RAlike
<1> HIDE DEF begun
<1>5. /\ said \in ResponsesTranslators /\ RAlike(begun, said)
      /\ said.client.text = begun.client.text + Heard(pieces).text
  BY <1>4, RPiecesAre, RPiecesTell
<1> HIDE DEF said
<1>6. told \in ResponsesTranslators /\ RSame(said, told)
  BY <1>5, RToolDeltasAre
<1> HIDE DEF told
<1>7. ~told.finished => told.outputIndex = 0
  BY <1>4, <1>5, <1>6 DEF RSame, RAlike
<1>8. q.client.text = told.client.text
  BY <1>2, <1>6, <1>7, RFinishIs
<1> HIDE DEF q
<1>9. QED
  BY <1>4, <1>5, <1>6, <1>8 DEF RSame, q

LEMMA ResponsesFlushTells ==
  ASSUME NEW r \in ResponsesTranslators, ~r.finished => r.outputIndex = 0,
         NEW pieces \in Seq(NormalizedPieces)
  PROVE  ResponsesFlush(r, pieces).client.text = r.client.text + Heard(pieces).text
<1> DEFINE told == FoldLeft(RPiece, r, pieces)
<1>1. /\ told \in ResponsesTranslators /\ RAlike(r, told)
      /\ told.client.text = r.client.text + Heard(pieces).text
  BY RPiecesAre, RPiecesTell
<1>2. ResponsesFlush(r, pieces) = IF told.finished THEN told ELSE RFinish(told)
  BY DEF ResponsesFlush
<1> HIDE DEF told
<1>3. ~told.finished => told.outputIndex = 0
  BY <1>1 DEF RAlike
<1>4. ResponsesFlush(r, pieces).client.text = told.client.text
  BY <1>1, <1>2, <1>3, RFinishIs
<1>5. QED
  BY <1>1, <1>4

-----------------------------------------------------------------------------
(*****************************************************************************)
(* What the clients of the two streams without structure have of a chunk:    *)
(* that of the Gemini format and that of the pass-through.  Each has a       *)
(* normalizer of its own.                                                    *)
(*****************************************************************************)

LEMMA NoteCallOnce ==
  ASSUME NEW b, NEW s \in Seq(ToolCalls), Len(s) <= 1
  PROVE  FoldLeft(NoteCall, b, s) = IF s = <<>> THEN b ELSE NoteCall(b, s[1])
<1> DEFINE n == Len(s)
           G(it) == it = [T \in SUBSET (1 .. n) |->
                            IF T = {} THEN b ELSE NoteCall(it[T \ {Max(T)}], s[Max(T)])]
           h == [T \in SUBSET (1 .. n) |-> IF T = {} THEN b ELSE NoteCall(b, s[1])]
           c == CHOOSE it : G(it)
<1>1. n \in Nat /\ DOMAIN s = 1 .. n /\ (n = 0 <=> s = <<>>) /\ n <= 1
  BY EmptySeq
<1>2. FoldLeft(NoteCall, b, s) = c[1 .. n]
  BY <1>1 DEF FoldLeft, MapThenFoldSet
<1>3. \A T \in SUBSET (1 .. n) : T # {} => Max(T) = 1 /\ T \ {Max(T)} = {}
  <2> SUFFICES ASSUME NEW T \in SUBSET (1 .. n), T # {} PROVE Max(T) = 1 /\ T \ {Max(T)} = {}
    OBVIOUS
  <2>1. \A t \in T : t = 1
    BY <1>1
  <2>2. Max(T) \in T
    BY <1>1, LastOf
  <2>3. QED
    BY <2>1, <2>2
<1> HIDE DEF n
<1>4. \A T \in SUBSET (1 .. n) :
        h[T] = IF T = {} THEN b ELSE NoteCall(h[T \ {Max(T)}], s[Max(T)])
  <2>1. {} \in SUBSET (1 .. n) /\ h[{}] = b
    OBVIOUS
  <2>2. QED
    BY <1>3, <2>1
<1>5. G(h)
  BY <1>4
<1>6. G(c)
  <2> HIDE DEF h, G
  <2>1. QED
    BY <1>5
<1> HIDE DEF c, h
<1>7. c[{}] = b
  <2>1. {} \in SUBSET (1 .. n)
    OBVIOUS
  <2>2. QED
    BY <1>6, <2>1
<1>8. CASE n = 0
  <2>1. 1 .. n = {}
    BY <1>8
  <2>2. QED
    BY <1>1, <1>2, <1>7, <1>8, <2>1
<1>9. CASE n # 0
  <2>1. 1 .. n \in SUBSET (1 .. n) /\ 1 .. n # {}
    BY <1>1, <1>9
  <2>2. Max(1 .. n) = 1 /\ (1 .. n) \ {Max(1 .. n)} = {}
    BY <1>3, <2>1
  <2>3. c[1 .. n] = NoteCall(c[(1 .. n) \ {Max(1 .. n)}], s[Max(1 .. n)])
    BY <1>6, <2>1
  <2>4. c[1 .. n] = NoteCall(b, s[1])
    BY <1>7, <2>2, <2>3
  <2>5. QED
    BY <1>1, <1>2, <1>9, <2>4
<1>10. QED
  BY <1>8, <1>9

LEMMA CallReadOnce ==
  ASSUME NEW b, NEW s \in Seq(ToolCalls), Len(s) <= 1
  PROVE  FoldLeft(CallRead, b, s) = IF s = <<>> THEN b ELSE CallRead(b, s[1])
<1> DEFINE n == Len(s)
           G(it) == it = [T \in SUBSET (1 .. n) |->
                            IF T = {} THEN b ELSE CallRead(it[T \ {Max(T)}], s[Max(T)])]
           h == [T \in SUBSET (1 .. n) |-> IF T = {} THEN b ELSE CallRead(b, s[1])]
           c == CHOOSE it : G(it)
<1>1. n \in Nat /\ DOMAIN s = 1 .. n /\ (n = 0 <=> s = <<>>) /\ n <= 1
  BY EmptySeq
<1>2. FoldLeft(CallRead, b, s) = c[1 .. n]
  BY <1>1 DEF FoldLeft, MapThenFoldSet
<1>3. \A T \in SUBSET (1 .. n) : T # {} => Max(T) = 1 /\ T \ {Max(T)} = {}
  <2> SUFFICES ASSUME NEW T \in SUBSET (1 .. n), T # {} PROVE Max(T) = 1 /\ T \ {Max(T)} = {}
    OBVIOUS
  <2>1. \A t \in T : t = 1
    BY <1>1
  <2>2. Max(T) \in T
    BY <1>1, LastOf
  <2>3. QED
    BY <2>1, <2>2
<1> HIDE DEF n
<1>4. \A T \in SUBSET (1 .. n) :
        h[T] = IF T = {} THEN b ELSE CallRead(h[T \ {Max(T)}], s[Max(T)])
  <2>1. {} \in SUBSET (1 .. n) /\ h[{}] = b
    OBVIOUS
  <2>2. QED
    BY <1>3, <2>1
<1>5. G(h)
  BY <1>4
<1>6. G(c)
  <2> HIDE DEF h, G
  <2>1. QED
    BY <1>5
<1> HIDE DEF c, h
<1>7. c[{}] = b
  <2>1. {} \in SUBSET (1 .. n)
    OBVIOUS
  <2>2. QED
    BY <1>6, <2>1
<1>8. CASE n = 0
  <2>1. 1 .. n = {}
    BY <1>8
  <2>2. QED
    BY <1>1, <1>2, <1>7, <1>8, <2>1
<1>9. CASE n # 0
  <2>1. 1 .. n \in SUBSET (1 .. n) /\ 1 .. n # {}
    BY <1>1, <1>9
  <2>2. Max(1 .. n) = 1 /\ (1 .. n) \ {Max(1 .. n)} = {}
    BY <1>3, <2>1
  <2>3. c[1 .. n] = CallRead(c[(1 .. n) \ {Max(1 .. n)}], s[Max(1 .. n)])
    BY <1>6, <2>1
  <2>4. c[1 .. n] = CallRead(b, s[1])
    BY <1>7, <2>2, <2>3
  <2>5. QED
    BY <1>1, <1>2, <1>9, <2>4
<1>10. QED
  BY <1>8, <1>9

(*****************************************************************************)
(* The clients of the streams without structure: they have what the          *)
(* normalizer says, whatever becomes of calls and of the finish.             *)
(*****************************************************************************)

IsReader(m) == m \in PlainReaders(m.calls)

IsGemini(g) ==
  /\ IsReader(g.client)
  /\ g \in [normalizer : Normalizers, names : {g.names}, args : {g.args}, client : {g.client}]

IsChat(c) ==
  IsReader(c.client) /\ c \in [normalizer : Normalizers, client : {c.client}]

\* A client that was told m has been told what is heard as well.
Gets(m, q, heard) ==
  /\ q.text = m.text + heard.text
  /\ q.thoughts = m.thoughts + heard.thoughts
  /\ q.leaked <=> m.leaked \/ heard.leaked

\* Nothing is said, but calls may be passed on.
SaysNothing(m, q) == q.text = m.text /\ q.thoughts = m.thoughts /\ q.leaked = m.leaked

LEMMA ReaderTold ==
  ASSUME NEW m, IsReader(m), NEW s \in Seq(NormalizedPieces)
  PROVE  LET q == FoldLeft(PlainRead, m, s) IN IsReader(q) /\ Gets(m, q, Heard(s))
<1> DEFINE calls == m.calls
           q == FoldLeft(PlainRead, m, s)
<1>1. m \in PlainReaders(calls)
  BY DEF IsReader
<1> HIDE DEF calls
<1>2. q \in PlainReaders(calls) /\ Gets(m, q, Heard(s))
  BY <1>1, HeardIs DEF Gets
<1> HIDE DEF q
<1>3. q.calls = calls
  BY <1>2 DEF PlainReaders
<1>4. QED
  BY <1>2, <1>3 DEF IsReader, q

\* The same with other calls.
LEMMA ReaderCalls ==
  ASSUME NEW m, IsReader(m), NEW calls
  PROVE  LET q == [m EXCEPT !.calls = calls] IN IsReader(q) /\ SaysNothing(m, q)
<1> DEFINE old == m.calls
           q == [m EXCEPT !.calls = calls]
<1>1. m \in PlainReaders(old)
  BY DEF IsReader
<1> HIDE DEF old
<1>2. q \in PlainReaders(calls) /\ SaysNothing(m, q) /\ q.calls = calls
  BY <1>1 DEF PlainReaders, SaysNothing
<1> HIDE DEF q
<1>3. QED
  BY <1>2 DEF IsReader, q

\* What the normalizer has when it is out of its call.
LEMMA NormalizerOut ==
  ASSUME NEW n \in Normalizers
  PROVE  LET q == [n EXCEPT !.out = <<>>]
         IN /\ q \in Normalizers /\ q.out = <<>>
            /\ q.inThinkTag = n.inThinkTag /\ q.hasReasoning = n.hasReasoning
            /\ q.tagBuffer = n.tagBuffer /\ q.openTagBuffer = n.openTagBuffer
            /\ q.remaining = n.remaining
            /\ [q EXCEPT !.out = <<>>] = q
            /\ ~q.inThinkTag => NormalizerFlushed(q) = q
<1> DEFINE none == <<>>
           q == [n EXCEPT !.out = none]
<1>1. none \in Seq(NormalizedPieces)
  OBVIOUS
<1> HIDE DEF none, NormalizedPieces
<1>2. /\ q \in Normalizers /\ q.out = none
      /\ q.inThinkTag = n.inThinkTag /\ q.hasReasoning = n.hasReasoning
      /\ q.tagBuffer = n.tagBuffer /\ q.openTagBuffer = n.openTagBuffer
      /\ q.remaining = n.remaining
  BY <1>1 DEF Normalizers
<1>3. [q EXCEPT !.out = none] = q
  BY DEF Normalizers
<1>4. NormalizerFlushed(q) = IF q.inThinkTag /\ q.tagBuffer # <<>>
                             THEN LeaveTag([q EXCEPT !.out = none], <<>>)
                             ELSE [q EXCEPT !.out = none]
  BY DEF NormalizerFlushed, none
<1> HIDE DEF q
<1>5. ~q.inThinkTag => NormalizerFlushed(q) = q
  BY <1>3, <1>4
<1>6. QED
  BY <1>2, <1>3, <1>5 DEF q, none

\* The Gemini client.
LEMMA GeminiToldIs ==
  ASSUME NEW g, IsGemini(g), NEW n \in Normalizers
  PROVE  LET q == GeminiTold(g, n)
         IN /\ IsGemini(q) /\ q.normalizer = [n EXCEPT !.out = <<>>]
            /\ Gets(g.client, q.client, Heard(n.out))
<1> DEFINE m == FoldLeft(PlainRead, g.client, n.out)
           kept == [n EXCEPT !.out = <<>>]
           q == GeminiTold(g, n)
<1>1. n.out \in Seq(NormalizedPieces)
  BY DEF Normalizers
<1>2. IsReader(m) /\ Gets(g.client, m, Heard(n.out))
  BY <1>1, ReaderTold DEF IsGemini
<1>3. kept \in Normalizers
  BY NormalizerOut
<1>4. q = [g EXCEPT !.normalizer = kept, !.client = m]
  BY DEF GeminiTold
<1> HIDE DEF m, kept, Normalizers
<1>5. /\ q \in [normalizer : Normalizers, names : {g.names}, args : {g.args}, client : {m}]
      /\ q.normalizer = kept /\ q.client = m /\ q.names = g.names /\ q.args = g.args
  BY <1>3, <1>4 DEF IsGemini
<1> HIDE DEF q
<1>6. IsGemini(q)
  BY <1>2, <1>5 DEF IsGemini
<1>7. QED
  BY <1>2, <1>5, <1>6 DEF q, kept

LEMMA GeminiFieldsSet ==
  ASSUME NEW g, IsGemini(g), NEW names, NEW args
  PROVE  LET q == [g EXCEPT !.names = names, !.args = args]
         IN IsGemini(q) /\ q.normalizer = g.normalizer /\ q.client = g.client
<1> DEFINE q == [g EXCEPT !.names = names, !.args = args]
           m == g.client
<1> HIDE DEF Normalizers, m
<1>1. /\ q \in [normalizer : Normalizers, names : {names}, args : {args}, client : {m}]
      /\ q.normalizer = g.normalizer /\ q.client = m /\ q.names = names /\ q.args = args
  BY DEF IsGemini, m
<1>2. IsReader(m)
  BY DEF IsGemini, m
<1> HIDE DEF q
<1>3. QED
  BY <1>1, <1>2 DEF IsGemini, q, m

LEMMA GeminiChunkTells ==
  ASSUME NEW g, IsGemini(g), NEW chunk, NEW n \in Normalizers,
         n = Normalized(g.normalizer, chunk.content, chunk.reasoning),
         chunk.toolCalls \in Seq(ToolCalls), Len(chunk.toolCalls) <= 1,
         chunk.finish \in BOOLEAN, chunk.finish => ~n.inThinkTag
  PROVE  LET q == GeminiChunk(g, chunk)
         IN /\ IsGemini(q) /\ q.normalizer = [n EXCEPT !.out = <<>>]
            /\ Gets(g.client, q.client, Heard(n.out))
<1> DEFINE told == GeminiTold(g, n)
           called == FoldLeft(NoteCall, told, chunk.toolCalls)
           q == GeminiChunk(g, chunk)
           kept == [n EXCEPT !.out = <<>>]
<1>1. q = IF chunk.finish THEN GeminiFinish(called) ELSE called
  BY DEF GeminiChunk
<1>2. IsGemini(told) /\ told.normalizer = kept /\ Gets(g.client, told.client, Heard(n.out))
  BY GeminiToldIs
<1> HIDE DEF told
<1>3. called = told \/ called = NoteCall(told, chunk.toolCalls[1])
  BY NoteCallOnce
<1>4. IsGemini(called) /\ called.normalizer = kept /\ called.client = told.client
  <2> DEFINE tc == chunk.toolCalls[1]
             names == IF tc.new THEN told.names \cup {tc.index} ELSE told.names
             args == IF tc.piece # <<>> THEN Extended(told.args, tc) ELSE told.args
             noted == [told EXCEPT !.names = names, !.args = args]
  <2>1. NoteCall(told, tc) = noted
    BY DEF NoteCall
  <2> HIDE DEF tc, names, args
  <2>2. IsGemini(noted) /\ noted.normalizer = told.normalizer /\ noted.client = told.client
    <3>1. IsGemini(told)
      BY <1>2
    <3>2. \A x, y : LET z == [told EXCEPT !.names = x, !.args = y]
                   IN IsGemini(z) /\ z.normalizer = told.normalizer /\ z.client = told.client
      BY <3>1, GeminiFieldsSet
    <3>3. QED
      BY <3>2
  <2> HIDE DEF noted
  <2>3. QED
    BY <1>2, <1>3, <2>1, <2>2 DEF tc
<1> HIDE DEF called
<1>5. ASSUME chunk.finish
      PROVE  LET f == GeminiFinish(called)
             IN IsGemini(f) /\ f.normalizer = kept /\ SaysNothing(told.client, f.client)
  <2> DEFINE flushed == GeminiTold(called, kept)
             before == flushed.client.calls
             given == Understood([i \in called.names |->
                                    IF i \in DOMAIN called.args THEN called.args[i] ELSE 0])
             all == [i \in called.names \cup DOMAIN before |->
                       IF i \in called.names THEN given[i] ELSE before[i]]
             m == [flushed.client EXCEPT !.calls = all]
             cleared == [flushed EXCEPT !.names = {}, !.args = NoCalls]
             f == [cleared EXCEPT !.client = m]
  <2>1. kept \in Normalizers /\ NormalizerFlushed(kept) = kept /\ kept.out = <<>>
        /\ [kept EXCEPT !.out = <<>>] = kept
    BY <1>5, NormalizerOut
  <2>2. GeminiFinish(called) = [flushed EXCEPT !.names = {}, !.args = NoCalls,
                                               !.client.calls = all]
    BY <1>4, <2>1 DEF GeminiFinish
  <2> HIDE DEF kept
  <2>3. IsGemini(flushed) /\ flushed.normalizer = kept
        /\ Gets(called.client, flushed.client, Heard(kept.out))
    BY <1>4, <2>1, GeminiToldIs
  <2> HIDE DEF flushed, all, before, given
  <2>4. SaysNothing(called.client, flushed.client)
    <3> DEFINE x == called.client
    <3>1. x \in PlainReaders(x.calls)
      BY <1>4 DEF IsGemini, IsReader
    <3>2. Heard(kept.out) = NewPlainReader
      BY <2>1, HeardNothing
    <3>3. x.text \in Nat /\ x.thoughts \in Nat /\ x.leaked \in BOOLEAN
      BY <3>1 DEF PlainReaders
    <3>4. flushed.client.leaked \in BOOLEAN
      BY <2>3 DEF IsGemini, IsReader, PlainReaders
    <3> HIDE DEF x
    <3>5. /\ flushed.client.text = x.text + 0 /\ flushed.client.thoughts = x.thoughts + 0
          /\ flushed.client.leaked <=> x.leaked
      BY <2>3, <3>2, HeardNothing DEF Gets, x
    <3>6. QED
      BY <3>3, <3>4, <3>5 DEF SaysNothing, x
  <2>5. IsReader(m) /\ SaysNothing(flushed.client, m)
    BY <2>3, ReaderCalls DEF IsGemini
  <2>6. IsGemini(cleared) /\ cleared.normalizer = kept /\ cleared.client = flushed.client
    BY <2>3, GeminiFieldsSet
  <2>7. GeminiFinish(called) = f
    <3> HIDE DEF Normalizers
    <3>1. flushed \in [normalizer : Normalizers, names : {flushed.names},
                       args : {flushed.args}, client : {flushed.client}]
      BY <2>3 DEF IsGemini
    <3>2. QED
      BY <2>2, <3>1
  <2> HIDE DEF cleared, m
  <2>8. IsGemini(f) /\ f.normalizer = kept /\ f.client = m
    <3> HIDE DEF Normalizers
    <3>1. /\ f \in [normalizer : Normalizers, names : {cleared.names},
                    args : {cleared.args}, client : {m}]
          /\ f.normalizer = kept /\ f.client = m /\ f.names = cleared.names
          /\ f.args = cleared.args
      BY <2>6 DEF IsGemini
    <3> HIDE DEF f
    <3>2. QED
      BY <2>5, <3>1 DEF IsGemini
  <2> HIDE DEF f
  <2>9. QED
    BY <1>4, <2>4, <2>5, <2>7, <2>8 DEF SaysNothing, kept
<1> HIDE DEF kept
<1>6. IsGemini(q) /\ q.normalizer = kept /\ SaysNothing(told.client, q.client)
  BY <1>1, <1>4, <1>5 DEF SaysNothing
<1> HIDE DEF q
<1>7. QED
  BY <1>2, <1>6 DEF q, kept, Gets, SaysNothing

LEMMA GeminiFlushTells ==
  ASSUME NEW g, IsGemini(g), NEW n \in Normalizers, n = NormalizerFlushed(g.normalizer)
  PROVE  LET q == GeminiFlush(g)
         IN /\ IsGemini(q) /\ q.normalizer = [n EXCEPT !.out = <<>>]
            /\ Gets(g.client, q.client, Heard(n.out))
  BY GeminiToldIs DEF GeminiFlush

\* The client of the pass-through.
LEMMA ChatToldIs ==
  ASSUME NEW c, IsChat(c), NEW n \in Normalizers
  PROVE  LET q == ChatTold(c, n)
         IN /\ IsChat(q) /\ q.normalizer = [n EXCEPT !.out = <<>>]
            /\ Gets(c.client, q.client, Heard(n.out))
<1> DEFINE m == FoldLeft(PlainRead, c.client, n.out)
           kept == [n EXCEPT !.out = <<>>]
           q == ChatTold(c, n)
<1>1. n.out \in Seq(NormalizedPieces)
  BY DEF Normalizers
<1>2. IsReader(m) /\ Gets(c.client, m, Heard(n.out))
  BY <1>1, ReaderTold DEF IsChat
<1>3. kept \in Normalizers
  BY NormalizerOut
<1>4. q = [normalizer |-> kept, client |-> m]
  BY DEF ChatTold
<1> HIDE DEF m, kept, Normalizers
<1>5. /\ q \in [normalizer : Normalizers, client : {m}]
      /\ q.normalizer = kept /\ q.client = m
  BY <1>3, <1>4
<1> HIDE DEF q
<1>6. IsChat(q)
  BY <1>2, <1>5 DEF IsChat
<1>7. QED
  BY <1>2, <1>5, <1>6 DEF q, kept

LEMMA ChatChunkTells ==
  ASSUME NEW c, IsChat(c), NEW chunk, NEW n \in Normalizers,
         n = Normalized(c.normalizer, chunk.content, chunk.reasoning),
         chunk.toolCalls \in Seq(ToolCalls), Len(chunk.toolCalls) <= 1,
         chunk.toolCalls # <<>> => ~n.inThinkTag
  PROVE  LET q == ChatChunk(c, chunk)
         IN /\ IsChat(q) /\ q.normalizer = [n EXCEPT !.out = <<>>]
            /\ Gets(c.client, q.client, Heard(n.out))
<1> DEFINE told == ChatTold(c, n)
           kept == [n EXCEPT !.out = <<>>]
           q == ChatChunk(c, chunk)
           calls == chunk.toolCalls
<1>1. q = IF calls = <<>> THEN told
          ELSE [ChatFlush(told) EXCEPT !.client = FoldLeft(CallRead, @, calls)]
  BY DEF ChatChunk
<1>2. IsChat(told) /\ told.normalizer = kept /\ Gets(c.client, told.client, Heard(n.out))
  BY ChatToldIs
<1> HIDE DEF told
<1>3. ASSUME calls # <<>>
      PROVE  IsChat(q) /\ q.normalizer = kept /\ SaysNothing(told.client, q.client)
  <2> DEFINE flushed == ChatTold(told, kept)
             tc == calls[1]
             all == Extended(flushed.client.calls, tc)
             m == [flushed.client EXCEPT !.calls = all]
             f == [flushed EXCEPT !.client = m]
  <2>1. kept \in Normalizers /\ NormalizerFlushed(kept) = kept /\ kept.out = <<>>
        /\ [kept EXCEPT !.out = <<>>] = kept
    BY <1>3, NormalizerOut
  <2>2. ChatFlush(told) = flushed
    BY <1>2, <2>1 DEF ChatFlush
  <2>3. FoldLeft(CallRead, flushed.client, calls) = m
    <3> HIDE DEF flushed
    <3>1. FoldLeft(CallRead, flushed.client, calls) = CallRead(flushed.client, tc)
      BY <1>3, CallReadOnce
    <3>2. QED
      BY <3>1 DEF CallRead
  <2> HIDE DEF kept
  <2>4. IsChat(flushed) /\ flushed.normalizer = kept
        /\ Gets(told.client, flushed.client, Heard(kept.out))
    BY <1>2, <2>1, ChatToldIs
  <2> HIDE DEF flushed, all
  <2>5. SaysNothing(told.client, flushed.client)
    <3> DEFINE x == told.client
    <3>1. x \in PlainReaders(x.calls)
      BY <1>2 DEF IsChat, IsReader
    <3>2. Heard(kept.out) = NewPlainReader
      BY <2>1, HeardNothing
    <3>3. x.text \in Nat /\ x.thoughts \in Nat /\ x.leaked \in BOOLEAN
      BY <3>1 DEF PlainReaders
    <3>4. flushed.client.leaked \in BOOLEAN
      BY <2>4 DEF IsChat, IsReader, PlainReaders
    <3> HIDE DEF x
    <3>5. /\ flushed.client.text = x.text + 0 /\ flushed.client.thoughts = x.thoughts + 0
          /\ flushed.client.leaked <=> x.leaked
      BY <2>4, <3>2, HeardNothing DEF Gets, x
    <3>6. QED
      BY <3>3, <3>4, <3>5 DEF SaysNothing, x
  <2>6. IsReader(m) /\ SaysNothing(flushed.client, m)
    BY <2>4, ReaderCalls DEF IsChat
  <2>7. q = f
    <3> HIDE DEF m
    <3>1. QED
      BY <1>1, <1>3, <2>2, <2>3
  <2> HIDE DEF m
  <2>8. /\ f \in [normalizer : Normalizers, client : {m}]
        /\ f.normalizer = kept /\ f.client = m
    <3> HIDE DEF Normalizers
    <3>1. QED
      BY <2>4 DEF IsChat
  <2> HIDE DEF f, q
  <2>9. QED
    BY <2>5, <2>6, <2>7, <2>8 DEF IsChat, SaysNothing
<1> HIDE DEF kept
<1>4. IsChat(q) /\ q.normalizer = kept /\ SaysNothing(told.client, q.client)
  BY <1>1, <1>2, <1>3 DEF SaysNothing
<1> HIDE DEF q
<1>5. QED
  BY <1>2, <1>4 DEF q, kept, Gets, SaysNothing

LEMMA ChatFlushTells ==
  ASSUME NEW c, IsChat(c), NEW n \in Normalizers, n = NormalizerFlushed(c.normalizer)
  PROVE  LET q == ChatFlush(c)
         IN /\ IsChat(q) /\ q.normalizer = [n EXCEPT !.out = <<>>]
            /\ Gets(c.client, q.client, Heard(n.out))
  BY ChatToldIs DEF ChatFlush

-----------------------------------------------------------------------------
(*****************************************************************************)
(* What the clients have been told, and what is held back: the inductive     *)
(* invariant of TextIntact and ThoughtsIntact, on top of StreamsInv.         *)
(*****************************************************************************)

\* No closing tag was cut, and none closed nothing.
Clean == odd \cap {"cutClose", "strayClose"} = {}

\* All text was told as text, but for that in front of half a tag.
TextTold ==
  /\ response.text = message.text
  /\ Clean =>
       /\ message.text + CountOf("text", normalizer.openTagBuffer) = sent.text
       /\ ~message.leaked
       /\ ToSet(normalizer.tagBuffer) \subseteq {"thought"}
       /\ ~ended => Settled(CleanSteps, normalizer, place)

\* Thoughts were told or are held, and none twice.
ThoughtsTold ==
  /\ normalizer.hasReasoning => sent.field
  /\ message.thoughts + Held(normalizer) <= sent.thoughts
  /\ anthropic.skipThinking => message.thoughts = 0
  /\ "cutClose" \notin odd =>
       /\ CountOf("thought", normalizer.openTagBuffer) = 0
       /\ ~sent.field /\ ~anthropic.skipThinking =>
            message.thoughts + Held(normalizer) = sent.thoughts

\* The Gemini client and that of the pass-through are told the same.
Together ==
  odd \cap {"cutClose", "unclosed"} = {} =>
    /\ IsGemini(gemini) /\ gemini.normalizer = normalizer
    /\ IsChat(chat) /\ chat.normalizer = normalizer
    /\ \A m \in {gemini.client, chat.client} :
         /\ m.text = message.text
         /\ Clean => ~m.leaked
         /\ ~sent.field => m.thoughts + Held(normalizer) = sent.thoughts

AtEnd ==
  ended =>
    /\ normalizer.tagBuffer = <<>>
    /\ odd \cap {"cutClose", "openAtEnd"} = {} => normalizer.openTagBuffer = <<>>

StreamsTold == TextTold /\ ThoughtsTold /\ Together /\ AtEnd

\* What happens to the client of each protocol, in one step, if n is what the
\* normalizer makes of it.
Tells(n) ==
  /\ n \in Normalizers /\ normalizer' = [n EXCEPT !.out = <<>>]
  /\ anthropic' \in Translators /\ Follow(anthropic, anthropic', Heard(n.out))
  /\ responses'.client.text = responses.client.text + Heard(n.out).text

\* A chunk of the model that takes it through the places g, and what comes of it.
Received(chunk, g) ==
  LET content == chunk.content
      reasoning == chunk.reasoning
      n == Normalized(normalizer, content, reasoning)
      found == Oddities(chunk, Path(place, content))
  IN /\ content \in Seq(Tokens) /\ reasoning \in Seq(Tokens)
     /\ chunk.toolCalls \in Seq(ToolCalls) /\ Len(chunk.toolCalls) <= 1
     /\ chunk.finish \in BOOLEAN /\ ToSet(reasoning) \subseteq {"thought"}
     /\ Tells(n)
     /\ gemini' = GeminiChunk(gemini, chunk) /\ chat' = ChatChunk(chat, chunk)
     /\ OneChunk(content) /\ Passes(g, place, content)
     /\ place' = g[Len(content)] /\ odd' = odd \cup found
     /\ "cutClose" \notin found => place' # "closing"
     /\ "strayClose" \notin found => Keeping(CleanSteps, g, content)
     /\ "unclosed" \notin found /\ (chunk.toolCalls # <<>> \/ chunk.finish)
          => place' = "text"
     /\ sent'.text = sent.text + CountOf("text", content)
     /\ sent'.thoughts
          = sent.thoughts + CountOf("thought", content) + CountOf("thought", reasoning)
     /\ sent'.field <=> sent.field \/ reasoning # <<>>
     /\ ~ended /\ ended' = ended

LEMMA ReceiveIs ==
  ASSUME StreamsInv, Receive
  PROVE  \E chunk, g : Received(chunk, g)
<1>1. PICK chunk \in Chunks(place, sent.inputs) :
        LET path == Path(place, chunk.content)
            n == Normalized(normalizer, chunk.content, chunk.reasoning)
        IN /\ place' = Last(path)
           /\ Written(chunk, path)
           /\ odd' = odd \cup Oddities(chunk, path)
           /\ normalizer' = [n EXCEPT !.out = <<>>]
           /\ anthropic' = AnthropicChunk(anthropic, n.out, chunk.toolCalls, chunk.finish)
           /\ responses' = ResponsesChunk(responses, n.out, chunk.toolCalls, chunk.finish)
           /\ gemini' = GeminiChunk(gemini, chunk)
           /\ chat' = ChatChunk(chat, chunk)
  BY DEF Receive
<1> DEFINE content == chunk.content
           reasoning == chunk.reasoning
           calls == chunk.toolCalls
           finish == chunk.finish
           path == Path(place, content)
           n == Normalized(normalizer, content, reasoning)
           pieces == n.out
           found == Oddities(chunk, path)
<1>2. /\ place' = Last(path) /\ odd' = odd \cup found
      /\ Written(chunk, path)
      /\ normalizer' = [n EXCEPT !.out = <<>>]
      /\ anthropic' = AnthropicChunk(anthropic, pieces, calls, finish)
      /\ responses' = ResponsesChunk(responses, pieces, calls, finish)
      /\ gemini' = GeminiChunk(gemini, chunk) /\ chat' = ChatChunk(chat, chunk)
      /\ ~ended /\ ended' = ended
  BY <1>1 DEF Receive
<1>3. /\ place \in ModelPlaces /\ sent \in Sents
      /\ normalizer \in Normalizers /\ Buffered(normalizer) /\ normalizer.remaining = <<>>
      /\ anthropic \in Translators /\ responses \in ResponsesTranslators
      /\ ~responses.finished => responses.outputIndex = 0
  BY DEF StreamsInv, Typed, Ends
<1>4. sent.inputs \in Seq(CallStates)
  BY <1>3 DEF Sents
<1>5. /\ content \in Seq(Tokens) /\ OneChunk(content) /\ "nowhere" \notin ToSet(path)
      /\ reasoning \in Seq(Tokens) /\ ToSet(reasoning) \subseteq {"thought"}
      /\ calls \in Seq(ToolCalls) /\ Len(calls) <= 1 /\ finish \in BOOLEAN
      /\ calls # <<>> \/ finish => content = <<>> /\ reasoning = <<>>
  BY <1>3, <1>4, ChunkIs
<1>6. PICK g : /\ Passes(g, place, content) /\ Last(path) = g[Len(content)]
               /\ \A i \in 1 .. Len(content) : path[i] = g[i - 1]
  BY <1>3, <1>5, PathIs
<1>7. n \in Normalizers
  BY <1>3, <1>5, NormalizedIs
<1>8. /\ "cutClose" \notin found => Last(path) # "closing"
      /\ "unclosed" \notin found /\ (calls # <<>> \/ finish) => place = "text"
      /\ "strayClose" \notin found
           => \A i \in DOMAIN content : ~(path[i] = "text" /\ content[i] = "close")
  BY <1>5, OdditiesAre
<1>9. "strayClose" \notin found => Keeping(CleanSteps, g, content)
  <2> SUFFICES ASSUME "strayClose" \notin found, NEW i \in 1 .. Len(content),
                      <<g[i - 1], content[i], g[i]>> \in Steps
               PROVE  <<g[i - 1], content[i], g[i]>> \in CleanSteps
    BY DEF Keeping
  <2>1. DOMAIN content = 1 .. Len(content)
    BY <1>5
  <2>2. ~(g[i - 1] = "text" /\ content[i] = "close")
    BY <1>6, <1>8, <2>1
  <2>3. QED
    BY <2>2 DEF CleanSteps
<1>10. "unclosed" \notin found /\ (calls # <<>> \/ finish) => place' = "text"
  <2>1. content = <<>> => g[Len(content)] = place
    BY <1>6 DEF Passes
  <2>2. QED
    BY <1>2, <1>5, <1>6, <1>8, <2>1
<1>11. /\ sent'.text = sent.text + CountOf("text", content)
       /\ sent'.thoughts = sent.thoughts + CountOf("thought", content \o reasoning)
       /\ sent'.field = (sent.field \/ reasoning # <<>>)
  BY <1>2 DEF Written
<1>12. sent'.thoughts
         = sent.thoughts + CountOf("thought", content) + CountOf("thought", reasoning)
  <2> DEFINE x == CountOf("thought", content)
             y == CountOf("thought", reasoning)
  <2>1. CountOf("thought", content \o reasoning) = x + y /\ x \in Nat /\ y \in Nat
    BY <1>5, CountConcat, CountIsNumber
  <2>2. sent.thoughts \in Nat
    BY <1>3 DEF Sents
  <2> HIDE DEF x, y
  <2>3. sent.thoughts + (x + y) = sent.thoughts + x + y
    BY <2>1, <2>2
  <2>4. QED
    BY <1>11, <2>1, <2>3 DEF x, y
<1> HIDE DEF n, found, path
<1>13. pieces \in Seq(NormalizedPieces)
  BY <1>7 DEF Normalizers
<1>14. Follow(anthropic, anthropic', Heard(pieces)) /\ anthropic' \in Translators
  BY <1>2, <1>3, <1>5, <1>13, AnthropicChunkTells, AnthropicChunkIs
<1>15. responses'.client.text = responses.client.text + Heard(pieces).text
  BY <1>2, <1>3, <1>5, <1>13, ResponsesChunkTells
<1>16. Tells(n)
  BY <1>2, <1>7, <1>14, <1>15 DEF Tells
<1>17. place' = g[Len(content)]
  BY <1>2, <1>6
<1>18. sent'.field <=> sent.field \/ reasoning # <<>>
  BY <1>11
<1>19. Received(chunk, g)
  BY <1>2, <1>5, <1>6, <1>8, <1>9, <1>10, <1>11, <1>12, <1>16, <1>17, <1>18
     DEF Received, n, found, path
<1>20. QED
  BY <1>19

-----------------------------------------------------------------------------
(*****************************************************************************)
(* The invariant is kept, first by a chunk and then by the end.              *)
(*****************************************************************************)

\* The numbers that are counted.
LEMMA Numbers ==
  ASSUME StreamsInv
  PROVE  /\ message.text \in Nat /\ message.thoughts \in Nat
         /\ response.text \in Nat /\ sent.text \in Nat /\ sent.thoughts \in Nat
         /\ Held(normalizer) \in Nat /\ CountOf("text", normalizer.openTagBuffer) \in Nat
         /\ CountOf("thought", normalizer.openTagBuffer) \in Nat
         /\ CountOf("thought", normalizer.tagBuffer) \in Nat
<1>1. /\ anthropic \in Translators /\ responses \in ResponsesTranslators /\ sent \in Sents
      /\ normalizer \in Normalizers
  BY DEF StreamsInv, Typed
<1>2. /\ message.text \in Nat /\ message.thoughts \in Nat
  BY <1>1, ClientNumbers DEF message
<1>3. response.text \in Nat
  BY <1>1 DEF response, ResponsesTranslators, ResponseReaders
<1>4. sent.text \in Nat /\ sent.thoughts \in Nat
  BY <1>1 DEF Sents
<1>5. normalizer.tagBuffer \in Seq(Tokens) /\ normalizer.openTagBuffer \in Seq(Tokens)
  BY <1>1 DEF Normalizers
<1>6. /\ CountOf("text", normalizer.openTagBuffer) \in Nat
      /\ CountOf("thought", normalizer.openTagBuffer) \in Nat
      /\ CountOf("thought", normalizer.tagBuffer) \in Nat
  BY <1>5, CountIsNumber
<1>7. Held(normalizer) \in Nat
  <2> DEFINE x == CountOf("thought", normalizer.tagBuffer)
             y == CountOf("thought", normalizer.openTagBuffer)
  <2>1. x \in Nat /\ y \in Nat /\ Held(normalizer) = x + y
    BY <1>6 DEF Held
  <2> HIDE DEF x, y
  <2>2. QED
    BY <2>1
<1>8. QED
  BY <1>2, <1>3, <1>4, <1>6, <1>7

\* The same for what the normalizer makes of a chunk or of the end.
LEMMA TellsNumbers ==
  ASSUME NEW n \in Normalizers
  PROVE  LET q == [n EXCEPT !.out = <<>>]
         IN /\ Held(q) = Held(n) /\ Held(n) \in Nat
            /\ CountOf("text", q.openTagBuffer) = CountOf("text", n.openTagBuffer)
            /\ CountOf("text", n.openTagBuffer) \in Nat
            /\ CountOf("thought", q.openTagBuffer) = CountOf("thought", n.openTagBuffer)
            /\ Heard(n.out).text \in Nat /\ Heard(n.out).thoughts \in Nat
<1> DEFINE q == [n EXCEPT !.out = <<>>]
           x == CountOf("thought", n.tagBuffer)
           y == CountOf("thought", n.openTagBuffer)
<1>1. q.tagBuffer = n.tagBuffer /\ q.openTagBuffer = n.openTagBuffer
  BY NormalizerOut
<1> HIDE DEF q
<1>2. n.tagBuffer \in Seq(Tokens) /\ n.openTagBuffer \in Seq(Tokens)
  BY DEF Normalizers
<1>3. x \in Nat /\ y \in Nat /\ CountOf("text", n.openTagBuffer) \in Nat
  BY <1>2, CountIsNumber
<1>4. Held(q) = Held(n) /\ Held(n) = x + y
  BY <1>1 DEF Held
<1> HIDE DEF x, y
<1>5. Held(n) \in Nat
  BY <1>3, <1>4
<1>6. QED
  BY <1>1, <1>3, <1>4, <1>5, HeardIsNumber DEF q

\* What the clean parts of a chunk do.
LEMMA ChunkCut ==
  ASSUME StreamsInv, NEW chunk, NEW g, Received(chunk, g), "cutClose" \notin odd'
  PROVE  LET n == Normalized(normalizer, chunk.content, chunk.reasoning)
         IN /\ AllThoughts(normalizer, n, chunk.content, chunk.reasoning)
            /\ Settled(Steps, n, place')
            /\ TextTold /\ Clean' =>
                 /\ AllText(normalizer, n, chunk.content, chunk.reasoning)
                 /\ Settled(CleanSteps, n, place')
<1> DEFINE content == chunk.content
           reasoning == chunk.reasoning
           n == Normalized(normalizer, content, reasoning)
           found == Oddities(chunk, Path(place, content))
<1>1. /\ content \in Seq(Tokens) /\ reasoning \in Seq(Tokens)
      /\ OneChunk(content) /\ Passes(g, place, content)
      /\ place' = g[Len(content)] /\ odd' = odd \cup found /\ ~ended
      /\ "cutClose" \notin found => place' # "closing"
      /\ "strayClose" \notin found => Keeping(CleanSteps, g, content)
  BY DEF Received
<1>2. /\ place \in ModelPlaces /\ normalizer \in Normalizers /\ Buffered(normalizer)
      /\ normalizer.remaining = <<>>
  BY DEF StreamsInv, Typed
<1>3. "cutClose" \notin odd /\ g[Len(content)] # "closing"
  BY <1>1
<1>4. Settled(Steps, normalizer, place)
  BY <1>1, <1>3 DEF StreamsInv, Placed
<1>5. Keeping(Steps, g, content) /\ Steps \in SUBSET Steps
      /\ CleanSteps \in SUBSET Steps
      /\ <<"text", "open", "thought">> \in Steps /\ <<"text", "open", "thought">> \in CleanSteps
  BY DEF Keeping, Steps, CleanSteps
<1>6. TextTold /\ Clean' => Settled(CleanSteps, normalizer, place)
                            /\ Keeping(CleanSteps, g, content)
  BY <1>1 DEF TextTold, Clean
<1> HIDE DEF content, reasoning, n, found, Steps, CleanSteps
<1>7. /\ WellCut(Steps, normalizer, place, g, content)
      /\ TextTold /\ Clean' => WellCut(CleanSteps, normalizer, place, g, content)
  BY <1>1, <1>3, <1>4, <1>5, <1>6 DEF WellCut
<1>8. /\ WellCut(Steps, normalizer, place, g, content)
           => AllThoughts(normalizer, n, content, reasoning)
      /\ WellCut(CleanSteps, normalizer, place, g, content)
           => AllText(normalizer, n, content, reasoning)
  BY <1>1, <1>2, NormalizedTells DEF n
<1>9. \A W \in SUBSET Steps :
        <<"text", "open", "thought">> \in W /\ WellCut(W, normalizer, place, g, content)
          => Settled(W, n, g[Len(content)])
  BY <1>1, <1>2, NormalizedIs DEF WellCut, n
<1>10. QED
  BY <1>1, <1>5, <1>7, <1>8, <1>9 DEF n, content, reasoning

LEMMA ReceiveTellsText ==
  ASSUME StreamsInv, StreamsInv', TextTold, NEW chunk, NEW g, Received(chunk, g)
  PROVE  TextTold'
<1> DEFINE content == chunk.content
           reasoning == chunk.reasoning
           n == Normalized(normalizer, content, reasoning)
           h == Heard(n.out)
<1>1. /\ Tells(n) /\ content \in Seq(Tokens) /\ ToSet(reasoning) \subseteq {"thought"}
      /\ sent'.text = sent.text + CountOf("text", content) /\ odd \subseteq odd'
  BY DEF Received
<1> HIDE DEF content, reasoning, n
<1>2. /\ n \in Normalizers /\ normalizer' = [n EXCEPT !.out = <<>>]
      /\ message'.text = message.text + h.text
      /\ ~h.leaked /\ ~message.leaked => ~message'.leaked
      /\ response'.text = response.text + h.text
  BY <1>1 DEF Tells, Follow, SaysMore, message, response
<1>3. /\ normalizer'.tagBuffer = n.tagBuffer
      /\ Settled(CleanSteps, n, place') => Settled(CleanSteps, normalizer', place')
  <2> DEFINE q == [n EXCEPT !.out = <<>>]
  <2>1. q.inThinkTag = n.inThinkTag /\ q.tagBuffer = n.tagBuffer
        /\ q.openTagBuffer = n.openTagBuffer /\ normalizer' = q
    BY <1>2, NormalizerOut
  <2> HIDE DEF q
  <2>2. QED
    BY <2>1 DEF Settled
<1>4. response'.text = message'.text
  BY <1>2 DEF TextTold
<1>5. ASSUME Clean'
      PROVE  /\ message'.text + CountOf("text", normalizer'.openTagBuffer) = sent'.text
             /\ ~message'.leaked /\ ToSet(normalizer'.tagBuffer) \subseteq {"thought"}
             /\ Settled(CleanSteps, normalizer', place')
  <2>1. Clean /\ "cutClose" \notin odd'
    BY <1>1, <1>5 DEF Clean
  <2>2. AllText(normalizer, n, content, reasoning) /\ Settled(CleanSteps, n, place')
    BY <1>5, <2>1, ChunkCut DEF n, content, reasoning
  <2>3. /\ message.text + CountOf("text", normalizer.openTagBuffer) = sent.text
        /\ ~message.leaked /\ ToSet(normalizer.tagBuffer) \subseteq {"thought"}
    BY <2>1 DEF TextTold
  <2> DEFINE x == CountOf("text", n.openTagBuffer)
             y == CountOf("text", normalizer.openTagBuffer)
             z == CountOf("text", content)
  <2>4. h.text + x = y + z /\ ~h.leaked /\ ToSet(n.tagBuffer) \subseteq {"thought"}
    BY <1>1, <2>2, <2>3 DEF AllText
  <2>5. /\ h.text \in Nat /\ x \in Nat /\ y \in Nat /\ z \in Nat
        /\ message.text \in Nat /\ sent.text \in Nat
        /\ CountOf("text", normalizer'.openTagBuffer) = x
    BY <1>1, <1>2, Numbers, TellsNumbers, CountIsNumber
  <2>6. message.text + y = sent.text /\ sent'.text = sent.text + z
    BY <1>1, <2>3
  <2> HIDE DEF x, y, z, h
  <2>7. (message.text + h.text) + x = sent.text + z
    BY <2>4, <2>5, <2>6
  <2>8. message'.text + CountOf("text", normalizer'.openTagBuffer) = sent'.text
    BY <1>2, <2>5, <2>6, <2>7
  <2>9. QED
    BY <1>2, <1>3, <2>2, <2>3, <2>4, <2>8
<1>6. QED
  BY <1>4, <1>5 DEF TextTold

LEMMA ReceiveTellsThoughts ==
  ASSUME StreamsInv, ThoughtsTold, NEW chunk, NEW g, Received(chunk, g)
  PROVE  ThoughtsTold'
<1> DEFINE content == chunk.content
           reasoning == chunk.reasoning
           n == Normalized(normalizer, content, reasoning)
           h == Heard(n.out)
           t == CountOf("thought", content)
           r == CountOf("thought", reasoning)
           skip == anthropic.skipThinking
<1>1. /\ Tells(n) /\ content \in Seq(Tokens) /\ reasoning \in Seq(Tokens)
      /\ sent'.thoughts = sent.thoughts + t + r
      /\ sent'.field <=> sent.field \/ reasoning # <<>>
      /\ odd \subseteq odd'
  BY DEF Received
<1>2. t \in Nat /\ r \in Nat
  BY <1>1, CountIsNumber
<1>3. /\ normalizer \in Normalizers /\ Buffered(normalizer) /\ normalizer.remaining = <<>>
  BY DEF StreamsInv, Typed
<1>4. /\ n.hasReasoning <=> normalizer.hasReasoning \/ reasoning # <<>>
      /\ NoMoreThoughts(normalizer, n, content, reasoning)
  BY <1>1, <1>3, NormalizedTells
<1>5. "cutClose" \notin odd' => AllThoughts(normalizer, n, content, reasoning)
  BY ChunkCut
<1>6. reasoning = <<>> => r = 0
  BY CountEmpty
<1> HIDE DEF content, reasoning, n
<1>7. /\ n \in Normalizers /\ normalizer' = [n EXCEPT !.out = <<>>]
      /\ message'.thoughts = message.thoughts + (IF skip THEN 0 ELSE h.thoughts)
      /\ anthropic'.skipThinking = skip
  BY <1>1 DEF Tells, Follow, SaysMore, message
<1>8. /\ Held(normalizer') = Held(n) /\ Held(n) \in Nat /\ h.thoughts \in Nat
      /\ CountOf("thought", normalizer'.openTagBuffer) = CountOf("thought", n.openTagBuffer)
      /\ normalizer'.hasReasoning = n.hasReasoning
  BY <1>7, TellsNumbers, NormalizerOut
<1>9. /\ message.thoughts \in Nat /\ sent.thoughts \in Nat /\ Held(normalizer) \in Nat
  BY Numbers
<1>10. normalizer'.hasReasoning => sent'.field
  BY <1>1, <1>4, <1>8 DEF ThoughtsTold
<1>11. skip => message'.thoughts = 0
  BY <1>7 DEF ThoughtsTold
<1> DEFINE k == Held(normalizer)
           l == Held(n)
           m == message.thoughts
           s == sent.thoughts
           d == h.thoughts
<1>12. message'.thoughts + Held(normalizer') <= sent'.thoughts
  <2>1. d + l <= k + t + r /\ m + k <= s
    BY <1>4 DEF NoMoreThoughts, ThoughtsTold
  <2>2. /\ d \in Nat /\ l \in Nat /\ k \in Nat /\ t \in Nat /\ r \in Nat /\ m \in Nat
        /\ s \in Nat
    BY <1>2, <1>8, <1>9
  <2>3. /\ message'.thoughts = m + (IF skip THEN 0 ELSE d) /\ Held(normalizer') = l
        /\ sent'.thoughts = s + t + r
    BY <1>1, <1>7, <1>8
  <2> HIDE DEF d, l, k, t, r, m, s, skip
  <2>4. (m + d) + l <= s + t + r /\ m + l <= s + t + r
    BY <2>1, <2>2
  <2>5. m + 0 = m
    BY <2>2
  <2>6. QED
    BY <2>3, <2>4, <2>5
<1>13. ASSUME "cutClose" \notin odd'
       PROVE  /\ CountOf("thought", normalizer'.openTagBuffer) = 0
              /\ ~sent'.field /\ ~skip => message'.thoughts + Held(normalizer') = sent'.thoughts
  <2>1. "cutClose" \notin odd
    BY <1>1, <1>13
  <2>2. CountOf("thought", normalizer'.openTagBuffer) = 0
    BY <1>5, <1>8, <1>13, <2>1 DEF AllThoughts, ThoughtsTold
  <2>3. ASSUME ~sent'.field, ~skip
        PROVE  message'.thoughts + Held(normalizer') = sent'.thoughts
    <3>1. ~sent.field /\ reasoning = <<>> /\ ~normalizer.hasReasoning
      BY <1>1, <2>3 DEF ThoughtsTold
    <3>2. d + l = k + t /\ r = 0 /\ m + k = s
      BY <1>5, <1>6, <1>13, <2>1, <2>3, <3>1 DEF AllThoughts, ThoughtsTold
    <3>3. /\ d \in Nat /\ l \in Nat /\ k \in Nat /\ t \in Nat /\ m \in Nat /\ s \in Nat
      BY <1>2, <1>8, <1>9
    <3>4. message'.thoughts = m + d /\ Held(normalizer') = l /\ sent'.thoughts = s + t + r
      BY <1>1, <1>7, <1>8, <2>3
    <3> HIDE DEF d, l, k, t, r, m, s
    <3>5. (m + d) + l = s + t + r
      BY <3>2, <3>3
    <3>6. QED
      BY <3>4, <3>5
  <2>4. QED
    BY <2>2, <2>3
<1>14. QED
  BY <1>7, <1>10, <1>11, <1>12, <1>13 DEF ThoughtsTold

\* One of the clients of the streams without structure.
LEMMA ReaderFollows ==
  ASSUME StreamsInv, TextTold, ThoughtsTold, NEW chunk, NEW g, Received(chunk, g),
         odd' \cap {"cutClose", "unclosed"} = {},
         NEW m, IsReader(m), m.text = message.text, Clean => ~m.leaked,
         ~sent.field => m.thoughts + Held(normalizer) = sent.thoughts,
         NEW q, Gets(m, q, Heard(Normalized(normalizer, chunk.content, chunk.reasoning).out))
  PROVE  /\ q.text = message'.text
         /\ Clean' => ~q.leaked
         /\ ~sent'.field => q.thoughts + Held(normalizer') = sent'.thoughts
<1> DEFINE content == chunk.content
           reasoning == chunk.reasoning
           n == Normalized(normalizer, content, reasoning)
           h == Heard(n.out)
           t == CountOf("thought", content)
           r == CountOf("thought", reasoning)
<1>1. /\ Tells(n) /\ content \in Seq(Tokens) /\ reasoning \in Seq(Tokens)
      /\ ToSet(reasoning) \subseteq {"thought"}
      /\ sent'.thoughts = sent.thoughts + t + r
      /\ sent'.field <=> sent.field \/ reasoning # <<>>
      /\ odd \subseteq odd'
  BY DEF Received
<1>2. t \in Nat /\ r \in Nat /\ (reasoning = <<>> => r = 0)
  BY <1>1, CountIsNumber, CountEmpty
<1>3. AllThoughts(normalizer, n, content, reasoning)
  BY ChunkCut
<1>4. Clean' => AllText(normalizer, n, content, reasoning)
  BY ChunkCut
<1> HIDE DEF content, reasoning, n
<1>5. Gets(m, q, h)
  BY DEF content, reasoning, n
<1>6. /\ n \in Normalizers /\ normalizer' = [n EXCEPT !.out = <<>>]
      /\ message'.text = message.text + h.text
  BY <1>1 DEF Tells, Follow, SaysMore, message
<1>7. q.text = message'.text
  BY <1>5, <1>6 DEF Gets
<1>8. ASSUME Clean' PROVE ~q.leaked
  <2>1. Clean
    BY <1>1, <1>8 DEF Clean
  <2>2. ToSet(normalizer.tagBuffer) \subseteq {"thought"}
    BY <2>1 DEF TextTold
  <2>3. ~h.leaked
    BY <1>1, <1>4, <1>8, <2>2 DEF AllText
  <2>4. QED
    BY <1>5, <2>1, <2>3 DEF Gets
<1>9. ASSUME ~sent'.field PROVE q.thoughts + Held(normalizer') = sent'.thoughts
  <2> DEFINE k == Held(normalizer)
             l == Held(n)
             v == m.thoughts
             s == sent.thoughts
             d == h.thoughts
  <2>1. ~sent.field /\ reasoning = <<>> /\ ~normalizer.hasReasoning
    BY <1>1, <1>9 DEF ThoughtsTold
  <2>2. d + l = k + t /\ r = 0 /\ v + k = s
    BY <1>2, <1>3, <2>1 DEF AllThoughts
  <2>3. d \in Nat /\ l \in Nat /\ k \in Nat /\ s \in Nat /\ Held(normalizer') = l
    BY <1>6, Numbers, TellsNumbers
  <2>4. v \in Nat
    BY DEF IsReader, PlainReaders
  <2>5. q.thoughts = v + d /\ sent'.thoughts = s + t + r
    BY <1>1, <1>5 DEF Gets
  <2> HIDE DEF d, l, k, t, r, v, s
  <2>6. (v + d) + l = s + t + r
    BY <1>2, <2>2, <2>3, <2>4
  <2>7. QED
    BY <2>3, <2>5, <2>6
<1>10. QED
  BY <1>7, <1>8, <1>9

LEMMA ReceiveTogether ==
  ASSUME StreamsInv, StreamsTold, NEW chunk, NEW g, Received(chunk, g)
  PROVE  Together'
<1> DEFINE n == Normalized(normalizer, chunk.content, chunk.reasoning)
           h == Heard(n.out)
           found == Oddities(chunk, Path(place, chunk.content))
<1> SUFFICES ASSUME odd' \cap {"cutClose", "unclosed"} = {}
             PROVE  /\ IsGemini(gemini') /\ gemini'.normalizer = normalizer'
                    /\ IsChat(chat') /\ chat'.normalizer = normalizer'
                    /\ \A q \in {gemini'.client, chat'.client} :
                         /\ q.text = message'.text
                         /\ Clean' => ~q.leaked
                         /\ ~sent'.field => q.thoughts + Held(normalizer') = sent'.thoughts
  BY DEF Together
<1>1. /\ Tells(n) /\ odd' = odd \cup found
      /\ chunk.toolCalls \in Seq(ToolCalls) /\ Len(chunk.toolCalls) <= 1
      /\ chunk.finish \in BOOLEAN
      /\ gemini' = GeminiChunk(gemini, chunk) /\ chat' = ChatChunk(chat, chunk)
      /\ "unclosed" \notin found /\ (chunk.toolCalls # <<>> \/ chunk.finish)
           => place' = "text"
  BY DEF Received
<1>2. /\ IsGemini(gemini) /\ gemini.normalizer = normalizer
      /\ IsChat(chat) /\ chat.normalizer = normalizer
      /\ \A m \in {gemini.client, chat.client} :
           /\ m.text = message.text
           /\ Clean => ~m.leaked
           /\ ~sent.field => m.thoughts + Held(normalizer) = sent.thoughts
  BY <1>1 DEF StreamsTold, Together
<1>3. n \in Normalizers /\ normalizer' = [n EXCEPT !.out = <<>>]
  BY <1>1 DEF Tells
<1>4. Settled(Steps, n, place')
  BY ChunkCut
<1>5. chunk.toolCalls # <<>> \/ chunk.finish => ~n.inThinkTag
  BY <1>1, <1>4 DEF Settled
<1> HIDE DEF n, found
<1>6. /\ IsGemini(gemini') /\ gemini'.normalizer = normalizer'
      /\ Gets(gemini.client, gemini'.client, h)
  BY <1>1, <1>2, <1>3, <1>5, GeminiChunkTells DEF n
<1>7. /\ IsChat(chat') /\ chat'.normalizer = normalizer' /\ Gets(chat.client, chat'.client, h)
  BY <1>1, <1>2, <1>3, <1>5, ChatChunkTells DEF n
<1>8. IsReader(gemini.client) /\ IsReader(chat.client)
  BY <1>2 DEF IsGemini, IsChat
<1>9. TextTold /\ ThoughtsTold
  BY DEF StreamsTold
<1>10. ASSUME NEW m \in {gemini.client, chat.client}, NEW q, Gets(m, q, h)
       PROVE  /\ q.text = message'.text
              /\ Clean' => ~q.leaked
              /\ ~sent'.field => q.thoughts + Held(normalizer') = sent'.thoughts
  <2>1. /\ IsReader(m) /\ m.text = message.text /\ (Clean => ~m.leaked)
        /\ ~sent.field => m.thoughts + Held(normalizer) = sent.thoughts
    BY <1>2, <1>8
  <2>2. Gets(m, q, Heard(Normalized(normalizer, chunk.content, chunk.reasoning).out))
    BY <1>10 DEF n
  <2>3. QED
    BY <1>9, <2>1, <2>2, ReaderFollows
<1>11. QED
  BY <1>6, <1>7, <1>10

LEMMA ToldAtFirst == Init => StreamsTold
<1> SUFFICES ASSUME Init PROVE StreamsTold
  OBVIOUS
<1> DEFINE none == <<>>
<1>1. none \in Seq(Tokens) /\ none \in Seq(NormalizedPieces)
  OBVIOUS
<1>2. CountOf("text", none) = 0 /\ CountOf("thought", none) = 0 /\ ToSet(none) = {}
  BY CountEmpty DEF ToSet
<1> HIDE DEF none, NormalizedPieces
<1>3. /\ place = "text" /\ odd = {} /\ ended = FALSE
      /\ sent.text = 0 /\ sent.thoughts = 0 /\ sent.field = FALSE
  BY DEF Init
<1>4. normalizer = NewStreamNormalizer /\ gemini = NewGemini /\ chat = NewChat
  BY DEF Init
<1>5. /\ NewStreamNormalizer \in Normalizers /\ normalizer.openTagBuffer = none
      /\ normalizer.tagBuffer = none /\ ~normalizer.inThinkTag /\ ~normalizer.hasReasoning
  BY <1>1, <1>4 DEF NewStreamNormalizer, Normalizers, none
<1>6. Held(normalizer) = 0
  BY <1>2, <1>5 DEF Held
<1>7. message.text = 0 /\ message.thoughts = 0 /\ ~message.leaked /\ response.text = 0
  <2>1. PICK skip \in SkipThinking : anthropic = NewAnthropic(skip)
    BY DEF Init
  <2>2. /\ NewMessageReader.text = 0 /\ NewMessageReader.thoughts = 0
        /\ ~NewMessageReader.leaked /\ NewResponseReader.text = 0
    BY DEF NewMessageReader, NewResponseReader
  <2>3. anthropic.client = NewMessageReader
    BY <2>1 DEF NewAnthropic
  <2>4. responses.client = NewResponseReader
    BY DEF Init, NewResponses
  <2>5. QED
    BY <2>2, <2>3, <2>4 DEF message, response
<1>8. /\ IsReader(NewPlainReader) /\ NewPlainReader.text = 0 /\ NewPlainReader.thoughts = 0
      /\ ~NewPlainReader.leaked
  BY DEF NewPlainReader, IsReader, PlainReaders
<1>9. /\ IsGemini(gemini) /\ gemini.normalizer = normalizer /\ gemini.client = NewPlainReader
      /\ IsChat(chat) /\ chat.normalizer = normalizer /\ chat.client = NewPlainReader
  <2> HIDE DEF NewStreamNormalizer, NewPlainReader, Normalizers
  <2>1. QED
    BY <1>4, <1>5, <1>8 DEF NewGemini, NewChat, IsGemini, IsChat
<1>10. Settled(CleanSteps, normalizer, place)
  BY <1>3, <1>5 DEF Settled, none
<1>11. TextTold
  BY <1>2, <1>3, <1>5, <1>7, <1>10 DEF TextTold
<1>12. ThoughtsTold
  BY <1>2, <1>3, <1>5, <1>6, <1>7 DEF ThoughtsTold
<1>13. Together
  BY <1>3, <1>6, <1>7, <1>8, <1>9 DEF Together
<1>14. AtEnd
  BY <1>3 DEF AtEnd
<1>15. QED
  BY <1>11, <1>12, <1>13, <1>14 DEF StreamsTold

LEMMA ReceiveKeepsTold ==
  ASSUME StreamsInv, StreamsInv', StreamsTold, Receive
  PROVE  StreamsTold'
<1>1. PICK chunk, g : Received(chunk, g)
  BY ReceiveIs
<1>2. TextTold /\ ThoughtsTold
  BY DEF StreamsTold
<1>3. TextTold' /\ ThoughtsTold' /\ Together'
  BY <1>1, <1>2, ReceiveTellsText, ReceiveTellsThoughts, ReceiveTogether
<1>4. AtEnd'
  BY <1>1 DEF Received, AtEnd
<1>5. QED
  BY <1>3, <1>4 DEF StreamsTold

LEMMA EndStreamKeepsTold ==
  ASSUME StreamsInv, StreamsTold, EndStream
  PROVE  StreamsTold'
<1> DEFINE n == NormalizerFlushed(normalizer)
           h == Heard(n.out)
           b == CountOf("thought", normalizer.tagBuffer)
           o == CountOf("thought", normalizer.openTagBuffer)
<1>1. /\ ~ended /\ ended' = TRUE /\ place' = place /\ sent' = sent
      /\ odd' = odd \cup OddIf("empty", chunks = 0) \cup OddIf("openAtEnd", place = "opening")
      /\ normalizer' = [n EXCEPT !.out = <<>>]
      /\ anthropic' = AnthropicFlush(anthropic, n.out)
      /\ responses' = ResponsesFlush(responses, n.out)
      /\ gemini' = GeminiFlush(gemini) /\ chat' = ChatFlush(chat)
  BY DEF EndStream
<1>2. /\ normalizer \in Normalizers /\ Buffered(normalizer) /\ normalizer.remaining = <<>>
      /\ anthropic \in Translators /\ responses \in ResponsesTranslators
      /\ ~responses.finished => responses.outputIndex = 0
  BY DEF StreamsInv, Typed, Ends
<1>3. TextTold /\ ThoughtsTold /\ Together
  BY DEF StreamsTold
<1>4. /\ odd \subseteq odd' /\ ("cutClose" \in odd' => "cutClose" \in odd)
      /\ ("strayClose" \in odd' => "strayClose" \in odd)
      /\ ("unclosed" \in odd' => "unclosed" \in odd)
      /\ place = "opening" => "openAtEnd" \in odd'
  BY <1>1 DEF OddIf
<1>5. /\ n.tagBuffer = <<>> /\ n.openTagBuffer = normalizer.openTagBuffer
      /\ n.hasReasoning = normalizer.hasReasoning
      /\ h.text = 0 /\ h.thoughts <= b
      /\ ~normalizer.hasReasoning => h.thoughts = b
      /\ ToSet(normalizer.tagBuffer) \subseteq {"thought"} => ~h.leaked
  BY <1>2, FlushedTells
<1>6. n \in Normalizers
  BY <1>2, NormalizerFlushedIs
<1> HIDE DEF n
<1>7. n.out \in Seq(NormalizedPieces)
  BY <1>6 DEF Normalizers
<1>8. Follow(anthropic, anthropic', h)
  BY <1>1, <1>2, <1>7, AnthropicFlushTells
<1>9. responses'.client.text = responses.client.text + h.text
  BY <1>1, <1>2, <1>7, ResponsesFlushTells
<1>10. /\ message'.text = message.text + h.text
       /\ message'.thoughts = message.thoughts + (IF anthropic.skipThinking THEN 0 ELSE h.thoughts)
       /\ ~h.leaked /\ ~message.leaked => ~message'.leaked
       /\ anthropic'.skipThinking = anthropic.skipThinking
       /\ response'.text = response.text + h.text
  BY <1>8, <1>9 DEF Follow, SaysMore, message, response
<1>11. /\ normalizer'.tagBuffer = <<>> /\ normalizer'.openTagBuffer = normalizer.openTagBuffer
       /\ normalizer'.hasReasoning = normalizer.hasReasoning
  BY <1>1, <1>5, <1>6, NormalizerOut
<1>12. /\ message.text \in Nat /\ message.thoughts \in Nat /\ response.text \in Nat
       /\ sent.thoughts \in Nat /\ b \in Nat /\ o \in Nat
  BY Numbers
<1>13. h.thoughts \in Nat
  BY <1>6, TellsNumbers
<1>14. Held(normalizer) = b + o /\ Held(normalizer') = 0 + o
  BY <1>11, CountEmpty DEF Held
<1>15. message'.text = message.text /\ response'.text = response.text
  <2> HIDE DEF h
  <2>1. message.text + 0 = message.text /\ response.text + 0 = response.text
    BY <1>12
  <2>2. QED
    BY <1>5, <1>10, <2>1
<1>16. Clean' => Clean
  BY <1>4 DEF Clean
<1>17. TextTold'
  <2>1. ASSUME Clean'
        PROVE  /\ message'.text + CountOf("text", normalizer'.openTagBuffer) = sent'.text
               /\ ~message'.leaked /\ ToSet(normalizer'.tagBuffer) \subseteq {"thought"}
    <3>1. /\ message.text + CountOf("text", normalizer.openTagBuffer) = sent.text
          /\ ~message.leaked /\ ToSet(normalizer.tagBuffer) \subseteq {"thought"}
      BY <1>3, <1>16, <2>1 DEF TextTold
    <3>2. ToSet(<<>>) = {}
      BY DEF ToSet
    <3>3. message'.text + CountOf("text", normalizer'.openTagBuffer) = sent'.text
      BY <1>1, <1>11, <1>15, <3>1
    <3>4. ~message'.leaked
      BY <1>5, <1>10, <3>1
    <3>5. QED
      BY <1>11, <3>2, <3>3, <3>4
  <2>2. response'.text = message'.text
    BY <1>3, <1>15 DEF TextTold
  <2>3. QED
    BY <1>1, <2>1, <2>2 DEF TextTold
<1> DEFINE m == message.thoughts
           s == sent.thoughts
           d == h.thoughts
           skip == anthropic.skipThinking
<1>18. /\ d \in Nat /\ b \in Nat /\ o \in Nat /\ m \in Nat /\ s \in Nat /\ d <= b
       /\ m + (b + o) <= s
       /\ message'.thoughts = m + (IF skip THEN 0 ELSE d)
       /\ Held(normalizer') = 0 + o /\ Held(normalizer) = b + o
  BY <1>3, <1>5, <1>10, <1>12, <1>13, <1>14 DEF ThoughtsTold
<1>19. /\ normalizer'.hasReasoning => sent'.field
       /\ anthropic'.skipThinking => message'.thoughts = 0
       /\ "cutClose" \notin odd' => CountOf("thought", normalizer'.openTagBuffer) = 0
  <2>1. skip => message'.thoughts = 0
    BY <1>3, <1>10 DEF ThoughtsTold
  <2>2. QED
    BY <1>1, <1>3, <1>4, <1>10, <1>11, <2>1 DEF ThoughtsTold
<1>20. ~sent.field => d = b
  BY <1>3, <1>5 DEF ThoughtsTold
<1>21. ASSUME NEW v \in Nat, v + Held(normalizer) = s, ~sent.field
       PROVE  (v + d) + Held(normalizer') = s
  <2> HIDE DEF h, b, o, m, s, d, skip
  <2>1. QED
    BY <1>18, <1>20, <1>21
<1>22. message'.thoughts + Held(normalizer') <= sent'.thoughts
  <2> HIDE DEF h, b, o, m, s, d, skip
  <2>1. m + 0 + (0 + o) <= s /\ m + d + (0 + o) <= s
    BY <1>18
  <2>2. sent'.thoughts = s
    BY <1>1 DEF s
  <2>3. QED
    BY <1>18, <2>1, <2>2
<1>23. ASSUME "cutClose" \notin odd', ~sent'.field, ~anthropic'.skipThinking
       PROVE  message'.thoughts + Held(normalizer') = sent'.thoughts
  <2>1. m + Held(normalizer) = s /\ ~sent.field /\ ~skip
    BY <1>1, <1>3, <1>4, <1>10, <1>23 DEF ThoughtsTold
  <2>2. message'.thoughts = m + d
    BY <1>18, <2>1
  <2>3. (m + d) + Held(normalizer') = s
    BY <1>18, <1>21, <2>1
  <2>4. QED
    BY <1>1, <2>2, <2>3
<1>24. ThoughtsTold'
  BY <1>19, <1>22, <1>23 DEF ThoughtsTold
<1>25. Together'
  <2> SUFFICES ASSUME odd' \cap {"cutClose", "unclosed"} = {}
               PROVE  /\ IsGemini(gemini') /\ gemini'.normalizer = normalizer'
                      /\ IsChat(chat') /\ chat'.normalizer = normalizer'
                      /\ \A q \in {gemini'.client, chat'.client} :
                           /\ q.text = message'.text
                           /\ Clean' => ~q.leaked
                           /\ ~sent'.field => q.thoughts + Held(normalizer') = sent'.thoughts
    BY DEF Together
  <2>1. /\ IsGemini(gemini) /\ gemini.normalizer = normalizer
        /\ IsChat(chat) /\ chat.normalizer = normalizer
        /\ \A c \in {gemini.client, chat.client} :
             /\ c.text = message.text
             /\ Clean => ~c.leaked
             /\ ~sent.field => c.thoughts + Held(normalizer) = sent.thoughts
    BY <1>3, <1>4 DEF Together
  <2>2. n = NormalizerFlushed(gemini.normalizer) /\ n = NormalizerFlushed(chat.normalizer)
    BY <2>1 DEF n
  <2>3. /\ IsGemini(gemini') /\ gemini'.normalizer = normalizer'
        /\ Gets(gemini.client, gemini'.client, h)
    BY <1>1, <1>6, <2>1, <2>2, GeminiFlushTells
  <2>4. IsChat(chat') /\ chat'.normalizer = normalizer' /\ Gets(chat.client, chat'.client, h)
    BY <1>1, <1>6, <2>1, <2>2, ChatFlushTells
  <2>5. IsReader(gemini.client) /\ IsReader(chat.client)
    BY <2>1 DEF IsGemini, IsChat
  <2>6. ASSUME NEW c \in {gemini.client, chat.client}, NEW q, Gets(c, q, h)
        PROVE  /\ q.text = message'.text
               /\ Clean' => ~q.leaked
               /\ ~sent'.field => q.thoughts + Held(normalizer') = sent'.thoughts
    <3>1. /\ c.text = message.text /\ (Clean => ~c.leaked)
          /\ ~sent.field => c.thoughts + Held(normalizer) = s
      BY <2>1
    <3>2. c.thoughts \in Nat
      BY <2>5 DEF IsReader, PlainReaders
    <3>3. q.text = message'.text
      BY <1>10, <2>6, <3>1 DEF Gets
    <3>4. Clean' => ~q.leaked
      BY <1>3, <1>5, <1>16, <2>6, <3>1 DEF Gets, TextTold
    <3>5. ~sent.field => (c.thoughts + d) + Held(normalizer') = s
      BY <1>21, <3>1, <3>2
    <3>6. ~sent'.field => q.thoughts + Held(normalizer') = sent'.thoughts
      BY <1>1, <2>6, <3>5 DEF Gets
    <3>7. QED
      BY <3>3, <3>4, <3>6
  <2>7. QED
    BY <2>3, <2>4, <2>6
<1>26. AtEnd'
  <2>1. ASSUME odd' \cap {"cutClose", "openAtEnd"} = {} PROVE normalizer'.openTagBuffer = <<>>
    <3>1. "cutClose" \notin odd /\ place # "opening"
      BY <1>4, <2>1
    <3>2. Settled(Steps, normalizer, place)
      BY <1>1, <3>1 DEF StreamsInv, Placed
    <3>3. QED
      BY <1>11, <3>1, <3>2 DEF Settled
  <2>2. QED
    BY <1>11, <2>1 DEF AtEnd
<1>27. QED
  BY <1>17, <1>24, <1>25, <1>26 DEF StreamsTold

LEMMA StutterKeepsTold == StreamsTold /\ UNCHANGED vars => StreamsTold'
  BY DEF StreamsTold, TextTold, ThoughtsTold, Together, AtEnd, Clean, message, response,
         vars, backendVars

(*****************************************************************************)
(* What the output said so far is what each client was told and what         *)
(* tagBuffer and openTagBuffer hold back, whatever the chunks and wherever   *)
(* they were cut, but for the oddities named: emitContent, emitReasoning and *)
(* the branches of processContentChunk around them lose nothing and tell     *)
(* nothing twice, and the three other translations tell what they are given. *)
(*****************************************************************************)
THEOREM NothingIsLost == Spec => []StreamsTold
<1>1. StreamsInv /\ StreamsInv' /\ StreamsTold /\ [Next]_vars => StreamsTold'
  BY ReceiveKeepsTold, EndStreamKeepsTold, StutterKeepsTold DEF Next
<1>2. QED
  BY ToldAtFirst, StreamsHangTogether, <1>1, PTL DEF Spec

(*****************************************************************************)
(* A stream of any number of chunks, cut anywhere, says as much text to each *)
(* client as the backend wrote, none of a thought or a tag in it, and once   *)
(* it has ended all of it: processContentChunk, emitContent and flush, and   *)
(* the deltas each protocol makes of the pieces.                             *)
(*****************************************************************************)
THEOREM TextArrives == Spec => []TextIntact
<1>1. StreamsInv /\ StreamsTold => TextIntact
  <2> SUFFICES ASSUME StreamsInv, StreamsTold,
                      odd \cap {"cutClose", "strayClose", "openAtEnd"} = {}
               PROVE  /\ ~message.leaked
                      /\ message.text <= sent.text
                      /\ ended => message.text = sent.text /\ response.text = sent.text
                      /\ "unclosed" \notin odd =>
                           \A m \in {gemini.client, chat.client} :
                             ~m.leaked /\ (ended => m.text = sent.text)
    BY DEF TextIntact
  <2> DEFINE half == CountOf("text", normalizer.openTagBuffer)
             told == message.text
             said == sent.text
  <2>1. Clean /\ odd \cap {"cutClose", "openAtEnd"} = {}
    BY DEF Clean
  <2>2. told + half = said /\ ~message.leaked /\ response.text = told
    BY <2>1 DEF StreamsTold, TextTold
  <2>3. told \in Nat /\ half \in Nat /\ said \in Nat
    BY Numbers
  <2>4. ended => half = 0
    BY <2>1, CountEmpty DEF StreamsTold, AtEnd
  <2>5. told <= said /\ (ended => told = said)
    <3> HIDE DEF told, half, said
    <3>1. QED
      BY <2>2, <2>3, <2>4
  <2>6. "unclosed" \notin odd =>
          \A m \in {gemini.client, chat.client} : ~m.leaked /\ m.text = told
    BY <2>1 DEF StreamsTold, Together
  <2>7. QED
    BY <2>2, <2>5, <2>6
<1>2. QED
  BY <1>1, StreamsHangTogether, NothingIsLost, PTL

(*****************************************************************************)
(* No thought is told twice, and at the end every thought has reached each   *)
(* client that wants thoughts, also when the stream of any number of chunks  *)
(* breaks off inside a passage (emitReasoning, flush, and skipThinking in    *)
(* handleNormalizedReasoning).                                               *)
(*****************************************************************************)
THEOREM ThoughtsArrive == Spec => []ThoughtsIntact
<1>1. StreamsInv /\ StreamsTold => ThoughtsIntact
  <2> SUFFICES ASSUME StreamsInv, StreamsTold PROVE ThoughtsIntact
    OBVIOUS
  <2> DEFINE held == Held(normalizer)
             told == message.thoughts
             said == sent.thoughts
  <2>1. told \in Nat /\ held \in Nat /\ said \in Nat
    BY Numbers
  <2>2. told + held <= said /\ (anthropic.skipThinking => told = 0)
    BY DEF StreamsTold, ThoughtsTold
  <2>3. told <= said
    <3> HIDE DEF told, held, said
    <3>1. QED
      BY <2>1, <2>2
  <2>4. ASSUME ended, ~sent.field, "cutClose" \notin odd
        PROVE  /\ ~anthropic.skipThinking => told = said
               /\ "unclosed" \notin odd =>
                    \A m \in {gemini.client, chat.client} : m.thoughts = said
    <3>1. held = 0
      BY <2>4, CountEmpty DEF StreamsTold, AtEnd, ThoughtsTold, Held
    <3>2. ASSUME NEW v \in Nat, v + held = said PROVE v = said
      <4> HIDE DEF held, said
      <4>1. QED
        BY <3>1, <3>2
    <3>3. ~anthropic.skipThinking => told = said
      BY <2>1, <2>4, <3>2 DEF StreamsTold, ThoughtsTold
    <3>4. ASSUME "unclosed" \notin odd, NEW m \in {gemini.client, chat.client}
          PROVE  m.thoughts = said
      <4>1. /\ IsReader(gemini.client) /\ IsReader(chat.client) /\ m.thoughts + held = said
        BY <2>4, <3>4 DEF StreamsTold, Together, IsGemini, IsChat
      <4>2. m.thoughts \in Nat
        BY <4>1 DEF IsReader, PlainReaders
      <4>3. QED
        BY <3>2, <4>1, <4>2
    <3>5. QED
      BY <3>3, <3>4
  <2>5. QED
    BY <2>2, <2>3, <2>4 DEF ThoughtsIntact
<1>2. QED
  BY <1>1, StreamsHangTogether, NothingIsLost, PTL

=============================================================================
