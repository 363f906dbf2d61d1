---------------------------- MODULE Bridge_proofs ----------------------------
(***************************************************************************)
(* Proofs about the bridge, for any input of the client, in any pieces, for *)
(* any limits on messages and headers, any replies, and both builds.        *)
(*                                                                          *)
(* Upwards: the buffer is a piece of the input (Window), so that what the   *)
(* reader finds in it is what MessagesOf finds in the whole.  What has been *)
(* forwarded, followed by what is still to be read from where the reader is *)
(* (Todo), is the list of messages that the input means, until a write      *)
(* fails (OnCourse).  Behind a header line that is overlong or gives a      *)
(* length without a value the pieces matter: the reference marks it with    *)
(* NULL, and from there on only the messages before it are accounted for    *)
(* (Astray).  The number of any other line is the same whatever strtoul     *)
(* finds behind it (StrtoulOfLine).                                         *)
(*                                                                          *)
(* Downwards: one framing is latched (Latched); frames arrive in order      *)
(* (Counted); and a message that is appended to what can be decoded without *)
(* a rest is decoded last (DecodeAppends), so that stdout is always the     *)
(* first messages of the server and no more (Printed).                      *)
(*                                                                          *)
(* The operators on bytes are recursive functions; that each is what its    *)
(* definition says is shown with module Induction (the lemmas ...Unfolds).  *)
(***************************************************************************)
EXTENDS Bridge, Induction, SequenceTheorems

\* The least element of a set of positions.
LEMMA MinIs ==
    ASSUME NEW T \in SUBSET Nat, T # {}
    PROVE  Min(T) \in T /\ \A m \in T : Min(T) <= m
<1>1. \E n \in T : \A m \in T : n <= m
  BY LeastElement
<1> QED BY <1>1 DEF Min

\* The greatest element of a bounded set of positions.
LEMMA MaxIs ==
    ASSUME NEW N \in Nat, NEW T \in SUBSET (0..N), T # {}
    PROVE  Max(T) \in T /\ \A m \in T : m <= Max(T)
<1> DEFINE U == {N - n : n \in T}
<1>1. U \in SUBSET Nat /\ U # {}
  <2>1. PICK t : t \in T
    OBVIOUS
  <2>2. N - t \in U
    BY <2>1
  <2>3. \A n \in T : N - n \in Nat
    OBVIOUS
  <2> QED BY <2>2, <2>3
<1>2. PICK u \in U : \A v \in U : u <= v
  BY <1>1, LeastElement
<1>3. PICK n \in T : u = N - n
  BY <1>2
<1>4. ASSUME NEW m \in T
      PROVE  m <= n
  <2>1. N - m \in U
    OBVIOUS
  <2>2. N - n <= N - m
    BY <1>2, <1>3, <2>1
  <2> QED BY <2>2
<1>5. \E k \in T : \A m \in T : k >= m
  BY <1>4
<1> QED BY <1>5 DEF Max

\* What is least of a set is its minimum.
LEMMA MinUnique ==
    ASSUME NEW T \in SUBSET Nat, NEW n \in T, \A m \in T : n <= m
    PROVE  Min(T) = n
<1>1. Min(T) \in T /\ Min(T) <= n
  BY MinIs
<1>2. n <= Min(T)
  BY <1>1, Zenon
<1>3. Min(T) \in Nat /\ n \in Nat
  BY <1>1
<1> QED BY <1>1, <1>2, <1>3

\* The line feeds behind p are positions.
LEMMA FeedsArePositions ==
    ASSUME NEW s, Len(s) \in Nat, NEW p \in Nat
    PROVE  LineFeeds(s, p) \in SUBSET Nat /\ LineFeeds(s, p) \subseteq (p + 1)..Len(s)
BY DEF LineFeeds

\* A piece of a piece is a piece.
LEMMA PieceOfPiece ==
    ASSUME NEW s \in Seq(Bytes), NEW a \in Nat, NEW b \in Nat, a <= b, b <= Len(s),
           NEW i \in Nat, NEW j \in Nat, 1 <= i, i <= j + 1, j <= b - a
    PROVE  /\ SubSeq(s, a + 1, b) \in Seq(Bytes) /\ Len(SubSeq(s, a + 1, b)) = b - a
           /\ SubSeq(SubSeq(s, a + 1, b), i, j) = SubSeq(s, a + i, a + j)
           /\ \A k \in 1..(b - a) : SubSeq(s, a + 1, b)[k] = s[a + k]
<1>1. SubSeq(s, a + 1, b) \in Seq(Bytes) /\ Len(SubSeq(s, a + 1, b)) = b - a
  OBVIOUS
<1>2. \A k \in 1..(b - a) : SubSeq(s, a + 1, b)[k] = s[a + k]
  OBVIOUS
<1>3. SubSeq(SubSeq(s, a + 1, b), i, j) = SubSeq(s, a + i, a + j)
  OBVIOUS
<1> QED BY <1>1, <1>2, <1>3

\* The bytes of a part of a text.
LEMMA PartBytes ==
    ASSUME NEW s \in Seq(Bytes), NEW i \in Nat, NEW j \in Nat, i <= j, j <= Len(s)
    PROVE  /\ SubSeq(s, i + 1, j) \in Seq(Bytes) /\ Len(SubSeq(s, i + 1, j)) = j - i
           /\ \A k \in 1..(j - i) : SubSeq(s, i + 1, j)[k] = s[i + k]
<1>1. 1 \in Nat /\ 0 \in Nat /\ 1 <= 0 + 1 /\ 0 <= j - i /\ 1 <= 1
  OBVIOUS
<1> QED BY <1>1, PieceOfPiece

\* Skipping moves on within the text.
LEMMA SkipOneMoves ==
    ASSUME NEW s \in Seq(Bytes), NEW i \in 0..Len(s)
    PROVE  SkipOne(s, i) \in i..Len(s)
BY DEF SkipOne

\* What detect skips, one blank or byte order mark at a time.
LEMMA SkipUnfolds ==
    ASSUME NEW s \in Seq(Bytes), NEW p \in 0..Len(s)
    PROVE  SkipFrom(s, p) = IF SkipOne(s, p) = p THEN p ELSE SkipFrom(s, SkipOne(s, p))
<1> DEFINE D == 0..Len(s)
           N == Len(s)
           rank == [i \in D |-> Len(s) - i]
           nx == [i \in D |-> SkipOne(s, i)]
           Def(f) == [i \in D |-> IF SkipOne(s, i) = i THEN i ELSE f[SkipOne(s, i)]]
<1>1. N \in Nat
  OBVIOUS
<1>2. ASSUME NEW i \in D
      PROVE  rank[i] \in 0..N /\ (nx[i] # i => nx[i] \in D /\ rank[nx[i]] < rank[i])
  <2>1. PICK j \in i..Len(s) : j = SkipOne(s, i)
    BY SkipOneMoves
  <2>2. nx[i] = j /\ j \in D /\ rank[i] = Len(s) - i /\ rank[j] = Len(s) - j
    BY <2>1
  <2> HIDE DEF nx, rank
  <2> QED BY <2>2
<1>3. \A i \in D : nx[i] = SkipOne(s, i)
  OBVIOUS
<1> HIDE DEF nx, rank
<1>4. PICK g : Jumps(g, D, nx)
  <2>1. Descends(D, N, rank, nx)
    BY <1>2 DEF Descends
  <2> HIDE DEF N, D
  <2> QED BY <1>1, <2>1, JumpExists
<1>5. g = [d \in D |-> IF nx[d] = d THEN d ELSE g[nx[d]]]
  BY <1>4, Zenon DEF Jumps
<1>6. [d \in D |-> IF nx[d] = d THEN d ELSE g[nx[d]]] = Def(g)
  BY <1>3
<1>7. \E f : f = Def(f)
  BY <1>5, <1>6, Zenon
<1>8. PICK f : f = (CHOOSE h : h = Def(h))
  OBVIOUS
<1>9. f = Def(f)
  BY <1>7, <1>8, Zenon
<1>10. \A i : SkipFrom(s, i) = f[i]
  BY <1>8 DEF SkipFrom
<1>11. Def(f)[p] = IF SkipOne(s, p) = p THEN p ELSE f[SkipOne(s, p)]
  OBVIOUS
<1>12. f[p] = IF SkipOne(s, p) = p THEN p ELSE f[SkipOne(s, p)]
  <2> HIDE DEF Def
  <2> QED BY <1>9, <1>11, Zenon
<1> QED BY <1>10, <1>12

\* Where skipping ends.
LEMMA SkipEnds ==
    ASSUME NEW s \in Seq(Bytes), NEW p \in 0..Len(s)
    PROVE  SkipFrom(s, p) \in p..Len(s) /\ SkipOne(s, SkipFrom(s, p)) = SkipFrom(s, p)
<1> DEFINE Ok(i) == SkipFrom(s, i) \in i..Len(s) /\ SkipOne(s, SkipFrom(s, i)) = SkipFrom(s, i)
           S == {n \in Nat : n <= Len(s) => Ok(Len(s) - n)}
<1>1. ASSUME NEW n \in Nat, \A m \in Nat : m < n => m \in S
      PROVE  n \in S
  <2>1. SUFFICES ASSUME n <= Len(s) PROVE Ok(Len(s) - n)
    OBVIOUS
  <2>2. PICK i \in 0..Len(s) : i = Len(s) - n
    BY <2>1
  <2>3. PICK j \in i..Len(s) : j = SkipOne(s, i)
    BY SkipOneMoves
  <2>4. CASE j = i
    BY <2>2, <2>3, <2>4, SkipUnfolds
  <2>5. CASE j # i
    <3>1. Len(s) - j \in Nat /\ Len(s) - j < n /\ Len(s) - j <= Len(s) /\ Len(s) - (Len(s) - j) = j
      BY <2>2, <2>5
    <3>2. Len(s) - j \in S
      BY <1>1, <3>1
    <3> HIDE DEF Ok
    <3>3. Ok(j)
      BY <3>1, <3>2
    <3>4. SkipFrom(s, i) = SkipFrom(s, j)
      BY <2>3, <2>5, SkipUnfolds
    <3>5. Ok(i)
      BY <2>2, <3>3, <3>4 DEF Ok
    <3> QED BY <2>2, <3>5
  <2> QED BY <2>4, <2>5
<1> HIDE DEF S
<1>2. Nat \subseteq S
  BY <1>1, CourseOfValues
<1>3. Len(s) - p \in Nat /\ Len(s) - p <= Len(s) /\ Len(s) - (Len(s) - p) = p
  OBVIOUS
<1>4. Ok(p)
  <2> HIDE DEF Ok
  <2> QED BY <1>2, <1>3 DEF S
<1> QED BY <1>4

\* The bytes of a piece of a text.
LEMMA PieceBytes ==
    ASSUME NEW s \in Seq(Bytes), NEW e \in 0..Len(s)
    PROVE  /\ SubSeq(s, e + 1, Len(s)) \in Seq(Bytes)
           /\ Len(SubSeq(s, e + 1, Len(s))) = Len(s) - e
           /\ \A k \in 1..(Len(s) - e) : SubSeq(s, e + 1, Len(s))[k] = s[e + k]
           /\ SubSeq(s, e + 1, Len(s)) = <<>> <=> e = Len(s)
OBVIOUS

\* t is the piece of s between the positions a and b.
Piece(t, s, a, b) ==
    /\ a <= b /\ b <= Len(s)
    /\ t \in Seq(Bytes) /\ Len(t) = b - a
    /\ \A k \in 1..(b - a) : t[k] = s[a + k]

\* Byte by byte: what is skipped at i.
LEMMA SkipOneBytes ==
    ASSUME NEW s \in Seq(Bytes), NEW i \in 0..Len(s)
    PROVE  SkipOne(s, i) = IF i < Len(s) /\ s[i + 1] \in Blank THEN i + 1
                           ELSE IF i + 2 <= Len(s) /\ s[i + 1] = "E" /\ s[i + 2] = "F" THEN i + 2
                           ELSE i
<1>1. ASSUME i + 2 <= Len(s)
      PROVE  SubSeq(s, i + 1, i + 2) = BOM <=> s[i + 1] = "E" /\ s[i + 2] = "F"
  <2>1. Len(SubSeq(s, i + 1, i + 2)) = 2
    BY <1>1
  <2>2. SubSeq(s, i + 1, i + 2)[1] = s[i + 1] /\ SubSeq(s, i + 1, i + 2)[2] = s[i + 2]
    BY <1>1
  <2>3. BOM \in Seq(Bytes) /\ Len(BOM) = 2 /\ BOM[1] = "E" /\ BOM[2] = "F"
    BY DEF BOM, Bytes
  <2>4. SubSeq(s, i + 1, i + 2) \in Seq(Bytes)
    BY <1>1
  <2>5. ASSUME NEW q \in Seq(Bytes), NEW r \in Seq(Bytes), Len(q) = 2, Len(r) = 2, q[1] = r[1], q[2] = r[2]
        PROVE  q = r
    BY <2>5
  <2> QED BY <2>1, <2>2, <2>3, <2>4, <2>5
<1> QED BY <1>1 DEF SkipOne

\* What is skipped in a piece of the text is skipped in the text.
LEMMA SkipInPiece ==
    ASSUME NEW s \in Seq(Bytes), NEW a \in Nat, NEW b \in Nat,
           NEW t, Piece(t, s, a, b), NEW p \in 0..(b - a)
    PROVE  SkipFrom(s, a + SkipFrom(t, p)) = SkipFrom(s, a + p)
<1>0. /\ t \in Seq(Bytes) /\ Len(t) = b - a /\ \A k \in 1..(b - a) : t[k] = s[a + k]
      /\ a <= b /\ b <= Len(s)
  BY DEF Piece
<1>1. ASSUME NEW i \in 0..Len(t), SkipOne(t, i) # i
      PROVE  SkipOne(s, a + i) = a + SkipOne(t, i)
  <2>1. a + i \in 0..Len(s)
    BY <1>0
  <2>2. CASE i < Len(t) /\ t[i + 1] \in Blank
    <3>1. SkipOne(t, i) = i + 1
      BY <1>0, <2>2, SkipOneBytes
    <3>2. a + i < Len(s) /\ s[(a + i) + 1] \in Blank
      <4>1. i + 1 \in 1..(b - a) /\ a + (i + 1) = (a + i) + 1
        BY <1>0, <2>2
      <4> QED BY <1>0, <2>2, <4>1
    <3>3. SkipOne(s, a + i) = (a + i) + 1
      BY <2>1, <3>2, SkipOneBytes
    <3> QED BY <3>1, <3>3
  <2>3. CASE ~(i < Len(t) /\ t[i + 1] \in Blank)
    <3>1. i + 2 <= Len(t) /\ t[i + 1] = "E" /\ t[i + 2] = "F" /\ SkipOne(t, i) = i + 2
      BY <1>0, <1>1, <2>3, SkipOneBytes
    <3>2. /\ i + 1 \in 1..(b - a) /\ a + (i + 1) = (a + i) + 1
          /\ i + 2 \in 1..(b - a) /\ a + (i + 2) = (a + i) + 2
      BY <1>0, <3>1
    <3>3. (a + i) + 2 <= Len(s) /\ s[(a + i) + 1] = "E" /\ s[(a + i) + 2] = "F"
      BY <1>0, <3>1, <3>2, SMTT(40)
    <3>4. SkipOne(s, a + i) = (a + i) + 2
      BY <2>1, <3>3, SkipOneBytes DEF Blank
    <3> QED BY <3>1, <3>4
  <2> QED BY <2>2, <2>3
<1> DEFINE Ok(i) == SkipFrom(s, a + SkipFrom(t, i)) = SkipFrom(s, a + i)
           S == {n \in Nat : n <= Len(t) => Ok(Len(t) - n)}
<1>2. ASSUME NEW n \in Nat, \A m \in Nat : m < n => m \in S
      PROVE  n \in S
  <2>1. SUFFICES ASSUME n <= Len(t) PROVE Ok(Len(t) - n)
    OBVIOUS
  <2>2. PICK i \in 0..Len(t) : i = Len(t) - n
    BY <1>0, <2>1
  <2>3. PICK j \in i..Len(t) : j = SkipOne(t, i)
    BY <1>0, SkipOneMoves
  <2>4. CASE j = i
    <3>1. SkipFrom(t, i) = i
      BY <1>0, <2>3, <2>4, SkipUnfolds
    <3> QED BY <2>2, <3>1
  <2>5. CASE j # i
    <3>1. Len(t) - j \in Nat /\ Len(t) - j < n /\ Len(t) - j <= Len(t) /\ Len(t) - (Len(t) - j) = j
      BY <1>0, <2>2, <2>5
    <3>2. Len(t) - j \in S
      BY <1>2, <3>1
    <3>3. Ok(j)
      <4> HIDE DEF Ok
      <4> QED BY <3>1, <3>2
    <3>4. SkipFrom(t, i) = SkipFrom(t, j)
      BY <1>0, <2>3, <2>5, SkipUnfolds
    <3>5. SkipOne(s, a + i) = a + j /\ a + i # a + j /\ a + i \in 0..Len(s)
      BY <1>0, <1>1, <2>3, <2>5
    <3>6. SkipFrom(s, a + i) = SkipFrom(s, a + j)
      BY <3>5, SkipUnfolds
    <3>7. Ok(i)
      BY <3>3, <3>4, <3>6
    <3> QED BY <2>2, <3>7
  <2> QED BY <2>4, <2>5
<1> HIDE DEF S
<1>3. Nat \subseteq S
  BY <1>2, CourseOfValues
<1>4. Len(t) - p \in Nat /\ Len(t) - p <= Len(t) /\ Len(t) - (Len(t) - p) = p
  BY <1>0
<1>5. Ok(p)
  <2> HIDE DEF Ok
  <2> QED BY <1>3, <1>4 DEF S
<1> QED BY <1>5

\* Once the bytes of a piece decide, the text agrees: skipping ends at the same
\* place, and the key is there in both or in neither.
LEMMA DecidedInPiece ==
    ASSUME NEW s \in Seq(Bytes), NEW a \in Nat, NEW b \in Nat,
           NEW t, Piece(t, s, a, b), NEW p \in 0..(b - a), NEW e \in Nat, SkipFrom(t, p) = e,
           ~Undecided(SubSeq(t, e + 1, Len(t)))
    PROVE  /\ SkipFrom(s, a + p) = a + e
           /\ StartsWith(SubSeq(t, e + 1, Len(t)), CL_KEY)
                 <=> StartsWith(SubSeq(s, (a + e) + 1, Len(s)), CL_KEY)
<1>0. /\ t \in Seq(Bytes) /\ Len(t) = b - a /\ \A k \in 1..(b - a) : t[k] = s[a + k]
      /\ a <= b /\ b <= Len(s)
  BY DEF Piece
<1>1. e \in 0..Len(t) /\ SkipOne(t, e) = e
  BY <1>0, SkipEnds, SMTT(30)
<1> DEFINE u == SubSeq(t, e + 1, Len(t))
           v == SubSeq(s, (a + e) + 1, Len(s))
<1>2. Len(u) = b - a - e /\ \A k \in 1..(b - a - e) : u[k] = s[(a + e) + k]
  <2>1. Len(u) = Len(t) - e /\ \A k \in 1..(Len(t) - e) : u[k] = t[e + k]
    BY <1>0, <1>1, PieceBytes
  <2>2. \A k \in 1..(b - a - e) : e + k \in 1..(b - a) /\ a + (e + k) = (a + e) + k
    BY <1>0, <1>1, SMTT(40)
  <2> HIDE DEF u
  <2> QED BY <1>0, <2>1, <2>2
<1>3. Len(v) = Len(s) - (a + e) /\ \A k \in 1..(Len(s) - (a + e)) : v[k] = s[(a + e) + k]
  <2>1. a + e \in 0..Len(s)
    BY <1>0, <1>1
  <2> QED BY <2>1, PieceBytes
<1>4. /\ u # <<>> /\ ~Begins(u, BOM) /\ ~Begins(u, CL_KEY)
  BY DEF Undecided
<1>5. Len(u) # 0
  <2>1. e # Len(t)
    BY <1>0, <1>1, <1>4, PieceBytes
  <2>2. Len(u) = Len(t) - e
    BY <1>0, <1>1, PieceBytes
  <2> QED BY <1>0, <1>1, <2>1, <2>2
<1> HIDE DEF u, v
<1>6. PICK n \in Nat, m \in Nat : n = Len(u) /\ m = Len(v) /\ 1 <= n /\ n <= m
  <2>1. Len(u) \in Nat /\ Len(v) \in Nat /\ Len(u) <= Len(v)
    BY <1>0, <1>1, <1>2, <1>3
  <2> QED BY <1>5, <2>1
<1>7. u[1] = s[(a + e) + 1] /\ v[1] = u[1] /\ (n >= 2 => u[2] = s[(a + e) + 2] /\ v[2] = u[2])
  <2>1. 1 \in 1..(b - a - e) /\ 1 \in 1..(Len(s) - (a + e))
    BY <1>2, <1>3, <1>6
  <2>2. n >= 2 => 2 \in 1..(b - a - e) /\ 2 \in 1..(Len(s) - (a + e))
    BY <1>2, <1>3, <1>6
  <2> QED BY <1>2, <1>3, <2>1, <2>2
<1>8. n < 2 => n = 1 /\ lower(u[1]) # "E" /\ lower(u[1]) # "c"
  <2>1. ASSUME n < 2
        PROVE  n = 1 /\ lower(u[1]) # "E" /\ lower(u[1]) # "c"
    <3>1. n = 1 /\ 1..1 = {1}
      BY <1>6, <2>1
    <3>2. Len(BOM) = 2 /\ BOM[1] = "E" /\ Len(CL_KEY) = 2 /\ CL_KEY[1] = "c"
      BY DEF BOM, CL_KEY
    <3> QED BY <1>4, <1>6, <3>1, <3>2 DEF Begins
  <2> QED BY <2>1
<1>9. t[e + 1] = u[1] /\ e < Len(t) /\ (n >= 2 => e + 2 <= Len(t) /\ t[e + 2] = u[2])
  <2>1. e + 1 \in 1..(b - a) /\ a + (e + 1) = (a + e) + 1 /\ a + (e + 2) = (a + e) + 2
    BY <1>0, <1>1, <1>2, <1>6, SMTT(40)
  <2>2. n >= 2 => e + 2 \in 1..(b - a)
    BY <1>0, <1>1, <1>2, <1>6
  <2> QED BY <1>0, <1>1, <1>7, <2>1, <2>2
<1>10. u[1] \notin Blank /\ ~(n >= 2 /\ u[1] = "E" /\ u[2] = "F")
  <2>1. e = IF e < Len(t) /\ t[e + 1] \in Blank THEN e + 1
            ELSE IF e + 2 <= Len(t) /\ t[e + 1] = "E" /\ t[e + 2] = "F" THEN e + 2
            ELSE e
    BY <1>0, <1>1, SkipOneBytes
  <2>2. e # e + 1 /\ e # e + 2
    BY <1>1
  <2> QED BY <1>9, <2>1, <2>2
<1>11. SkipOne(s, a + e) = a + e
  <2>1. a + e \in 0..Len(s)
    BY <1>0, <1>1
  <2>2. n < 2 => u[1] # "E"
    BY <1>8 DEF lower
  <2> QED BY <1>7, <1>10, <2>1, <2>2, SkipOneBytes
<1>12. SkipFrom(s, a + p) = a + e
  <2>1. SkipFrom(s, a + e) = SkipFrom(s, a + p)
    BY SkipInPiece
  <2>2. a + e \in 0..Len(s)
    BY <1>0, <1>1
  <2> QED BY <1>11, <2>1, <2>2, SkipUnfolds
<1>13. ASSUME NEW w, Len(w) \in Nat
       PROVE  StartsWith(w, CL_KEY) <=> Len(w) >= 2 /\ lower(w[1]) = "c" /\ lower(w[2]) = ":"
  <2>1. Len(CL_KEY) = 2 /\ CL_KEY[1] = "c" /\ CL_KEY[2] = ":" /\ 1..2 = {1, 2}
    BY DEF CL_KEY
  <2> QED BY <2>1 DEF StartsWith
<1>14. StartsWith(u, CL_KEY) <=> StartsWith(v, CL_KEY)
  <2>1. StartsWith(u, CL_KEY) <=> n >= 2 /\ lower(u[1]) = "c" /\ lower(u[2]) = ":"
    BY <1>6, <1>13
  <2>2. StartsWith(v, CL_KEY) <=> m >= 2 /\ lower(v[1]) = "c" /\ lower(v[2]) = ":"
    BY <1>6, <1>13
  <2>3. CASE n >= 2
    BY <1>6, <1>7, <2>1, <2>2, <2>3
  <2>4. CASE n < 2
    BY <1>6, <1>7, <1>8, <2>1, <2>2, <2>4
  <2> QED BY <1>6, <2>3, <2>4
<1> QED BY <1>12, <1>14 DEF u, v

\* Trimming leaves a text, and nothing of nothing.
LEMMA TrimType ==
    ASSUME NEW s \in Seq(Bytes)
    PROVE  Trim(s) \in Seq(Bytes) /\ (s = <<>> => Trim(s) = <<>>)
<1> DEFINE ink == {i \in 1..Len(s) : s[i] \notin Blank}
<1>1. Trim(s) = IF ink = {} THEN <<>> ELSE SubSeq(s, Min(ink), Max(ink))
  BY DEF Trim
<1>2. CASE ink = {}
  BY <1>1, <1>2
<1>3. CASE ink # {}
  <2>1. Len(s) \in Nat /\ ink \in SUBSET (0..Len(s)) /\ ink \in SUBSET Nat /\ ink \subseteq 1..Len(s)
    OBVIOUS
  <2> HIDE DEF ink
  <2>2. Min(ink) \in 1..Len(s) /\ Max(ink) \in 1..Len(s)
    BY <1>3, <2>1, MinIs, MaxIs
  <2>3. \A i, j \in 1..Len(s) : SubSeq(s, i, j) \in Seq(Bytes)
    OBVIOUS
  <2>4. s # <<>>
    BY <2>2
  <2> QED BY <1>1, <1>3, <2>2, <2>3, <2>4
<1> QED BY <1>2, <1>3

\* How many digits a text begins with.
DigitRun(t) == {n \in 0..Len(t) : \A i \in 1..n : \E d \in 1..Len(Digits) : Digits[d] = t[i]}

LEMMA DigitRunIs ==
    ASSUME NEW t \in Seq(Bytes)
    PROVE  Max(DigitRun(t)) \in DigitRun(t) /\ DigitRun(t) \in SUBSET (0..Len(t)) /\ Len(t) \in Nat
<1>1. DigitRun(t) \in SUBSET (0..Len(t)) /\ 0 \in DigitRun(t) /\ Len(t) \in Nat
  BY DEF DigitRun
<1> QED BY <1>1, MaxIs

\* The digits that a number begins with, each of them one.
LEMMA DigitsType ==
    ASSUME NEW s \in Seq(Bytes)
    PROVE  /\ DigitsOf(s) \in Seq(Bytes)
           /\ \A i \in 1..Len(DigitsOf(s)) : \E d \in 1..Len(Digits) : Digits[d] = DigitsOf(s)[i]
<1>1. PICK t \in Seq(Bytes) : t = Trim(s)
  BY TrimType
<1>2. PICK m : m = Max(DigitRun(t))
  OBVIOUS
<1>3. m \in 0..Len(t) /\ \A i \in 1..m : \E d \in 1..Len(Digits) : Digits[d] = t[i]
  BY <1>2, DigitRunIs DEF DigitRun
<1>4. DigitsOf(s) = SubSeq(t, 1, m)
  BY <1>1, <1>2 DEF DigitsOf, DigitRun
<1>5. SubSeq(t, 1, m) \in Seq(Bytes) /\ Len(SubSeq(t, 1, m)) = m /\ \A i \in 1..m : SubSeq(t, 1, m)[i] = t[i]
  BY <1>3
<1> QED BY <1>3, <1>4, <1>5

\* A line feed behind a number ends it: what follows does not matter.
LEMMA DigitsOfLine ==
    ASSUME NEW s \in Seq(Bytes), NEW w \in Seq(Bytes), Trim(s) # <<>>, Len(s) >= 1, s[Len(s)] = "n"
    PROVE  DigitsOf(s \o w) = DigitsOf(s)
<1> DEFINE ink(v) == {i \in 1..Len(v) : v[i] \notin Blank}
<1>1. PICK u \in Seq(Bytes) : u = s \o w
  BY ConcatProperties
<1>2. Len(u) = Len(s) + Len(w) /\ Len(s) \in Nat /\ Len(w) \in Nat /\ \A i \in 1..Len(s) : u[i] = s[i]
  BY <1>1, ConcatProperties
<1>3. \A v : Trim(v) = IF ink(v) = {} THEN <<>> ELSE SubSeq(v, Min(ink(v)), Max(ink(v)))
  BY DEF Trim
<1>4. ink(s) # {}
  BY <1>3
<1>5. ink(s) \in SUBSET (0..Len(s)) /\ ink(s) \in SUBSET Nat /\ ink(u) \in SUBSET (0..Len(u)) /\ ink(u) \in SUBSET Nat
  BY <1>2
<1>6. PICK a \in Nat, b \in Nat : /\ a = Min(ink(s)) /\ b = Max(ink(s)) /\ a \in ink(s) /\ b \in ink(s)
                                /\ \A i \in ink(s) : a <= i /\ i <= b
  <2> HIDE DEF ink
  <2> QED BY <1>2, <1>4, <1>5, MinIs, MaxIs
<1>7. a \in 1..Len(s) /\ b \in 1..Len(s) /\ a <= b /\ b < Len(s)
  <2>1. s[Len(s)] \in Blank
    BY DEF Blank
  <2> QED BY <1>2, <1>6, <2>1
<1>8. s[b + 1] \in Blank
  <2>1. b + 1 \notin ink(s)
    BY <1>6
  <2> QED BY <1>2, <1>7, <2>1
<1>9. a \in ink(u) /\ b \in ink(u)
  BY <1>2, <1>6, <1>7
<1>10. Min(ink(u)) = a
  <2>1. ASSUME NEW i \in ink(u) PROVE a <= i
    <3>1. CASE i <= Len(s)
      <4>1. i \in ink(s)
        BY <1>2, <3>1
      <4> QED BY <1>6, <4>1
    <3>2. CASE i > Len(s)
      BY <1>2, <1>7, <3>2
    <3> QED BY <1>2, <3>1, <3>2
  <2> HIDE DEF ink
  <2> QED BY <1>5, <1>9, <2>1, MinUnique
<1>11. PICK c \in Nat : c = Max(ink(u)) /\ b <= c /\ c <= Len(u)
  <2>1. PICK N \in Nat : N = Len(u)
    BY <1>2
  <2>2. PICK T : T = ink(u)
    OBVIOUS
  <2>3. T \in SUBSET (0..N) /\ T # {} /\ b \in T
    BY <1>5, <1>9, <2>1, <2>2
  <2>4. Max(T) \in T /\ b <= Max(T)
    BY <2>3, MaxIs
  <2> HIDE DEF ink
  <2> QED BY <2>1, <2>2, <2>3, <2>4
<1>12. Trim(s) = SubSeq(s, a, b) /\ Trim(u) = SubSeq(u, a, c)
  <2> HIDE DEF ink
  <2> QED BY <1>3, <1>4, <1>6, <1>9, <1>10, <1>11
<1> DEFINE n == (b - a) + 1
           k == (c - a) + 1
<1>0. ASSUME NEW q \in Seq(Bytes), NEW j \in 1..Len(q), a \in 1..Len(q), a <= j
      PROVE  /\ SubSeq(q, a, j) \in Seq(Bytes) /\ Len(SubSeq(q, a, j)) = (j - a) + 1
             /\ \A i \in 1..((j - a) + 1) : SubSeq(q, a, j)[i] = q[(a + i) - 1]
  BY <1>0
<1>13. PICK t \in Seq(Bytes) : t = Trim(s) /\ Len(t) = n /\ \A i \in 1..n : t[i] = s[(a + i) - 1]
  BY <1>0, <1>7, <1>12
<1>14. PICK v \in Seq(Bytes) : v = Trim(u) /\ Len(v) = k /\ \A i \in 1..k : v[i] = u[(a + i) - 1]
  <2>1. c \in 1..Len(u) /\ a \in 1..Len(u) /\ a <= c
    BY <1>2, <1>7, <1>11
  <2> QED BY <1>0, <1>12, <2>1
<1>15. n \in Nat /\ k \in Nat /\ n <= k
  BY <1>7, <1>11
<1>16. ASSUME NEW i \in 1..n PROVE v[i] = t[i]
  <2>1. (a + i) - 1 \in 1..Len(s) /\ i \in 1..k
    BY <1>2, <1>7, <1>15
  <2> QED BY <1>2, <1>13, <1>14, <2>1
<1>17. ASSUME n + 1 <= k, NEW d \in 1..Len(Digits), Digits[d] = v[n + 1] PROVE FALSE
  <2>1. v[n + 1] = u[b + 1] /\ b + 1 \in 1..Len(s)
    <3>1. n + 1 \in 1..k /\ (a + (n + 1)) - 1 = b + 1
      BY <1>7, <1>15, <1>17
    <3> QED BY <1>2, <1>7, <1>14, <3>1
  <2>2. v[n + 1] \in Blank
    BY <1>2, <1>8, <2>1
  <2> QED BY <1>17, <2>2 DEF Digits, Blank
<1> HIDE DEF n, k
<1>18. DigitRun(v) = DigitRun(t)
  <2>1. ASSUME NEW j \in DigitRun(v) PROVE j \in DigitRun(t)
    <3>1. j \in 0..k /\ \A i \in 1..j : \E d \in 1..Len(Digits) : Digits[d] = v[i]
      BY <1>14 DEF DigitRun
    <3>2. j <= n
      <4>1. SUFFICES ASSUME j > n PROVE FALSE
        BY <1>15, <3>1
      <4>2. n + 1 \in 1..j /\ n + 1 <= k
        BY <1>15, <3>1, <4>1
      <4> QED BY <1>17, <3>1, <4>2
    <3>3. \A i \in 1..j : v[i] = t[i]
      BY <1>15, <1>16, <3>1, <3>2
    <3>4. j \in 0..n
      BY <1>15, <3>1, <3>2
    <3> QED BY <1>13, <3>1, <3>3, <3>4 DEF DigitRun
  <2>2. ASSUME NEW j \in DigitRun(t) PROVE j \in DigitRun(v)
    <3>1. j \in 0..n /\ \A i \in 1..j : \E d \in 1..Len(Digits) : Digits[d] = t[i]
      BY <1>13 DEF DigitRun
    <3>2. j \in 0..k /\ \A i \in 1..j : i \in 1..n
      BY <1>15, <3>1
    <3> QED BY <1>14, <1>16, <3>1, <3>2 DEF DigitRun
  <2> QED BY <2>1, <2>2
<1>19. PICK m : m = Max(DigitRun(t))
  OBVIOUS
<1>20. m \in 0..n
  BY <1>13, <1>19, DigitRunIs
<1>21. DigitsOf(s) = SubSeq(t, 1, m) /\ DigitsOf(u) = SubSeq(v, 1, m)
  <2>1. \A z : DigitsOf(z) = SubSeq(Trim(z), 1, Max(DigitRun(Trim(z))))
    BY DEF DigitsOf, DigitRun
  <2> QED BY <1>13, <1>14, <1>18, <1>19, <2>1
<1>22. /\ SubSeq(t, 1, m) \in Seq(Bytes) /\ Len(SubSeq(t, 1, m)) = m
       /\ \A i \in 1..m : SubSeq(t, 1, m)[i] = t[i]
  BY <1>13, <1>15, <1>20
<1>23. /\ SubSeq(v, 1, m) \in Seq(Bytes) /\ Len(SubSeq(v, 1, m)) = m
       /\ \A i \in 1..m : SubSeq(v, 1, m)[i] = v[i]
  BY <1>14, <1>15, <1>20
<1>24. \A i \in 1..m : i \in 1..n
  BY <1>15, <1>20
<1>25. SubSeq(t, 1, m) = SubSeq(v, 1, m)
  BY <1>16, <1>22, <1>23, <1>24, SeqEqual
<1> QED BY <1>1, <1>21, <1>25

\* So the number of a line is that of the line and what follows it.
LEMMA StrtoulOfLine ==
    ASSUME NEW s \in Seq(Bytes), NEW w \in Seq(Bytes), Trim(s) # <<>>, Len(s) >= 1, s[Len(s)] = "n"
    PROVE  strtoul(s \o w) = strtoul(s)
<1>1. DigitsOf(s \o w) = DigitsOf(s)
  BY DigitsOfLine
<1> QED BY <1>1 DEF strtoul

\* strtoul makes a number of any text.
LEMMA StrtoulType ==
    ASSUME NEW s \in Seq(Bytes)
    PROVE  strtoul(s) \in Nat
<1> DEFINE t == DigitsOf(s)
           digit(i) == {d \in 1..Len(Digits) : Digits[d] = t[i]}
           M == Len(t)
           D == 0..M
           Def(f) == [i \in D |-> IF i = 0 THEN 0 ELSE 10 * f[i - 1] + Max(digit(i))]
<1>1. strtoul(s) = (CHOOSE h : h = Def(h))[M]
  BY DEF strtoul
<1>4. M \in Nat /\ \A i \in 1..M : digit(i) # {}
  BY DigitsType
<1>5. ASSUME NEW i \in 1..M
      PROVE  Max(digit(i)) \in Nat
  <2>1. Len(Digits) = 3
    BY DEF Digits
  <2>2. digit(i) \in SUBSET (0..3) /\ digit(i) # {}
    BY <1>4, <2>1
  <2> HIDE DEF digit
  <2>3. Max(digit(i)) \in digit(i)
    BY <2>2, MaxIs
  <2> QED BY <2>2, <2>3
<1> HIDE DEF M, digit
<1> DEFINE rank == [i \in D |-> i]
           nx == [i \in D |-> IF i = 0 THEN 0 ELSE i - 1]
           add == [i \in D |-> Max(digit(i))]
<1>6. Descends(D, M, rank, nx)
  <2>1. ASSUME NEW i \in D
        PROVE  rank[i] \in 0..M /\ (nx[i] # i => nx[i] \in D /\ rank[nx[i]] < rank[i])
    BY <1>4
  <2> HIDE DEF rank, nx, D
  <2> QED BY <2>1 DEF Descends
<1>7. \A i \in D : (nx[i] = i <=> i = 0) /\ (i # 0 => nx[i] = i - 1) /\ add[i] = Max(digit(i))
  BY <1>4
<1> HIDE DEF nx, rank, add
<1>8. PICK g : Horners(g, D, nx, add)
  <2> HIDE DEF D
  <2> QED BY <1>4, <1>6, HornerExists
<1>9. g = [d \in D |-> IF nx[d] = d THEN 0 ELSE 10 * g[nx[d]] + add[d]]
  BY <1>8, Zenon DEF Horners
<1>10. [d \in D |-> IF nx[d] = d THEN 0 ELSE 10 * g[nx[d]] + add[d]] = Def(g)
  BY <1>7
<1>11. \E f : f = Def(f)
  BY <1>9, <1>10, Zenon
<1>12. PICK f : f = (CHOOSE h : h = Def(h))
  OBVIOUS
<1>13. f = Def(f)
  BY <1>11, <1>12, Zenon
<1>14. ASSUME NEW i \in D
       PROVE  f[i] = IF i = 0 THEN 0 ELSE 10 * f[i - 1] + Max(digit(i))
  <2>1. Def(f)[i] = IF i = 0 THEN 0 ELSE 10 * f[i - 1] + Max(digit(i))
    OBVIOUS
  <2> HIDE DEF Def
  <2> QED BY <1>13, <2>1, Zenon
<1> DEFINE S == {n \in Nat : n <= M => f[n] \in Nat}
<1>15. ASSUME NEW n \in Nat, \A m \in Nat : m < n => m \in S
       PROVE  n \in S
  <2>1. SUFFICES ASSUME n <= M PROVE f[n] \in Nat
    OBVIOUS
  <2>2. n \in D
    BY <1>4, <2>1
  <2>3. CASE n = 0
    BY <1>14, <2>2, <2>3
  <2>4. CASE n # 0
    <3>1. n - 1 \in Nat /\ n - 1 < n /\ n - 1 <= M /\ n \in 1..M
      BY <1>4, <2>1, <2>4
    <3>2. PICK k \in Nat : k = f[n - 1]
      BY <1>15, <3>1
    <3>3. PICK c \in Nat : c = Max(digit(n))
      BY <1>5, <3>1
    <3>4. f[n] = 10 * k + c
      BY <1>14, <2>2, <2>4, <3>2, <3>3
    <3> QED BY <3>4
  <2> QED BY <2>3, <2>4
<1> HIDE DEF S
<1>16. Nat \subseteq S
  BY <1>15, CourseOfValues
<1>17. f[M] \in Nat
  BY <1>4, <1>16 DEF S
<1>18. strtoul(s) = f[M]
  <2> HIDE DEF Def
  <2> QED BY <1>1, <1>12
<1> QED BY <1>17, <1>18

\* The three variables of the headers keep their types.
LEMMA WithHeaderType ==
    ASSUME NEW h \in Headers, NEW line \in Seq(Bytes), NEW text \in Seq(Bytes)
    PROVE  WithHeader(h, line, text) \in Headers
<1>1. strtoul(text) \in Nat
  BY StrtoulType
<1> QED BY <1>1 DEF WithHeader, Headers

\* The value of a header line is a text.
LEMMA ValueType ==
    ASSUME NEW s \in Seq(Bytes)
    PROVE  /\ ValueOf(s) \in Seq(Bytes)
           /\ Len(s) >= 2 => Len(ValueOf(s)) = Len(s) - 2 /\ \A i \in 1..(Len(s) - 2) : ValueOf(s)[i] = s[2 + i]
<1>1. Len(CL_KEY) = 2
  BY DEF CL_KEY
<1>2. CASE Len(s) >= 2
  <2>1. PICK e \in Nat : e = Len(s) /\ e >= 2
    BY <1>2
  <2>2. /\ SubSeq(s, 3, e) \in Seq(Bytes) /\ Len(SubSeq(s, 3, e)) = e - 2
        /\ \A i \in 1..(e - 2) : SubSeq(s, 3, e)[i] = s[2 + i]
    BY <2>1
  <2>3. ValueOf(s) = SubSeq(s, 3, e)
    BY <1>1, <2>1 DEF ValueOf
  <2> QED BY <2>1, <2>2, <2>3
<1>3. CASE Len(s) < 2
  <2>1. SubSeq(s, 3, Len(s)) = <<>>
    BY <1>3
  <2> QED BY <1>1, <1>3, <2>1 DEF ValueOf
<1> QED BY <1>2, <1>3

\* Before any header line.
LEMMA NoHeaderType == NoHeader \in Headers
BY DEF NoHeader, Headers

\* The first line feed behind p, if there is one.
LEMMA FirstFeed ==
    ASSUME NEW s \in Seq(Bytes), NEW p \in 0..Len(s), LineFeeds(s, p) # {}
    PROVE  /\ Min(LineFeeds(s, p)) \in (p + 1)..Len(s)
           /\ s[Min(LineFeeds(s, p))] = "n"
           /\ \A i \in (p + 1)..(Min(LineFeeds(s, p)) - 1) : s[i] # "n"
<1>1. LineFeeds(s, p) \in SUBSET Nat
  BY DEF LineFeeds
<1>2. PICK m : m = Min(LineFeeds(s, p)) /\ m \in LineFeeds(s, p) /\ \A i \in LineFeeds(s, p) : m <= i
  BY <1>1, MinIs
<1>3. m \in (p + 1)..Len(s) /\ s[m] = "n"
  BY <1>2 DEF LineFeeds
<1>4. ASSUME NEW i \in (p + 1)..(m - 1)
      PROVE  s[i] # "n"
  <2>1. i \in (p + 1)..Len(s) /\ ~(m <= i)
    BY <1>3
  <2> QED BY <1>2, <2>1 DEF LineFeeds
<1> QED BY <1>2, <1>3, <1>4

\* A line of the text is a text.
LEMMA LineOutType ==
    ASSUME NEW s \in Seq(Bytes), NEW p \in 0..Len(s)
    PROVE  LineOut(s, p) \in Seq(Seq(Bytes)) /\ LineNext(s, p) \in p..Len(s)
<1>1. HasLine(s, p) => Min(LineFeeds(s, p)) \in (p + 1)..Len(s)
  BY FirstFeed DEF HasLine
<1>2. \A m \in (p + 1)..Len(s) : SubSeq(s, p + 1, m - 1) \in Seq(Bytes)
  OBVIOUS
<1>3. SubSeq(s, p + 1, Len(s)) \in Seq(Bytes)
  OBVIOUS
<1>4. \A t \in Seq(Bytes) : AsMessage(Trim(t)) \in Seq(Seq(Bytes))
  BY TrimType DEF AsMessage
<1>5. <<>> \in Seq(Seq(Bytes))
  OBVIOUS
<1>6. LineNext(s, p) \in p..Len(s)
  BY <1>1 DEF LineNext
<1>7. CASE HasLine(s, p)
  <2>1. SubSeq(s, p + 1, Min(LineFeeds(s, p)) - 1) \in Seq(Bytes)
    BY <1>1, <1>2, <1>7
  <2> QED BY <1>4, <1>6, <1>7, <2>1 DEF LineOut
<1>8. CASE ~HasLine(s, p)
  BY <1>3, <1>4, <1>5, <1>6, <1>8 DEF LineOut
<1> QED BY <1>7, <1>8

\* The lines of a text, one at a time.
LEMMA LinesUnfold ==
    ASSUME NEW s \in Seq(Bytes), NEW p \in 0..Len(s)
    PROVE  LinesOf(s)[p] = IF LineNext(s, p) = p THEN LineOut(s, p)
                           ELSE LineOut(s, p) \o LinesOf(s)[LineNext(s, p)]
<1> DEFINE D == 0..Len(s)
           N == Len(s)
           rank == [i \in D |-> Len(s) - i]
           nx == [i \in D |-> LineNext(s, i)]
           out == [i \in D |-> LineOut(s, i)]
           Def(f) == [i \in D |-> IF LineNext(s, i) = i THEN LineOut(s, i)
                                  ELSE LineOut(s, i) \o f[LineNext(s, i)]]
<1>1. N \in Nat
  OBVIOUS
<1>2. ASSUME NEW i \in D
      PROVE  rank[i] \in 0..N /\ (nx[i] # i => nx[i] \in D /\ rank[nx[i]] < rank[i])
  <2>1. PICK j \in i..Len(s) : j = LineNext(s, i)
    BY LineOutType
  <2>2. nx[i] = j /\ j \in D /\ rank[i] = Len(s) - i /\ rank[j] = Len(s) - j
    BY <2>1
  <2> HIDE DEF nx, rank
  <2> QED BY <2>2
<1>3. \A i \in D : nx[i] = LineNext(s, i) /\ out[i] = LineOut(s, i)
  OBVIOUS
<1> HIDE DEF nx, rank, out
<1>4. PICK g : Walks(g, D, nx, out)
  <2>1. Descends(D, N, rank, nx)
    BY <1>2 DEF Descends
  <2> HIDE DEF N, D
  <2> QED BY <1>1, <2>1, WalkExists
<1>5. g = [d \in D |-> IF nx[d] = d THEN out[d] ELSE out[d] \o g[nx[d]]]
  BY <1>4, Zenon DEF Walks
<1>6. [d \in D |-> IF nx[d] = d THEN out[d] ELSE out[d] \o g[nx[d]]] = Def(g)
  BY <1>3
<1>7. \E f : f = Def(f)
  BY <1>5, <1>6, Zenon
<1>8. PICK f : f = (CHOOSE h : h = Def(h))
  OBVIOUS
<1>9. f = Def(f)
  BY <1>7, <1>8, Zenon
<1>10. LinesOf(s) = f
  BY <1>8 DEF LinesOf
<1>11. Def(f)[p] = IF LineNext(s, p) = p THEN LineOut(s, p) ELSE LineOut(s, p) \o f[LineNext(s, p)]
  OBVIOUS
<1>12. f[p] = IF LineNext(s, p) = p THEN LineOut(s, p) ELSE LineOut(s, p) \o f[LineNext(s, p)]
  <2> HIDE DEF Def
  <2> QED BY <1>9, <1>11, Zenon
<1> QED BY <1>10, <1>12

\* The lines of a text are texts.
LEMMA LinesType ==
    ASSUME NEW s \in Seq(Bytes), NEW p \in 0..Len(s)
    PROVE  LinesOf(s)[p] \in Seq(Seq(Bytes))
<1> DEFINE Ok(i) == LinesOf(s)[i] \in Seq(Seq(Bytes))
           S == {n \in Nat : n <= Len(s) => Ok(Len(s) - n)}
<1>1. ASSUME NEW n \in Nat, \A m \in Nat : m < n => m \in S
      PROVE  n \in S
  <2>1. SUFFICES ASSUME n <= Len(s) PROVE Ok(Len(s) - n)
    OBVIOUS
  <2>2. PICK i \in 0..Len(s) : i = Len(s) - n
    BY <2>1
  <2>3. PICK j \in i..Len(s), o \in Seq(Seq(Bytes)) : j = LineNext(s, i) /\ o = LineOut(s, i)
    BY LineOutType
  <2>4. CASE j = i
    <3>1. LinesOf(s)[i] = o
      BY <2>3, <2>4, LinesUnfold
    <3> QED BY <2>2, <3>1
  <2>5. CASE j # i
    <3>1. Len(s) - j \in Nat /\ Len(s) - j < n /\ Len(s) - j <= Len(s) /\ Len(s) - (Len(s) - j) = j
      BY <2>2, <2>5
    <3>2. Len(s) - j \in S
      BY <1>1, <3>1
    <3>3. LinesOf(s)[j] \in Seq(Seq(Bytes))
      BY <3>1, <3>2
    <3>4. LinesOf(s)[i] = o \o LinesOf(s)[j]
      BY <2>3, <2>5, LinesUnfold
    <3>5. \A q, r \in Seq(Seq(Bytes)) : q \o r \in Seq(Seq(Bytes))
      OBVIOUS
    <3> QED BY <2>2, <3>3, <3>4, <3>5
  <2> QED BY <2>4, <2>5
<1> HIDE DEF S
<1>2. Nat \subseteq S
  BY <1>1, CourseOfValues
<1>3. Len(s) - p \in Nat /\ Len(s) - p <= Len(s) /\ Len(s) - (Len(s) - p) = p
  OBVIOUS
<1>4. Ok(p)
  <2> HIDE DEF Ok
  <2> QED BY <1>2, <1>3 DEF S
<1> QED BY <1>4

\* A header line, or a whole frame, leads on in the text.
LEMMA HeaderNextMoves ==
    ASSUME NEW s \in Seq(Bytes), NEW p \in 0..Len(s), NEW h \in Headers
    PROVE  /\ HeaderOut(s, <<p, h>>) \in Seq(Seq(Bytes))
           /\ HeaderNext(s, <<p, h>>) # <<p, h>> =>
                \E q \in (p + 1)..Len(s), g \in Headers : HeaderNext(s, <<p, h>>) = <<q, g>>
<1> DEFINE d == <<p, h>>
           m == Min(LineFeeds(s, p))
           line == SubSeq(s, p + 1, m)
<1>1. d[1] = p /\ d[2] = h
  OBVIOUS
<1>2. CASE ~HasLine(s, p)
  <2>1. HeaderNext(s, d) = d /\ HeaderOut(s, d) = <<>>
    BY <1>1, <1>2 DEF HeaderNext, HeaderOut
  <2> QED BY <2>1
<1>3. CASE HasLine(s, p)
  <2>1. m \in (p + 1)..Len(s)
    BY <1>3, FirstFeed DEF HasLine
  <2>2. line \in Seq(Bytes)
    BY <2>1
  <2>3. HeaderNext(s, d) = IF Unsure(line, m - p) THEN d
                           ELSE IF ~EndOfHeaders(h, line) THEN <<m, WithHeader(h, line, ValueOf(line))>>
                           ELSE IF HasBody(s, m, h) THEN <<m + h.length, NoHeader>> ELSE d
    BY <1>1, <1>3 DEF HeaderNext
  <2>4. HeaderOut(s, d) = IF Unsure(line, m - p) THEN <<NULL>>
                          ELSE IF EndOfHeaders(h, line) /\ HasBody(s, m, h)
                               THEN <<SubSeq(s, m + 1, m + h.length)>> ELSE <<>>
    BY <1>1, <1>3 DEF HeaderOut
  <2> HIDE DEF m, line, d
  <2>5. WithHeader(h, line, ValueOf(line)) \in Headers /\ NoHeader \in Headers
    BY <2>2, ValueType, WithHeaderType, NoHeaderType
  <2>6. HasBody(s, m, h) => m + h.length \in (p + 1)..Len(s) /\ SubSeq(s, m + 1, m + h.length) \in Seq(Bytes)
    BY <2>1, FramingAssumption DEF HasBody, GoodLength
  <2>7. \A x \in Seq(Bytes) : <<x>> \in Seq(Seq(Bytes))
    OBVIOUS
  <2>8. NULL \in Seq(Bytes)
    BY DEF NULL
  <2>9. HeaderOut(s, d) \in Seq(Seq(Bytes))
    BY <2>4, <2>6, <2>7, <2>8
  <2>10. HeaderNext(s, d) # d => \E q \in (p + 1)..Len(s), g \in Headers : HeaderNext(s, d) = <<q, g>>
    BY <2>1, <2>3, <2>5, <2>6
  <2> QED BY <2>9, <2>10 DEF d
<1> QED BY <1>2, <1>3

\* The frames of a text, one header line or one frame at a time.
LEMMA FramesUnfold ==
    ASSUME NEW s \in Seq(Bytes), NEW d \in (0..Len(s)) \X Headers
    PROVE  FramesOf(s)[d] = IF HeaderNext(s, d) = d THEN HeaderOut(s, d)
                            ELSE HeaderOut(s, d) \o FramesOf(s)[HeaderNext(s, d)]
<1> DEFINE D == (0..Len(s)) \X Headers
           N == Len(s)
           rank == [x \in D |-> Len(s) - x[1]]
           nx == [x \in D |-> HeaderNext(s, x)]
           out == [x \in D |-> HeaderOut(s, x)]
           Def(f) == [x \in D |-> IF HeaderNext(s, x) = x THEN HeaderOut(s, x)
                                  ELSE HeaderOut(s, x) \o f[HeaderNext(s, x)]]
<1>1. N \in Nat
  OBVIOUS
<1>2. ASSUME NEW x \in D
      PROVE  rank[x] \in 0..N /\ (nx[x] # x => nx[x] \in D /\ rank[nx[x]] < rank[x])
  <2>1. PICK p \in 0..Len(s), h \in Headers : x = <<p, h>>
    OBVIOUS
  <2>2. rank[x] = Len(s) - p /\ nx[x] = HeaderNext(s, x)
    BY <2>1
  <2>3. CASE HeaderNext(s, x) = x
    <3> HIDE DEF rank, nx, D
    <3> QED BY <2>2, <2>3
  <2>4. CASE HeaderNext(s, x) # x
    <3>1. PICK q \in (p + 1)..Len(s), g \in Headers : HeaderNext(s, x) = <<q, g>>
      BY <2>1, <2>4, HeaderNextMoves, ZenonT(60)
    <3>2. <<q, g>> \in D /\ <<q, g>>[1] = q
      OBVIOUS
    <3>3. rank[<<q, g>>] = Len(s) - q
      BY <3>2
    <3> HIDE DEF rank, nx, D
    <3> QED BY <2>2, <3>1, <3>2, <3>3
  <2> QED BY <2>3, <2>4
<1>3. \A x \in D : nx[x] = HeaderNext(s, x) /\ out[x] = HeaderOut(s, x)
  OBVIOUS
<1> HIDE DEF nx, rank, out
<1>4. PICK g : Walks(g, D, nx, out)
  <2>1. Descends(D, N, rank, nx)
    BY <1>2 DEF Descends
  <2> HIDE DEF N, D
  <2> QED BY <1>1, <2>1, WalkExists
<1>5. g = [x \in D |-> IF nx[x] = x THEN out[x] ELSE out[x] \o g[nx[x]]]
  BY <1>4, Zenon DEF Walks
<1>6. [x \in D |-> IF nx[x] = x THEN out[x] ELSE out[x] \o g[nx[x]]] = Def(g)
  BY <1>3
<1>7. \E f : f = Def(f)
  BY <1>5, <1>6, Zenon
<1>8. PICK f : f = (CHOOSE h : h = Def(h))
  OBVIOUS
<1>9. f = Def(f)
  BY <1>7, <1>8, Zenon
<1>10. FramesOf(s) = f
  BY <1>8 DEF FramesOf
<1>11. Def(f)[d] = IF HeaderNext(s, d) = d THEN HeaderOut(s, d) ELSE HeaderOut(s, d) \o f[HeaderNext(s, d)]
  OBVIOUS
<1>12. f[d] = IF HeaderNext(s, d) = d THEN HeaderOut(s, d) ELSE HeaderOut(s, d) \o f[HeaderNext(s, d)]
  <2> HIDE DEF Def
  <2> QED BY <1>9, <1>11, Zenon
<1> QED BY <1>10, <1>12

\* The frames of a text are texts.
LEMMA FramesType ==
    ASSUME NEW s \in Seq(Bytes), NEW p \in 0..Len(s), NEW h \in Headers
    PROVE  FramesOf(s)[<<p, h>>] \in Seq(Seq(Bytes))
<1> DEFINE Ok(i) == \A g \in Headers : FramesOf(s)[<<i, g>>] \in Seq(Seq(Bytes))
           S == {n \in Nat : n <= Len(s) => Ok(Len(s) - n)}
<1>1. ASSUME NEW n \in Nat, \A m \in Nat : m < n => m \in S
      PROVE  n \in S
  <2>1. SUFFICES ASSUME n <= Len(s) PROVE Ok(Len(s) - n)
    OBVIOUS
  <2>2. PICK i \in 0..Len(s) : i = Len(s) - n
    BY <2>1
  <2>3. ASSUME NEW g \in Headers
        PROVE  FramesOf(s)[<<i, g>>] \in Seq(Seq(Bytes))
    <3>1. PICK o \in Seq(Seq(Bytes)) : o = HeaderOut(s, <<i, g>>)
      BY HeaderNextMoves
    <3>2. <<i, g>> \in (0..Len(s)) \X Headers
      OBVIOUS
    <3>3. CASE HeaderNext(s, <<i, g>>) = <<i, g>>
      <4>1. FramesOf(s)[<<i, g>>] = o
        BY <3>1, <3>2, <3>3, FramesUnfold
      <4> QED BY <4>1
    <3>4. CASE HeaderNext(s, <<i, g>>) # <<i, g>>
      <4>1. PICK j \in (i + 1)..Len(s), f \in Headers : HeaderNext(s, <<i, g>>) = <<j, f>>
        BY <3>4, HeaderNextMoves
      <4>2. Len(s) - j \in Nat /\ Len(s) - j < n /\ Len(s) - j <= Len(s) /\ Len(s) - (Len(s) - j) = j
        BY <2>2
      <4>3. Len(s) - j \in S
        BY <1>1, <4>2
      <4>4. FramesOf(s)[<<j, f>>] \in Seq(Seq(Bytes))
        BY <4>2, <4>3
      <4>5. FramesOf(s)[<<i, g>>] = o \o FramesOf(s)[<<j, f>>]
        BY <3>1, <3>2, <3>4, <4>1, FramesUnfold
      <4>6. \A q, r \in Seq(Seq(Bytes)) : q \o r \in Seq(Seq(Bytes))
        OBVIOUS
      <4> QED BY <4>4, <4>5, <4>6
    <3> QED BY <3>3, <3>4
  <2> QED BY <2>2, <2>3
<1> HIDE DEF S
<1>2. Nat \subseteq S
  BY <1>1, CourseOfValues
<1>3. Len(s) - p \in Nat /\ Len(s) - p <= Len(s) /\ Len(s) - (Len(s) - p) = p
  OBVIOUS
<1>4. Ok(p)
  <2> HIDE DEF Ok
  <2> QED BY <1>2, <1>3 DEF S
<1> QED BY <1>4

\* A header line that is followed by another one.
LineOfHeader(s, p, h, m, line) ==
    /\ p \in 0..Len(s) /\ h \in Headers /\ m \in (p + 1)..Len(s)
    /\ LineFeeds(s, p) # {} /\ Min(LineFeeds(s, p)) = m /\ m - p <= MAX_MESSAGE
    /\ line = SubSeq(s, p + 1, m) /\ ~Unsure(line, m - p) /\ ~EndOfHeaders(h, line)

LEMMA HeaderGoesOn ==
    ASSUME NEW s \in Seq(Bytes), NEW p, NEW h, NEW m, NEW line, LineOfHeader(s, p, h, m, line)
    PROVE  FramesOf(s)[<<p, h>>] = FramesOf(s)[<<m, WithHeader(h, line, ValueOf(line))>>]
<1>0. /\ p \in 0..Len(s) /\ h \in Headers /\ m \in (p + 1)..Len(s)
      /\ LineFeeds(s, p) # {} /\ Min(LineFeeds(s, p)) = m /\ m - p <= MAX_MESSAGE
      /\ line = SubSeq(s, p + 1, m) /\ ~Unsure(line, m - p) /\ ~EndOfHeaders(h, line)
  BY Zenon DEF LineOfHeader
<1> DEFINE g == WithHeader(h, line, ValueOf(line))
<1>1. HasLine(s, p)
  BY <1>0 DEF HasLine
<1>2. <<p, h>>[1] = p /\ <<p, h>>[2] = h
  OBVIOUS
<1>3. HeaderNext(s, <<p, h>>) = <<m, g>>
  BY <1>0, <1>1, <1>2 DEF HeaderNext
<1>4. HeaderOut(s, <<p, h>>) = <<>>
  BY <1>0, <1>1, <1>2 DEF HeaderOut
<1>5. g \in Headers
  <2>1. line \in Seq(Bytes)
    BY <1>0
  <2> QED BY <1>0, <2>1, ValueType, WithHeaderType
<1> HIDE DEF g
<1>6. <<m, g>> # <<p, h>> /\ <<p, h>> \in (0..Len(s)) \X Headers
  BY <1>0
<1>7. FramesOf(s)[<<p, h>>] = <<>> \o FramesOf(s)[<<m, g>>]
  BY <1>0, <1>3, <1>4, <1>6, FramesUnfold
<1>8. FramesOf(s)[<<m, g>>] \in Seq(Seq(Bytes))
  <2>1. m \in 0..Len(s)
    BY <1>0
  <2> QED BY <1>5, <2>1, FramesType
<1>9. FramesOf(s)[<<p, h>>] = FramesOf(s)[<<m, g>>]
  BY <1>7, <1>8
<1> QED BY <1>9 DEF g

\* What the body that begins at m and the frames behind it are.
BodyFrom(s, m, h) ==
    IF HasBody(s, m, h)
    THEN <<SubSeq(s, m + 1, m + h.length)>> \o FramesOf(s)[<<m + h.length, NoHeader>>]
    ELSE <<>>

\* The blank line that ends the headers.
LEMMA HeaderGoesToBody ==
    ASSUME NEW s \in Seq(Bytes), NEW p \in 0..Len(s), NEW h \in Headers, NEW m \in (p + 1)..Len(s),
           LineFeeds(s, p) # {}, Min(LineFeeds(s, p)) = m, m - p <= MAX_MESSAGE,
           ~Unsure(SubSeq(s, p + 1, m), m - p), EndOfHeaders(h, SubSeq(s, p + 1, m))
    PROVE  FramesOf(s)[<<p, h>>] = BodyFrom(s, m, h)
<1>1. HasLine(s, p)
  BY DEF HasLine
<1>2. <<p, h>>[1] = p /\ <<p, h>>[2] = h
  OBVIOUS
<1>3. HeaderNext(s, <<p, h>>) = IF HasBody(s, m, h) THEN <<m + h.length, NoHeader>> ELSE <<p, h>>
  BY <1>1, <1>2 DEF HeaderNext
<1>4. HeaderOut(s, <<p, h>>) = IF HasBody(s, m, h) THEN <<SubSeq(s, m + 1, m + h.length)>> ELSE <<>>
  BY <1>1, <1>2 DEF HeaderOut
<1>5. <<p, h>> \in (0..Len(s)) \X Headers
  OBVIOUS
<1>6. CASE ~HasBody(s, m, h)
  BY <1>3, <1>4, <1>5, <1>6, FramesUnfold DEF BodyFrom
<1>7. CASE HasBody(s, m, h)
  <2>1. h.length \in Nat
    BY DEF Headers
  <2>2. <<m + h.length, NoHeader>> # <<p, h>>
    BY <2>1
  <2> QED BY <1>3, <1>4, <1>5, <1>7, <2>2, FramesUnfold DEF BodyFrom
<1> QED BY <1>6, <1>7

\* No whole header line is left.
LEMMA HeaderIsCut ==
    ASSUME NEW s \in Seq(Bytes), NEW p \in 0..Len(s), NEW h \in Headers, ~HasLine(s, p)
    PROVE  FramesOf(s)[<<p, h>>] = <<>>
<1>1. <<p, h>>[1] = p /\ <<p, h>> \in (0..Len(s)) \X Headers
  OBVIOUS
<1>2. HeaderNext(s, <<p, h>>) = <<p, h>> /\ HeaderOut(s, <<p, h>>) = <<>>
  BY <1>1 DEF HeaderNext, HeaderOut
<1> QED BY <1>1, <1>2, FramesUnfold

\* A header line that the reader may take one way or another.
LEMMA HeaderUnsure ==
    ASSUME NEW s \in Seq(Bytes), NEW p \in 0..Len(s), NEW h \in Headers, HasLine(s, p),
           NEW m, m = Min(LineFeeds(s, p)), Unsure(SubSeq(s, p + 1, m), m - p)
    PROVE  FramesOf(s)[<<p, h>>] = <<NULL>>
<1>1. <<p, h>>[1] = p /\ <<p, h>> \in (0..Len(s)) \X Headers
  OBVIOUS
<1>2. HeaderNext(s, <<p, h>>) = <<p, h>> /\ HeaderOut(s, <<p, h>>) = <<NULL>>
  BY <1>1 DEF HeaderNext, HeaderOut
<1> QED BY <1>1, <1>2, FramesUnfold

\* An overlong one is one of these.
LEMMA HeaderIsLong ==
    ASSUME NEW s \in Seq(Bytes), NEW p \in 0..Len(s), NEW h \in Headers, HasLine(s, p),
           Min(LineFeeds(s, p)) - p > MAX_HEADER + 1
    PROVE  FramesOf(s)[<<p, h>>] = <<NULL>>
<1>1. PICK m : m = Min(LineFeeds(s, p))
  OBVIOUS
<1>2. Unsure(SubSeq(s, p + 1, m), m - p)
  BY <1>1 DEF Unsure
<1> QED BY <1>1, <1>2, HeaderUnsure

\* The first line feed behind p in a piece of the text is the first in the text.
LEMMA FeedInPiece ==
    ASSUME NEW s \in Seq(Bytes), NEW a \in Nat, NEW b \in Nat,
           NEW t, Piece(t, s, a, b), NEW p \in 0..(b - a), LineFeeds(t, p) # {}
    PROVE  /\ Min(LineFeeds(t, p)) \in (p + 1)..(b - a)
           /\ LineFeeds(s, a + p) # {} /\ Min(LineFeeds(s, a + p)) = a + Min(LineFeeds(t, p))
<1>0. /\ t \in Seq(Bytes) /\ Len(t) = b - a /\ \A k \in 1..(b - a) : t[k] = s[a + k]
      /\ a <= b /\ b <= Len(s)
  BY DEF Piece
<1>1. PICK m \in (p + 1)..(b - a) : /\ m = Min(LineFeeds(t, p)) /\ t[m] = "n"
                                    /\ \A i \in (p + 1)..(m - 1) : t[i] # "n"
  <2>1. p \in 0..Len(t)
    BY <1>0
  <2>2. /\ Min(LineFeeds(t, p)) \in (p + 1)..Len(t) /\ t[Min(LineFeeds(t, p))] = "n"
        /\ \A i \in (p + 1)..(Min(LineFeeds(t, p)) - 1) : t[i] # "n"
    BY <1>0, <2>1, FirstFeed
  <2> QED BY <1>0, <2>2
<1>2. a + m \in LineFeeds(s, a + p)
  <2>1. m \in 1..(b - a) /\ a + m \in ((a + p) + 1)..Len(s)
    BY <1>0
  <2>2. s[a + m] = "n"
    BY <1>0, <1>1, <2>1
  <2> QED BY <2>1, <2>2 DEF LineFeeds
<1>3. LineFeeds(s, a + p) \in SUBSET Nat
  BY DEF LineFeeds
<1>4. ASSUME NEW i \in LineFeeds(s, a + p)
      PROVE  a + m <= i
  <2>1. i \in ((a + p) + 1)..Len(s) /\ s[i] = "n"
    BY DEF LineFeeds
  <2>2. SUFFICES ASSUME i < a + m PROVE FALSE
    BY <2>1, <1>1
  <2>3. PICK k \in (p + 1)..(m - 1) : i = a + k
    <3>1. i - a \in (p + 1)..(m - 1) /\ i = a + (i - a)
      BY <2>1, <2>2
    <3> QED BY <3>1
  <2>4. k \in 1..(b - a)
    BY <1>0
  <2>5. t[k] = "n"
    BY <1>0, <2>1, <2>3, <2>4
  <2> QED BY <1>1, <2>3, <2>5
<1>5. Min(LineFeeds(s, a + p)) = a + m
  BY <1>2, <1>3, <1>4, MinUnique
<1> QED BY <1>1, <1>2, <1>5

\* In a piece between a and b, the first line feed behind p is at m.
FirstAt(s, a, b, p, m) ==
    m \in (p + 1)..(b - a) /\ LineFeeds(s, a + p) # {} /\ Min(LineFeeds(s, a + p)) = a + m

\* The same, of a line feed that has been found.
LEMMA FeedFound ==
    ASSUME NEW s \in Seq(Bytes), NEW a \in Nat, NEW b \in Nat,
           NEW t, Piece(t, s, a, b), NEW p \in 0..(b - a), LineFeeds(t, p) # {},
           NEW m, m = Min(LineFeeds(t, p))
    PROVE  FirstAt(s, a, b, p, m)
<1>1. /\ Min(LineFeeds(t, p)) \in (p + 1)..(b - a)
      /\ LineFeeds(s, a + p) # {} /\ Min(LineFeeds(s, a + p)) = a + Min(LineFeeds(t, p))
  BY FeedInPiece
<1> QED BY <1>1, Zenon DEF FirstAt

\* Without a line feed in the piece, the next one of the text is behind it.
LEMMA NoFeedInPiece ==
    ASSUME NEW s \in Seq(Bytes), NEW a \in Nat, NEW b \in Nat,
           NEW t, Piece(t, s, a, b), NEW p \in 0..(b - a), LineFeeds(t, p) = {},
           LineFeeds(s, a + p) # {}
    PROVE  Min(LineFeeds(s, a + p)) \in (b + 1)..Len(s)
<1>0. /\ t \in Seq(Bytes) /\ Len(t) = b - a /\ \A k \in 1..(b - a) : t[k] = s[a + k]
      /\ a <= b /\ b <= Len(s)
  BY DEF Piece
<1>1. PICK m \in ((a + p) + 1)..Len(s) : m = Min(LineFeeds(s, a + p)) /\ s[m] = "n"
  <2>1. a + p \in 0..Len(s)
    BY <1>0
  <2> QED BY <2>1, FirstFeed
<1>2. SUFFICES ASSUME m <= b PROVE FALSE
  BY <1>0, <1>1
<1>3. PICK k \in (p + 1)..(b - a) : m = a + k
  <2>1. m - a \in (p + 1)..(b - a) /\ m = a + (m - a)
    BY <1>0, <1>2
  <2> QED BY <2>1
<1>4. k \in 1..(b - a) /\ k \in (p + 1)..Len(t)
  BY <1>0
<1>5. t[k] = "n"
  BY <1>0, <1>1, <1>3, <1>4
<1>6. k \in LineFeeds(t, p)
  BY <1>4, <1>5 DEF LineFeeds
<1> QED BY <1>6

\* The line feeds behind the place up to which next_ndjson has scanned.
LEMMA ScannedFeeds ==
    ASSUME NEW t \in Seq(Bytes), NEW p \in 0..Len(t), NEW q \in p..Len(t),
           \A i \in (p + 1)..q : t[i] # "n"
    PROVE  LineFeeds(t, q) = LineFeeds(t, p)
<1>1. ASSUME NEW i
      PROVE  i \in LineFeeds(t, q) <=> i \in LineFeeds(t, p)
  BY DEF LineFeeds
<1> QED BY <1>1

\* What is behind p in t, and the k bytes of s behind b, are a piece of s.
Refilled(t, s, a, b, p, k) ==
    /\ Piece(SubSeq(t, p + 1, Len(t)) \o SubSeq(s, b + 1, b + k), s, a + p, b + k)
    /\ Len(SubSeq(t, p + 1, Len(t))) = (b - a) - p

\* fill: the rest of the buffer and the bytes behind it are a piece again.
LEMMA FilledPiece ==
    ASSUME NEW s \in Seq(Bytes), NEW a \in Nat, NEW b \in Nat, NEW t, Piece(t, s, a, b),
           NEW p \in 0..(b - a), NEW k \in Nat, k <= Len(s) - b
    PROVE  Refilled(t, s, a, b, p, k)
<1>0. /\ t \in Seq(Bytes) /\ Len(t) = b - a /\ \A i \in 1..(b - a) : t[i] = s[a + i]
      /\ a <= b /\ b <= Len(s)
  BY DEF Piece
<1> DEFINE u == SubSeq(t, p + 1, Len(t))
           v == SubSeq(s, b + 1, b + k)
<1>1. u \in Seq(Bytes) /\ Len(u) = (b - a) - p /\ \A i \in 1..((b - a) - p) : u[i] = t[p + i]
  <2>1. t \in Seq(Bytes) /\ p \in 0..Len(t)
    BY <1>0
  <2>2. u \in Seq(Bytes) /\ Len(u) = Len(t) - p /\ \A i \in 1..(Len(t) - p) : u[i] = t[p + i]
    BY <2>1, PieceBytes
  <2>3. Len(t) - p = (b - a) - p
    BY <1>0
  <2> HIDE DEF u
  <2> QED BY <2>2, <2>3, Zenon
<1>2. v \in Seq(Bytes) /\ Len(v) = k /\ \A i \in 1..k : v[i] = s[b + i]
  <2>1. b + k \in Nat /\ b <= b + k /\ b + k <= Len(s) /\ (b + k) - b = k /\ 0 <= k
    BY <1>0
  <2>2. /\ SubSeq(s, b + 1, b + k) \in Seq(Bytes) /\ Len(SubSeq(s, b + 1, b + k)) = (b + k) - b
        /\ \A i \in 1..((b + k) - b) : SubSeq(s, b + 1, b + k)[i] = s[b + i]
    <3>1. 1 \in Nat /\ 0 \in Nat /\ 1 <= 0 + 1 /\ 0 <= (b + k) - b /\ 1 <= 1
      BY <2>1
    <3> QED BY <2>1, <3>1, PieceOfPiece
  <2> QED BY <2>1, <2>2
<1> HIDE DEF u, v
<1>6. /\ u \o v \in Seq(Bytes) /\ Len(u \o v) = Len(u) + Len(v)
      /\ \A i \in 1..(Len(u) + Len(v)) : (u \o v)[i] = IF i <= Len(u) THEN u[i] ELSE v[i - Len(u)]
  BY <1>1, <1>2, ConcatProperties
<1>3. u \o v \in Seq(Bytes) /\ Len(u \o v) = (b + k) - (a + p) /\ Len(u) + Len(v) = (b + k) - (a + p)
  BY <1>0, <1>1, <1>2, <1>6
<1>4. ASSUME NEW i \in 1..((b + k) - (a + p))
      PROVE  (u \o v)[i] = s[(a + p) + i]
  <2>1. CASE i <= (b - a) - p
    <3>1. i \in 1..((b - a) - p) /\ p + i \in 1..(b - a) /\ a + (p + i) = (a + p) + i
      BY <1>0, <2>1
    <3>2. (u \o v)[i] = u[i]
      BY <1>1, <1>3, <1>6, <2>1
    <3> QED BY <1>0, <1>1, <3>1, <3>2
  <2>2. CASE i > (b - a) - p
    <3>1. PICK n \in Nat : n = (b - a) - p /\ b = (a + p) + n /\ Len(u) = n
      BY <1>0, <1>1
    <3>2. i - n \in 1..k /\ i - n \in Nat /\ i = n + (i - n)
      BY <2>2, <3>1
    <3>3. PICK j \in 1..k : j = i - n /\ i = n + j
      BY <3>2
    <3>4. ~(i <= Len(u)) /\ i - Len(u) = j
      BY <3>1, <3>3
    <3>5. (u \o v)[i] = v[j]
      BY <1>3, <1>6, <3>4
    <3>6. b + j = (a + p) + i
      BY <3>1, <3>3
    <3> QED BY <1>2, <3>5, <3>6
  <2>3. i <= (b - a) - p \/ i > (b - a) - p
    OBVIOUS
  <2> QED BY <2>1, <2>2, <2>3, Zenon
<1>5. a + p <= b + k /\ b + k <= Len(s)
  BY <1>0
<1> QED BY <1>1, <1>3, <1>4, <1>5 DEF Refilled, Piece, u, v

\* The parts of t, which begins at a in s, are parts of s.
SameParts(t, s, a, b) ==
    \A i \in 0..(b - a) : \A j \in i..(b - a) :
        /\ SubSeq(t, i + 1, j) = SubSeq(s, (a + i) + 1, a + j)
        /\ SubSeq(t, i + 1, j) \in Seq(Bytes) /\ Len(SubSeq(t, i + 1, j)) = j - i

\* A part of a piece is that part of the text.
LEMMA PartsOfPiece ==
    ASSUME NEW s \in Seq(Bytes), NEW a \in Nat, NEW b \in Nat, NEW t, Piece(t, s, a, b)
    PROVE  SameParts(t, s, a, b)
<1>1. ASSUME NEW i \in 0..(b - a), NEW j \in i..(b - a)
      PROVE  /\ SubSeq(t, i + 1, j) = SubSeq(s, (a + i) + 1, a + j)
             /\ SubSeq(t, i + 1, j) \in Seq(Bytes) /\ Len(SubSeq(t, i + 1, j)) = j - i
  <2>0. /\ t \in Seq(Bytes) /\ Len(t) = b - a /\ \A k \in 1..(b - a) : t[k] = s[a + k]
        /\ a <= b /\ b <= Len(s)
    BY DEF Piece
  <2> DEFINE u == SubSeq(t, i + 1, j)
             v == SubSeq(s, (a + i) + 1, a + j)
  <2>1. u \in Seq(Bytes) /\ Len(u) = j - i /\ \A k \in 1..(j - i) : u[k] = t[i + k]
    <3>1. i \in Nat /\ j \in Nat /\ i <= j /\ j <= Len(t) /\ 1 \in Nat /\ 0 \in Nat /\ 1 <= 0 + 1 /\ 0 <= j - i /\ 1 <= 1
      BY <2>0
    <3> QED BY <2>0, <3>1, PieceOfPiece
  <2>2. v \in Seq(Bytes) /\ Len(v) = (a + j) - (a + i) /\ \A k \in 1..((a + j) - (a + i)) : v[k] = s[(a + i) + k]
    <3>1. /\ a + i \in Nat /\ a + j \in Nat /\ a + i <= a + j /\ a + j <= Len(s)
          /\ 1 \in Nat /\ 0 \in Nat /\ 1 <= 0 + 1 /\ 0 <= (a + j) - (a + i) /\ 1 <= 1
      BY <2>0
    <3> QED BY <2>0, <3>1, PieceOfPiece
  <2> HIDE DEF u, v
  <2>3. ASSUME NEW k \in 1..(j - i)
        PROVE  u[k] = v[k]
    <3>1. i + k \in 1..(b - a) /\ a + (i + k) = (a + i) + k /\ k \in 1..((a + j) - (a + i))
      BY <2>0
    <3> QED BY <2>0, <2>1, <2>2, <3>1
  <2>4. (a + j) - (a + i) = j - i
    OBVIOUS
  <2>5. u = v
    <3>1. Len(u) = Len(v) /\ \A k \in 1..Len(u) : u[k] = v[k]
      BY <2>1, <2>2, <2>3, <2>4
    <3> QED BY <2>1, <2>2, <3>1, SeqEqual
  <2> QED BY <2>1, <2>5 DEF u, v
<1> QED BY <1>1, Zenon DEF SameParts

\* The line of t from p up to the line feed at m is that of s from a + p on.
LineAt(t, s, a, b, p, m) ==
    /\ m \in (p + 1)..(b - a) /\ SubSeq(t, p + 1, m - 1) \in Seq(Bytes)
    /\ LinesOf(s)[a + p] = AsMessage(Trim(SubSeq(t, p + 1, m - 1))) \o LinesOf(s)[a + m]

\* next_ndjson finds a line: the one that the text has there.
LEMMA LineTaken ==
    ASSUME NEW s \in Seq(Bytes), NEW a \in Nat, NEW b \in Nat, NEW t, Piece(t, s, a, b),
           NEW p \in 0..(b - a), b - a <= MAX_MESSAGE, LineFeeds(t, p) # {},
           NEW m, m = Min(LineFeeds(t, p))
    PROVE  LineAt(t, s, a, b, p, m)
<1>0. a <= b /\ b <= Len(s)
  BY DEF Piece
<1>1. m \in (p + 1)..(b - a) /\ LineFeeds(s, a + p) # {} /\ Min(LineFeeds(s, a + p)) = a + m
  <2>1. FirstAt(s, a, b, p, m)
    BY FeedFound, Zenon
  <2> QED BY <2>1, Zenon DEF FirstAt
<1>2. a + p \in 0..Len(s) /\ a + m # a + p /\ m - 1 \in p..(b - a) /\ a + (m - 1) = (a + m) - 1
  BY <1>0, <1>1
<1>3. HasLine(s, a + p)
  <2>1. (a + m) - (a + p) <= MAX_MESSAGE
    BY <1>1, FramingAssumption
  <2> QED BY <1>1, <2>1 DEF HasLine
<1>4. SubSeq(t, p + 1, m - 1) = SubSeq(s, (a + p) + 1, a + (m - 1)) /\ SubSeq(t, p + 1, m - 1) \in Seq(Bytes)
  <2>1. SameParts(t, s, a, b)
    BY PartsOfPiece
  <2> QED BY <1>2, <2>1, Zenon DEF SameParts
<1>5. LineNext(s, a + p) = a + m
  BY <1>1, <1>3 DEF LineNext
<1>6. LineOut(s, a + p) = AsMessage(Trim(SubSeq(t, p + 1, m - 1)))
  BY <1>1, <1>2, <1>3, <1>4 DEF LineOut
<1>7. LinesOf(s)[a + p] = LineOut(s, a + p) \o LinesOf(s)[a + m]
  BY <1>2, <1>5, LinesUnfold
<1> QED BY <1>1, <1>4, <1>6, <1>7 DEF LineAt

\* Behind the last byte there is no line.
LEMMA NoLineAtEnd ==
    ASSUME NEW s \in Seq(Bytes)
    PROVE  LinesOf(s)[Len(s)] = <<>>
<1>1. Len(s) \in 0..Len(s) /\ LineFeeds(s, Len(s)) = {}
  BY DEF LineFeeds
<1>2. SubSeq(s, Len(s) + 1, Len(s)) = <<>>
  OBVIOUS
<1>3. Trim(<<>>) = <<>>
  <2>1. <<>> \in Seq(Bytes)
    OBVIOUS
  <2> QED BY <2>1, TrimType, Zenon
<1>4. LineOut(s, Len(s)) = <<>>
  BY <1>1, <1>2, <1>3 DEF LineOut, HasLine, AsMessage
<1>5. LineNext(s, Len(s)) = Len(s)
  BY <1>1 DEF LineNext, HasLine
<1> QED BY <1>1, <1>4, <1>5, LinesUnfold

\* End of file: what is left is the last line.
LEMMA LineLast ==
    ASSUME NEW s \in Seq(Bytes), NEW a \in Nat, NEW t, Piece(t, s, a, Len(s)),
           NEW p \in 0..(Len(s) - a), Len(s) - (a + p) < MAX_MESSAGE, LineFeeds(t, p) = {}
    PROVE  LinesOf(s)[a + p] = AsMessage(Trim(SubSeq(t, p + 1, Len(t))))
<1>0. a <= Len(s) /\ Len(t) = Len(s) - a /\ Len(s) \in Nat
  BY DEF Piece
<1>1. LineFeeds(s, a + p) = {}
  <2>1. SUFFICES ASSUME LineFeeds(s, a + p) # {} PROVE FALSE
    OBVIOUS
  <2>2. Min(LineFeeds(s, a + p)) \in (Len(s) + 1)..Len(s)
    BY <1>0, <2>1, NoFeedInPiece
  <2> QED BY <1>0, <2>2
<1>2. a + p \in 0..Len(s) /\ Len(t) \in p..(Len(s) - a) /\ a + Len(t) = Len(s)
  BY <1>0
<1>3. SubSeq(t, p + 1, Len(t)) = SubSeq(s, (a + p) + 1, a + Len(t))
  <2>1. PICK j \in p..(Len(s) - a) : j = Len(t)
    BY <1>2
  <2>2. SubSeq(t, p + 1, j) = SubSeq(s, (a + p) + 1, a + j)
    <3>1. SameParts(t, s, a, Len(s))
      BY <1>0, PartsOfPiece
    <3> QED BY <3>1, Zenon DEF SameParts
  <2> QED BY <2>1, <2>2
<1>4. LineNext(s, a + p) = a + p
  BY <1>1 DEF LineNext, HasLine
<1>5. LineOut(s, a + p) = AsMessage(Trim(SubSeq(t, p + 1, Len(t))))
  BY <1>1, <1>2, <1>3 DEF LineOut, HasLine
<1> QED BY <1>2, <1>4, <1>5, LinesUnfold

\* A line that fills the buffer is given up, and no message.
LEMMA LineGivenUp ==
    ASSUME NEW s \in Seq(Bytes), NEW a \in Nat, NEW b \in Nat, NEW t, Piece(t, s, a, b),
           NEW p \in 0..(b - a), b - (a + p) = MAX_MESSAGE, LineFeeds(t, p) = {}
    PROVE  LinesOf(s)[a + p] = <<>>
<1>0. a <= b /\ b <= Len(s) /\ Len(s) \in Nat
  BY DEF Piece
<1>1. ~HasLine(s, a + p)
  <2>1. SUFFICES ASSUME LineFeeds(s, a + p) # {}, Min(LineFeeds(s, a + p)) - (a + p) <= MAX_MESSAGE PROVE FALSE
    BY DEF HasLine
  <2>2. PICK m \in (b + 1)..Len(s) : m = Min(LineFeeds(s, a + p))
    BY <2>1, NoFeedInPiece
  <2>3. m - (a + p) <= b - (a + p)
    BY <2>1, <2>2
  <2> QED BY <1>0, <2>3
<1>2. a + p \in 0..Len(s) /\ ~(Len(s) - (a + p) < MAX_MESSAGE)
  BY <1>0
<1>3. LineNext(s, a + p) = a + p /\ LineOut(s, a + p) = <<>>
  BY <1>1, <1>2 DEF LineNext, LineOut
<1> QED BY <1>2, <1>3, LinesUnfold

\* What strtoul sees of the line of t from p on.
TextAt(t, p, past) == ValueOf(SubSeq(t, p + 1, Len(t))) \o past

\* Putting texts together.
LEMMA ConcatBytes ==
    ASSUME NEW v \in Seq(Bytes), NEW w \in Seq(Bytes)
    PROVE  /\ v \o w \in Seq(Bytes) /\ Len(v \o w) = Len(v) + Len(w)
           /\ \A i \in 1..(Len(v) + Len(w)) : (v \o w)[i] = IF i <= Len(v) THEN v[i] ELSE w[i - Len(v)]
BY ConcatProperties, Zenon

LEMMA ConcatRegrouped ==
    ASSUME NEW v \in Seq(Bytes), NEW w \in Seq(Bytes), NEW u \in Seq(Bytes)
    PROVE  (v \o w) \o u = v \o (w \o u) /\ w \o u \in Seq(Bytes)
<1>1. (v \o w) \o u = v \o (w \o u)
  BY ConcatAssociative, SMTT(40)
<1>2. w \o u \in Seq(Bytes)
  BY ConcatBytes, Zenon
<1> QED BY <1>1, <1>2, Zenon

\* rest is the line and what is behind it, w.
LineAndRest(rest, line, w, n, l) ==
    /\ n > 2 /\ Len(line) = n /\ Len(w) = l /\ Len(rest) = n + l
    /\ \A i \in 1..n : rest[i] = line[i]
    /\ \A i \in 1..l : rest[n + i] = w[i]

\* The value of a line and what is behind the line make the value of the text.
ValueJoined(rest, line, w, n) ==
    /\ ValueOf(rest) = ValueOf(line) \o w /\ Len(ValueOf(line)) = n - 2
    /\ \A i \in 1..(n - 2) : ValueOf(line)[i] = line[2 + i]

LEMMA ValueOfText ==
    ASSUME NEW rest \in Seq(Bytes), NEW line \in Seq(Bytes), NEW w \in Seq(Bytes),
           NEW n \in Nat, NEW l \in Nat, LineAndRest(rest, line, w, n, l)
    PROVE  ValueJoined(rest, line, w, n)
<1>0. /\ n > 2 /\ Len(line) = n /\ Len(w) = l /\ Len(rest) = n + l
      /\ \A i \in 1..n : rest[i] = line[i]
      /\ \A i \in 1..l : rest[n + i] = w[i]
  BY DEF LineAndRest
<1>1. PICK v \in Seq(Bytes) : v = ValueOf(line) /\ Len(v) = n - 2 /\ \A i \in 1..(n - 2) : v[i] = line[2 + i]
  <2>1. /\ ValueOf(line) \in Seq(Bytes) /\ Len(ValueOf(line)) = n - 2
        /\ \A i \in 1..(n - 2) : ValueOf(line)[i] = line[2 + i]
    <3>1. Len(line) >= 2 /\ Len(line) - 2 = n - 2
      BY <1>0
    <3>2. /\ ValueOf(line) \in Seq(Bytes) /\ Len(ValueOf(line)) = Len(line) - 2
          /\ \A i \in 1..(Len(line) - 2) : ValueOf(line)[i] = line[2 + i]
      BY <3>1, ValueType, Zenon
    <3> QED BY <3>1, <3>2, Zenon
  <2> QED BY <2>1, Zenon
<1>2. PICK r \in Seq(Bytes) : r = ValueOf(rest) /\ Len(r) = (n + l) - 2 /\ \A i \in 1..((n + l) - 2) : r[i] = rest[2 + i]
  <2>1. /\ ValueOf(rest) \in Seq(Bytes) /\ Len(ValueOf(rest)) = (n + l) - 2
        /\ \A i \in 1..((n + l) - 2) : ValueOf(rest)[i] = rest[2 + i]
    <3>1. Len(rest) >= 2 /\ Len(rest) - 2 = (n + l) - 2
      BY <1>0
    <3>2. /\ ValueOf(rest) \in Seq(Bytes) /\ Len(ValueOf(rest)) = Len(rest) - 2
          /\ \A i \in 1..(Len(rest) - 2) : ValueOf(rest)[i] = rest[2 + i]
      BY <3>1, ValueType, Zenon
    <3> QED BY <3>1, <3>2, Zenon
  <2> QED BY <2>1, Zenon
<1>3. PICK c \in Seq(Bytes) :
        /\ c = v \o w /\ Len(c) = (n - 2) + l
        /\ \A i \in 1..((n - 2) + l) : c[i] = IF i <= n - 2 THEN v[i] ELSE w[i - (n - 2)]
  <2>1. PICK c \in Seq(Bytes) :
          /\ c = v \o w /\ Len(c) = Len(v) + Len(w)
          /\ \A i \in 1..(Len(v) + Len(w)) : c[i] = IF i <= Len(v) THEN v[i] ELSE w[i - Len(v)]
    BY ConcatBytes, Zenon
  <2>2. Len(v) = n - 2 /\ Len(w) = l
    BY <1>0, <1>1
  <2>3. Len(c) = (n - 2) + l
    BY <2>1, <2>2
  <2>4. \A i \in 1..((n - 2) + l) : c[i] = IF i <= n - 2 THEN v[i] ELSE w[i - (n - 2)]
    BY <2>1, <2>2
  <2> QED BY <2>1, <2>3, <2>4, Zenon
<1>4. ASSUME NEW i \in 1..((n - 2) + l) PROVE r[i] = c[i]
  <2>1. i \in 1..((n + l) - 2) /\ r[i] = rest[2 + i]
    BY <1>2
  <2>2. CASE i <= n - 2
    <3>1. 2 + i \in 1..n /\ i \in 1..(n - 2)
      BY <1>0, <2>2
    <3> QED BY <1>0, <1>1, <1>3, <2>1, <2>2, <3>1
  <2>3. CASE i > n - 2
    <3>1. i - (n - 2) \in 1..l /\ n + (i - (n - 2)) = 2 + i
      BY <1>0, <2>3
    <3>2. ~(i <= n - 2)
      BY <2>3
    <3>3. c[i] = w[i - (n - 2)]
      BY <1>3, <3>2, Zenon
    <3>4. w[i - (n - 2)] = rest[n + (i - (n - 2))]
      BY <1>0, <3>1
    <3> QED BY <2>1, <3>1, <3>3, <3>4, Zenon
  <2> QED BY <1>0, <2>2, <2>3
<1>5. r = c
  <2>1. Len(r) = Len(c) /\ \A i \in 1..Len(r) : r[i] = c[i]
    BY <1>2, <1>3, <1>4, SMTT(30)
  <2> QED BY <2>1, SeqEqual, Zenon
<1> QED BY <1>1, <1>2, <1>3, <1>5, Zenon DEF ValueJoined

\* A line of t whose value is not empty: what is behind it does not matter.
LineIn(t, p, m, line) ==
    /\ p \in 0..Len(t) /\ m \in (p + 1)..Len(t) /\ t[m] = "n" /\ line = SubSeq(t, p + 1, m)
    /\ IsLength(line) => Trim(ValueOf(line)) # <<>>

LEMMA TextOfLine ==
    ASSUME NEW t \in Seq(Bytes), NEW p, NEW m, NEW line, NEW past \in Seq(Bytes), NEW h,
           LineIn(t, p, m, line)
    PROVE  /\ TextAt(t, p, past) \in Seq(Bytes)
           /\ WithHeader(h, line, TextAt(t, p, past)) = WithHeader(h, line, ValueOf(line))
<1>9. /\ p \in 0..Len(t) /\ m \in (p + 1)..Len(t) /\ t[m] = "n" /\ line = SubSeq(t, p + 1, m)
      /\ IsLength(line) => Trim(ValueOf(line)) # <<>>
  BY Zenon DEF LineIn
<1>0. Len(t) \in Nat /\ p \in Nat /\ m \in Nat /\ p < m /\ m <= Len(t) /\ p <= m /\ p <= Len(t)
  BY <1>9
<1>1. PICK rest \in Seq(Bytes) : rest = SubSeq(t, p + 1, Len(t)) /\ Len(rest) = Len(t) - p
                                 /\ \A i \in 1..(Len(t) - p) : rest[i] = t[p + i]
  BY <1>9, PieceBytes
<1>2. line \in Seq(Bytes) /\ Len(line) = m - p /\ \A i \in 1..(m - p) : line[i] = t[p + i]
  BY <1>0, <1>9, PartBytes
<1>3. PICK w \in Seq(Bytes) : w = SubSeq(t, m + 1, Len(t)) /\ Len(w) = Len(t) - m
                              /\ \A i \in 1..(Len(t) - m) : w[i] = t[m + i]
  <2>1. m \in 0..Len(t)
    BY <1>0
  <2> QED BY <2>1, PieceBytes
<1>4. ValueOf(rest) \in Seq(Bytes) /\ ValueOf(line) \in Seq(Bytes)
  BY <1>2, ValueType
<1>5. TextAt(t, p, past) = ValueOf(rest) \o past /\ TextAt(t, p, past) \in Seq(Bytes)
  BY <1>1, <1>4, ConcatBytes, Zenon DEF TextAt
<1>6. CASE ~IsLength(line)
  BY <1>5, <1>6 DEF WithHeader
<1>7. CASE IsLength(line)
  <2>1. PICK n \in Nat, l \in Nat : n = m - p /\ l = Len(t) - m
    <3>1. m - p \in Nat /\ Len(t) - m \in Nat
      BY <1>0
    <3> QED BY <3>1, Zenon
  <2>2. n > 2
    <3>1. Len(CL_KEY) = 2
      BY DEF CL_KEY
    <3> QED BY <1>2, <1>7, <2>1, <3>1 DEF IsLength
  <2>3. Len(line) = n /\ Len(w) = l /\ Len(rest) = n + l
    <3>1. Len(t) - p = (m - p) + (Len(t) - m)
      BY <1>0
    <3> QED BY <1>1, <1>2, <1>3, <2>1, <3>1
  <2>4. \A i \in 1..n : rest[i] = line[i]
    <3>1. \A i \in 1..n : i \in 1..(m - p) /\ i \in 1..(Len(t) - p)
      BY <1>0, <2>1
    <3> QED BY <1>1, <1>2, <3>1, Zenon
  <2>5. \A i \in 1..l : rest[n + i] = w[i]
    <3>1. \A i \in 1..l : i \in 1..(Len(t) - m) /\ n + i \in 1..(Len(t) - p) /\ p + (n + i) = m + i
      BY <1>0, <2>1
    <3>2. \A i \in 1..l : rest[n + i] = t[p + (n + i)] /\ w[i] = t[m + i]
      BY <1>1, <1>3, <3>1, Zenon
    <3> QED BY <3>1, <3>2, Zenon
  <2>6. /\ ValueOf(rest) = ValueOf(line) \o w /\ Len(ValueOf(line)) = n - 2
        /\ \A i \in 1..(n - 2) : ValueOf(line)[i] = line[2 + i]
    <3>1. LineAndRest(rest, line, w, n, l)
      BY <2>2, <2>3, <2>4, <2>5, Zenon DEF LineAndRest
    <3>2. line \in Seq(Bytes)
      BY <1>2
    <3>3. ValueJoined(rest, line, w, n)
      BY <3>1, <3>2, ValueOfText
    <3> QED BY <3>3, Zenon DEF ValueJoined
  <2>7. TextAt(t, p, past) = ValueOf(line) \o (w \o past) /\ w \o past \in Seq(Bytes)
    <3>1. TextAt(t, p, past) = (ValueOf(line) \o w) \o past
      BY <1>5, <2>6, Zenon
    <3>2. (ValueOf(line) \o w) \o past = ValueOf(line) \o (w \o past) /\ w \o past \in Seq(Bytes)
      <4>1. ValueOf(line) \in Seq(Bytes)
        BY <1>4
      <4> QED BY <4>1, ConcatRegrouped, SMTT(30)
    <3> QED BY <3>1, <3>2, Zenon
  <2>8. Len(ValueOf(line)) >= 1 /\ ValueOf(line)[Len(ValueOf(line))] = "n"
    <3>1. n - 2 \in 1..(n - 2) /\ 2 + (n - 2) = n /\ n \in 1..n /\ n - 2 >= 1
      BY <2>2
    <3>2. p + (m - p) = m /\ m - p \in 1..(m - p)
      BY <1>0
    <3>3. ValueOf(line)[n - 2] = line[n] /\ line[n] = t[m]
      BY <1>2, <2>1, <2>6, <3>1, <3>2, Zenon
    <3>4. Len(ValueOf(line)) = n - 2
      BY <2>6
    <3> QED BY <1>9, <3>1, <3>3, <3>4, Zenon
  <2>9. strtoul(TextAt(t, p, past)) = strtoul(ValueOf(line))
    BY <1>4, <1>7, <1>9, <2>7, <2>8, StrtoulOfLine, ZenonT(60)
  <2> QED BY <1>5, <2>9 DEF WithHeader
<1> QED BY <1>6, <1>7

\* So is the header line, and what h and the frames behind it come to.
HeaderAt(t, s, a, b, p, m, h, past) ==
    /\ m \in (p + 1)..(b - a) /\ SubSeq(t, p + 1, m) \in Seq(Bytes) /\ TextAt(t, p, past) \in Seq(Bytes)
    /\ FramesOf(s)[<<a + p, h>>] # <<NULL>> =>
         FramesOf(s)[<<a + p, h>>] =
           IF EndOfHeaders(h, SubSeq(t, p + 1, m)) THEN BodyFrom(s, a + m, h)
           ELSE FramesOf(s)[<<a + m, WithHeader(h, SubSeq(t, p + 1, m), TextAt(t, p, past))>>]

\* next_content_length takes a header line: the one that the text has there.
LEMMA HeaderTaken ==
    ASSUME NEW s \in Seq(Bytes), NEW a \in Nat, NEW b \in Nat, NEW t, Piece(t, s, a, b),
           NEW p \in 0..(b - a), b - a <= MAX_MESSAGE, LineFeeds(t, p) # {},
           NEW m, m = Min(LineFeeds(t, p)), NEW h \in Headers, NEW past \in Past
    PROVE  HeaderAt(t, s, a, b, p, m, h, past)
<1>0. a <= b /\ b <= Len(s) /\ t \in Seq(Bytes) /\ Len(t) = b - a /\ past \in Seq(Bytes)
  BY FramingAssumption DEF Piece
<1>1. m \in (p + 1)..(b - a) /\ LineFeeds(s, a + p) # {} /\ Min(LineFeeds(s, a + p)) = a + m
  <2>1. FirstAt(s, a, b, p, m)
    BY FeedFound, Zenon
  <2> QED BY <2>1, Zenon DEF FirstAt
<1>2. /\ a + p \in 0..Len(s) /\ a + m \in ((a + p) + 1)..Len(s) /\ m \in p..(b - a)
      /\ (a + m) - (a + p) <= MAX_MESSAGE
  BY <1>0, <1>1, FramingAssumption, SMTT(40)
<1>9. PICK line : line = SubSeq(t, p + 1, m)
  OBVIOUS
<1>3. line = SubSeq(s, (a + p) + 1, a + m) /\ line \in Seq(Bytes)
  <2>1. SameParts(t, s, a, b)
    BY PartsOfPiece
  <2> QED BY <1>2, <1>9, <2>1, Zenon DEF SameParts
<1>4. TextAt(t, p, past) \in Seq(Bytes)
  <2>1. SubSeq(t, p + 1, Len(t)) \in Seq(Bytes)
    BY <1>0
  <2> QED BY <1>0, <2>1, ValueType, ConcatProperties DEF TextAt
<1>5. SUFFICES ASSUME FramesOf(s)[<<a + p, h>>] # <<NULL>>
      PROVE  FramesOf(s)[<<a + p, h>>] =
               IF EndOfHeaders(h, line) THEN BodyFrom(s, a + m, h)
               ELSE FramesOf(s)[<<a + m, WithHeader(h, line, TextAt(t, p, past))>>]
  BY <1>1, <1>3, <1>4, <1>9 DEF HeaderAt
<1>6. ~Unsure(line, (a + m) - (a + p))
  <2>1. SUFFICES ASSUME Unsure(line, (a + m) - (a + p)) PROVE FALSE
    OBVIOUS
  <2>2. HasLine(s, a + p)
    BY <1>1, <1>2 DEF HasLine
  <2> QED BY <1>1, <1>2, <1>3, <1>5, <2>1, <2>2, HeaderUnsure
<1>7. CASE EndOfHeaders(h, line)
  BY <1>1, <1>2, <1>3, <1>6, <1>7, HeaderGoesToBody
<1>8. CASE ~EndOfHeaders(h, line)
  <2>1. FramesOf(s)[<<a + p, h>>] = FramesOf(s)[<<a + m, WithHeader(h, line, ValueOf(line))>>]
    <3>1. LineOfHeader(s, a + p, h, a + m, line)
      BY <1>1, <1>2, <1>3, <1>6, <1>8, Zenon DEF LineOfHeader
    <3> QED BY <3>1, HeaderGoesOn
  <2>2. IsLength(line) => Trim(ValueOf(line)) # <<>>
    BY <1>6 DEF Unsure
  <2>3. t[m] = "n"
    <3>1. p \in 0..Len(t)
      BY <1>0
    <3> QED BY <1>0, <3>1, FirstFeed
  <2>4. p \in 0..Len(t) /\ m \in (p + 1)..Len(t)
    BY <1>0, <1>1
  <2>5. WithHeader(h, line, TextAt(t, p, past)) = WithHeader(h, line, ValueOf(line))
    <3>1. LineIn(t, p, m, line)
      BY <1>9, <2>2, <2>3, <2>4, Zenon DEF LineIn
    <3>2. t \in Seq(Bytes) /\ past \in Seq(Bytes)
      BY <1>0
    <3> QED BY <3>1, <3>2, TextOfLine
  <2> QED BY <1>8, <2>1, <2>5
<1> QED BY <1>7, <1>8

\* A header line that is overlong, does not fit or is cut by the end of file.
LEMMA HeaderGivenUp ==
    ASSUME NEW s \in Seq(Bytes), NEW a \in Nat, NEW b \in Nat, NEW t, Piece(t, s, a, b),
           NEW p \in 0..(b - a), LineFeeds(t, p) = {}, NEW h \in Headers,
           b - (a + p) > MAX_HEADER \/ b - (a + p) = MAX_MESSAGE \/ b = Len(s),
           FramesOf(s)[<<a + p, h>>] # <<NULL>>
    PROVE  FramesOf(s)[<<a + p, h>>] = <<>>
<1>0. a <= b /\ b <= Len(s) /\ Len(s) \in Nat /\ a + p \in 0..Len(s)
  BY DEF Piece
<1>1. ~HasLine(s, a + p)
  <2>1. SUFFICES ASSUME HasLine(s, a + p) PROVE FALSE
    OBVIOUS
  <2>2. PICK m \in (b + 1)..Len(s) : m = Min(LineFeeds(s, a + p)) /\ m - (a + p) <= MAX_MESSAGE
    BY <2>1, NoFeedInPiece DEF HasLine
  <2>3. b - (a + p) > MAX_HEADER
    <3>1. CASE b = Len(s)
      BY <1>0, <2>2, <3>1
    <3>2. CASE b - (a + p) = MAX_MESSAGE
      <4>1. m - (a + p) <= b - (a + p)
        BY <2>2, <3>2
      <4> QED BY <1>0, <2>2, <4>1
    <3> QED BY <3>1, <3>2
  <2>4. m - (a + p) > MAX_HEADER + 1
    BY <1>0, <2>2, <2>3, FramingAssumption, SMTT(30)
  <2> QED BY <1>0, <2>1, <2>2, <2>4, HeaderIsLong
<1> QED BY <1>0, <1>1, HeaderIsCut

\* And the body, with the frames behind it.
BodyAt(t, s, a, b, p, h) ==
    /\ h.length \in 1..((b - a) - p) /\ SubSeq(SubSeq(t, p + 1, Len(t)), 1, h.length) \in Seq(Bytes)
    /\ SubSeq(SubSeq(t, p + 1, Len(t)), 1, h.length) # <<>>
    /\ BodyFrom(s, a + p, h) = <<SubSeq(SubSeq(t, p + 1, Len(t)), 1, h.length)>>
                                  \o FramesOf(s)[<<a + (p + h.length), NoHeader>>]

\* The body is in the buffer.
LEMMA BodyIsThere ==
    ASSUME NEW s \in Seq(Bytes), NEW a \in Nat, NEW b \in Nat, NEW t, Piece(t, s, a, b),
           NEW p \in 0..(b - a), NEW h \in Headers, GoodLength(h), Len(SubSeq(t, p + 1, Len(t))) >= h.length
    PROVE  BodyAt(t, s, a, b, p, h)
<1>0. a <= b /\ b <= Len(s) /\ Len(t) = b - a /\ t \in Seq(Bytes)
  BY DEF Piece
<1>1. PICK n \in Nat : n = h.length /\ 1 <= n
  BY FramingAssumption DEF GoodLength, Headers
<1>2. Len(SubSeq(t, p + 1, Len(t))) = Len(t) - p
  BY <1>0, PieceBytes
<1>3. n \in 1..((b - a) - p) /\ p + n \in p..(b - a) /\ a + (p + n) = (a + p) + n /\ a + (p + n) <= Len(s)
  BY <1>0, <1>1, <1>2, SMTT(40)
<1>4. SubSeq(SubSeq(t, p + 1, Len(t)), 1, n) = SubSeq(t, p + 1, p + n)
  <2>1. p \in Nat /\ Len(t) \in Nat /\ p <= Len(t) /\ 1 \in Nat /\ n \in Nat /\ 1 <= 1 /\ 1 <= n + 1 /\ n <= Len(t) - p
    BY <1>0, <1>3
  <2>2. SubSeq(SubSeq(t, p + 1, Len(t)), 1, n) = SubSeq(t, p + 1, p + n)
    BY <1>0, <2>1, PieceOfPiece
  <2> QED BY <2>2
<1>5. SubSeq(t, p + 1, p + n) = SubSeq(s, (a + p) + 1, a + (p + n)) /\ SubSeq(t, p + 1, p + n) \in Seq(Bytes)
      /\ Len(SubSeq(t, p + 1, p + n)) = n
  <2>1. PICK j \in p..(b - a) : j = p + n /\ j - p = n
    BY <1>3
  <2>2. SubSeq(t, p + 1, j) = SubSeq(s, (a + p) + 1, a + j) /\ SubSeq(t, p + 1, j) \in Seq(Bytes)
        /\ Len(SubSeq(t, p + 1, j)) = j - p
    <3>1. SameParts(t, s, a, b)
      BY PartsOfPiece
    <3> QED BY <3>1, Zenon DEF SameParts
  <2> QED BY <2>1, <2>2
<1>6. SubSeq(t, p + 1, p + n) # <<>>
  <2>1. ASSUME NEW u \in Seq(Bytes), Len(u) = n
        PROVE  u # <<>>
    BY <1>1, <2>1
  <2> QED BY <1>5, <2>1
<1>7. HasBody(s, a + p, h)
  BY <1>1, <1>3 DEF HasBody
<1>8. BodyFrom(s, a + p, h) = <<SubSeq(s, (a + p) + 1, (a + p) + n)>> \o FramesOf(s)[<<(a + p) + n, NoHeader>>]
  BY <1>1, <1>7 DEF BodyFrom
<1> QED BY <1>1, <1>3, <1>4, <1>5, <1>6, <1>8 DEF BodyAt

\* There is no body, or the end of file cuts it.
LEMMA BodyIsCut ==
    ASSUME NEW s \in Seq(Bytes), NEW p \in 0..Len(s), NEW h \in Headers,
           ~GoodLength(h) \/ Len(s) - p < h.length
    PROVE  BodyFrom(s, p, h) = <<>>
<1>1. h.length \in Nat
  BY DEF Headers
<1> QED BY <1>1 DEF BodyFrom, HasBody

-----------------------------------------------------------------------------
(***************************************************************************)
(* The invariant of the up pump.                                           *)
(***************************************************************************)
\* Where the reader is in the input.
At == (given - Len(buf)) + pos

\* The types of what the reader keeps.
ReaderTypes ==
    /\ closed \in BOOLEAN /\ eof \in BOOLEAN /\ scan \in Nat
    /\ framing \in {UNKNOWN, NDJSON, CONTENT_LENGTH}
    /\ rpc \in {"idle", "detect", "line", "header", "body", "ret"}
    /\ header \in Headers /\ body \in Seq(Bytes)
    /\ upc \in {"next", "header", "body", "done"}

\* The buffer is the piece of the input that ends where read is.
Window ==
    /\ input \in Inputs
    /\ given \in 0..Len(input.bytes) /\ Len(buf) <= given
    /\ Piece(buf, input.bytes, given - Len(buf), given)
    /\ Len(buf) <= MAX_MESSAGE /\ pos \in 0..Len(buf)

\* The end of file is seen only there, and with room in the buffer.
EndSeen == eof => given = Len(input.bytes) /\ Len(buf) - pos < MAX_MESSAGE

\* next_ndjson has found no line feed so far.
Scanned == rpc = "line" => scan \in pos..Len(buf) /\ \A i \in (pos + 1)..scan : buf[i] # "n"

\* The up pump, at u with the reader at r, has the message m in hand.
InHand(u, r, m) == u \in {"header", "body"} \/ (r = "ret" /\ m # NULL)

\* The framing that the reader works in is that of the whole input.
Framed ==
    /\ framing # UNKNOWN => framing = FramingOf(input.bytes)
    /\ rpc = "detect" => framing = UNKNOWN /\ header = NoHeader
    /\ rpc = "line" => framing = NDJSON
    /\ rpc \in {"header", "body"} => framing = CONTENT_LENGTH
    /\ InHand(upc, rpc, body) => framing # UNKNOWN /\ body # NULL
    /\ framing = UNKNOWN /\ rpc \in {"idle", "detect"} /\ upc = "next" =>
         SkipFrom(input.bytes, At) = SkipFrom(input.bytes, 0)
    /\ upc # "next" => rpc = "idle"

ReaderInv == ReaderTypes /\ Window /\ EndSeen /\ Scanned /\ Framed

\* The messages that the server has still to get, by where the up pump and the
\* reader are: framing f, message m, headers h, at position p of the input s.
TodoOf(u, r, f, m, h, s, p) ==
    CASE InHand(u, r, m) -> <<m>> \o MessagesFrom(s, f, p)
      [] u = "next" /\ r = "ret" /\ m = NULL -> <<>>
      [] u = "next" /\ r \in {"idle", "detect"} /\ f = UNKNOWN -> MessagesOf(s)
      [] u = "next" /\ r = "idle" /\ f # UNKNOWN -> MessagesFrom(s, f, p)
      [] u = "next" /\ r = "line" -> LinesOf(s)[p]
      [] u = "next" /\ r = "header" -> FramesOf(s)[<<p, h>>]
      [] u = "next" /\ r = "body" -> BodyFrom(s, p, h)

Todo == TodoOf(upc, rpc, framing, body, header, input.bytes, At)

\* A message that is being written, and those behind it.
LEMMA TodoInHand ==
    ASSUME NEW f, NEW m, NEW h, NEW s, NEW p, NEW r, NEW u \in {"header", "body"}
    PROVE  TodoOf(u, r, f, m, h, s, p) = <<m>> \o MessagesFrom(s, f, p)
BY DEF TodoOf, InHand

\* A message that the reader returns, and those behind it.
LEMMA TodoRet ==
    ASSUME NEW f, NEW m, NEW h, NEW s, NEW p, m # NULL
    PROVE  TodoOf("next", "ret", f, m, h, s, p) = <<m>> \o MessagesFrom(s, f, p)
BY DEF TodoOf, InHand

\* Nothing is left.
LEMMA TodoNull ==
    ASSUME NEW f, NEW m, NEW h, NEW s, NEW p, m = NULL
    PROVE  TodoOf("next", "ret", f, m, h, s, p) = <<>>
BY DEF TodoOf, InHand

\* Before the framing is known: all messages.
LEMMA TodoFirst ==
    ASSUME NEW f, NEW m, NEW h, NEW s, NEW p, f = UNKNOWN, NEW r \in {"idle", "detect"}
    PROVE  TodoOf("next", r, f, m, h, s, p) = MessagesOf(s)
BY DEF TodoOf, InHand

\* Between two messages.
LEMMA TodoIdle ==
    ASSUME NEW f, NEW m, NEW h, NEW s, NEW p, f # UNKNOWN
    PROVE  TodoOf("next", "idle", f, m, h, s, p) = MessagesFrom(s, f, p)
BY DEF TodoOf, InHand

\* In next_ndjson.
LEMMA TodoLine ==
    ASSUME NEW f, NEW m, NEW h, NEW s, NEW p
    PROVE  TodoOf("next", "line", f, m, h, s, p) = LinesOf(s)[p]
BY DEF TodoOf, InHand

\* In the headers of next_content_length.
LEMMA TodoHeader ==
    ASSUME NEW f, NEW m, NEW h, NEW s, NEW p
    PROVE  TodoOf("next", "header", f, m, h, s, p) = FramesOf(s)[<<p, h>>]
BY DEF TodoOf, InHand

\* In its body.
LEMMA TodoBody ==
    ASSUME NEW f, NEW m, NEW h, NEW s, NEW p
    PROVE  TodoOf("next", "body", f, m, h, s, p) = BodyFrom(s, p, h)
BY DEF TodoOf, InHand

\* The input of the client is a text, and says what it means.
LEMMA InputIs ==
    ASSUME input \in Inputs
    PROVE  /\ input.bytes \in Seq(Bytes) /\ Len(input.bytes) \in Nat
           /\ input.msgs = MessagesOf(input.bytes)
           /\ input.msgs # <<>> => input.framing = FramingOf(input.bytes)
<1>1. /\ input.bytes \in Seq(Bytes) /\ input.msgs = MessagesOf(input.bytes)
      /\ input.msgs # <<>> => input.framing = FramingOf(input.bytes)
  BY InputAssumption, Zenon
<1>2. \A s \in Seq(Bytes) : Len(s) \in Nat
  OBVIOUS
<1> QED BY <1>1, <1>2, Zenon

\* The buffer and the position in it, as numbers.
LEMMA WindowIs ==
    ASSUME Window
    PROVE  \E a \in Nat, b \in Nat, p \in Nat :
             /\ b = given /\ a = given - Len(buf) /\ p = pos /\ Len(buf) = b - a /\ p \in 0..(b - a)
             /\ Piece(buf, input.bytes, a, b) /\ b - a <= MAX_MESSAGE /\ a <= b /\ b <= Len(input.bytes)
             /\ buf \in Seq(Bytes) /\ At = a + p
<1>1. input.bytes \in Seq(Bytes) /\ Len(input.bytes) \in Nat
  BY InputIs DEF Window
<1>2. buf \in Seq(Bytes) /\ Len(buf) \in Nat
  <2>1. buf \in Seq(Bytes)
    BY DEF Window, Piece
  <2>2. \A s \in Seq(Bytes) : Len(s) \in Nat
    OBVIOUS
  <2> QED BY <2>1, <2>2
<1>3. given \in Nat /\ given <= Len(input.bytes) /\ Len(buf) <= given /\ pos \in 0..Len(buf) /\ Len(buf) <= MAX_MESSAGE
  BY <1>1 DEF Window
<1>4. PICK a \in Nat : a = given - Len(buf) /\ Len(buf) = given - a /\ a <= given
  BY <1>2, <1>3
<1>5. Piece(buf, input.bytes, a, given)
  BY <1>4 DEF Window
<1>6. pos \in Nat
  BY <1>2, <1>3
<1> QED BY <1>2, <1>3, <1>4, <1>5, <1>6 DEF At

\* A buffer that is such a piece again.
LEMMA WindowAgain ==
    ASSUME Window, input' = input, NEW a \in Nat, NEW b \in Nat, given' = b,
           Piece(buf', input.bytes, a, b), b - a <= MAX_MESSAGE, pos' \in 0..(b - a)
    PROVE  Window' /\ At' = a + pos'
<1>1. Len(input.bytes) \in Nat
  BY InputIs DEF Window
<1>2. Len(buf') = b - a /\ a <= b /\ b <= Len(input.bytes)
  BY DEF Piece
<1>3. b - Len(buf') = a
  BY <1>2
<1>4. At' = a + pos'
  BY <1>3 DEF At
<1>5. Window'
  <2>1. input' \in Inputs
    BY DEF Window
  <2>2. given' \in 0..Len(input'.bytes) /\ Len(buf') <= given'
    BY <1>1, <1>2
  <2>3. Piece(buf', input'.bytes, given' - Len(buf'), given')
    BY <1>3
  <2>4. Len(buf') <= MAX_MESSAGE /\ pos' \in 0..Len(buf')
    BY <1>2
  <2> QED BY <2>1, <2>2, <2>3, <2>4 DEF Window
<1> QED BY <1>4, <1>5

\* fill moves the bytes behind q to the front of the buffer and reads k more.
LEMMA FillKeepsWindow ==
    ASSUME ReaderInv, input' = input, NEW q \in pos..Len(buf), NEW k \in Nat,
           Filled(SubSeq(buf, q + 1, Len(buf)), k)
    PROVE  /\ Window' /\ EndSeen' /\ eof' = eof /\ At' = (given - Len(buf)) + q
           /\ pos' = 0 /\ Len(SubSeq(buf, q + 1, Len(buf))) = Len(buf) - q
           /\ Len(buf') = (Len(buf) - q) + k /\ \A i \in 1..(Len(buf) - q) : buf'[i] = buf[q + i]
<1>1. Window
  BY DEF ReaderInv
<1>2. PICK a \in Nat, b \in Nat, p \in Nat :
             /\ b = given /\ a = given - Len(buf) /\ p = pos /\ Len(buf) = b - a /\ p \in 0..(b - a)
             /\ Piece(buf, input.bytes, a, b) /\ b - a <= MAX_MESSAGE /\ a <= b /\ b <= Len(input.bytes)
             /\ buf \in Seq(Bytes) /\ At = a + p
  BY <1>1, WindowIs
<1>3. input.bytes \in Seq(Bytes) /\ Len(input.bytes) \in Nat
  BY <1>1, InputIs DEF Window
<1>4. /\ ~eof /\ k <= Len(input.bytes) - given /\ Len(SubSeq(buf, q + 1, Len(buf))) + k <= MAX_MESSAGE
      /\ buf' = SubSeq(buf, q + 1, Len(buf)) \o SubSeq(input.bytes, given + 1, given + k)
      /\ pos' = 0 /\ given' = given + k /\ eof' = eof
  BY DEF Filled
<1>5. q \in 0..(b - a) /\ k <= Len(input.bytes) - b
  BY <1>2, <1>4
<1>6. Piece(SubSeq(buf, q + 1, Len(buf)) \o SubSeq(input.bytes, b + 1, b + k), input.bytes, a + q, b + k)
      /\ Len(SubSeq(buf, q + 1, Len(buf))) = (b - a) - q
  <2>1. Refilled(buf, input.bytes, a, b, q, k)
    BY <1>2, <1>3, <1>5, FilledPiece, SMTT(40)
  <2> QED BY <2>1 DEF Refilled
<1>7. Piece(buf', input.bytes, a + q, b + k)
  BY <1>2, <1>4, <1>6
<1>8. a + q \in Nat /\ b + k \in Nat /\ (b + k) - (a + q) = ((b - a) - q) + k /\ 0 \in 0..((b + k) - (a + q))
  BY <1>2, <1>5
<1>9. (b + k) - (a + q) <= MAX_MESSAGE
  BY <1>4, <1>6, <1>8
<1>10. Window' /\ At' = (a + q) + 0
  BY <1>1, <1>2, <1>4, <1>7, <1>8, <1>9, WindowAgain
<1>11. EndSeen'
  BY <1>4 DEF EndSeen
<1>12. Len(buf') = (b + k) - (a + q) /\ \A i \in 1..((b + k) - (a + q)) : buf'[i] = input.bytes[(a + q) + i]
  BY <1>7 DEF Piece
<1>13. ASSUME NEW i \in 1..(Len(buf) - q)
       PROVE  buf'[i] = buf[q + i]
  <2>1. i \in 1..((b + k) - (a + q)) /\ q + i \in 1..(b - a) /\ a + (q + i) = (a + q) + i
    BY <1>2, <1>5
  <2>2. \A j \in 1..(b - a) : buf[j] = input.bytes[a + j]
    BY <1>2 DEF Piece
  <2> QED BY <1>12, <2>1, <2>2
<1>14. Len(buf') = (Len(buf) - q) + k
  BY <1>2, <1>8, <1>12
<1>15. At' = (given - Len(buf)) + q /\ Len(SubSeq(buf, q + 1, Len(buf))) = Len(buf) - q
  <2>1. At' = a + q
    BY <1>5, <1>10
  <2>2. a = given - Len(buf) /\ b - a = Len(buf)
    BY <1>2
  <2> QED BY <1>6, <2>1, <2>2
<1> QED BY <1>4, <1>10, <1>11, <1>13, <1>14, <1>15

\* Why fill fails, with the bytes behind q in the buffer.
LEMMA FillFailsWhen ==
    ASSUME ReaderInv, NEW q \in pos..Len(buf), FillFails(SubSeq(buf, q + 1, Len(buf)))
    PROVE  /\ Len(SubSeq(buf, q + 1, Len(buf))) = Len(buf) - q
           /\ eof' \in BOOLEAN
           /\ eof' => given = Len(input.bytes) /\ Len(buf) - q < MAX_MESSAGE
           /\ ~eof' => Len(buf) - q = MAX_MESSAGE
<1>1. Window /\ EndSeen
  BY DEF ReaderInv
<1>2. /\ buf \in Seq(Bytes) /\ Len(buf) \in Nat /\ pos \in Nat /\ pos <= Len(buf) /\ Len(buf) <= MAX_MESSAGE
  BY <1>1, WindowIs
<1>3. q \in 0..Len(buf)
  BY <1>2
<1>4. Len(SubSeq(buf, q + 1, Len(buf))) = Len(buf) - q
  BY <1>2, <1>3, PieceBytes
<1>5. /\ eof \/ Len(buf) - q = MAX_MESSAGE \/ (closed /\ given = Len(input.bytes))
      /\ eof' = (eof \/ Len(buf) - q < MAX_MESSAGE)
  BY <1>4 DEF FillFails
<1>6. eof => given = Len(input.bytes) /\ Len(buf) - q < MAX_MESSAGE
  BY <1>1, <1>2, <1>3, FramingAssumption DEF EndSeen
<1>7. eof' \in BOOLEAN /\ (eof' <=> eof \/ Len(buf) - q < MAX_MESSAGE)
  BY <1>5
<1>8. ~(Len(buf) - q < MAX_MESSAGE) => Len(buf) - q = MAX_MESSAGE
  BY <1>2, <1>3, FramingAssumption
<1>9. Len(buf) - q < MAX_MESSAGE => Len(buf) - q # MAX_MESSAGE
  BY <1>2, <1>3, FramingAssumption
<1> QED BY <1>4, <1>5, <1>6, <1>7, <1>8, <1>9, Zenon

\* detect has decided.
LEMMA DetectDecidesKeeps ==
    ASSUME ReaderInv, input' = input, closed' = closed, upc = "next", upc' = upc, DetectDecides
    PROVE  ReaderInv' /\ Todo' = Todo
<1>1. Window /\ ReaderTypes /\ EndSeen /\ Framed
  BY DEF ReaderInv
<1>2. PICK a \in Nat, b \in Nat, p \in Nat :
             /\ b = given /\ a = given - Len(buf) /\ p = pos /\ Len(buf) = b - a /\ p \in 0..(b - a)
             /\ Piece(buf, input.bytes, a, b) /\ b - a <= MAX_MESSAGE /\ a <= b /\ b <= Len(input.bytes)
             /\ buf \in Seq(Bytes) /\ At = a + p
  BY <1>1, WindowIs
<1>3. input.bytes \in Seq(Bytes) /\ Len(input.bytes) \in Nat
  BY <1>1, InputIs DEF Window
<1>4. PICK e \in p..(b - a) : e = SkipFrom(buf, pos)
  BY <1>2, SkipEnds
<1>5. /\ rpc = "detect" /\ ~Undecided(SubSeq(buf, e + 1, Len(buf)))
      /\ pos' = e /\ scan' = e
      /\ framing' = IF StartsWith(SubSeq(buf, e + 1, Len(buf)), CL_KEY) THEN CONTENT_LENGTH ELSE NDJSON
      /\ rpc' = (IF framing' = NDJSON THEN "line" ELSE "header")
      /\ given' = given /\ buf' = buf /\ eof' = eof /\ header' = header /\ body' = body
  BY <1>4 DEF DetectDecides, Leading
<1>6. /\ SkipFrom(input.bytes, a + p) = a + e
      /\ StartsWith(SubSeq(buf, e + 1, Len(buf)), CL_KEY)
            <=> StartsWith(SubSeq(input.bytes, (a + e) + 1, Len(input.bytes)), CL_KEY)
  <2>1. e \in Nat /\ SkipFrom(buf, p) = e
    BY <1>2, <1>4
  <2> QED BY <1>2, <1>3, <1>5, <2>1, DecidedInPiece, SMTT(40)
<1>7. framing = UNKNOWN /\ header = NoHeader /\ SkipFrom(input.bytes, 0) = a + e
  BY <1>1, <1>2, <1>5, <1>6 DEF Framed
<1>8. framing' = FramingOf(input.bytes)
  BY <1>5, <1>6, <1>7 DEF FramingOf
<1>9. Window' /\ At' = a + e
  <2>1. pos' \in 0..(b - a) /\ given' = b /\ Piece(buf', input.bytes, a, b)
    BY <1>2, <1>4, <1>5
  <2> QED BY <1>1, <1>2, <1>5, <2>1, WindowAgain
<1>10. EndSeen'
  <2>1. (b - a) - p < MAX_MESSAGE => (b - a) - e < MAX_MESSAGE
    BY <1>4, FramingAssumption
  <2>2. eof => given = Len(input.bytes) /\ (b - a) - p < MAX_MESSAGE
    BY <1>1, <1>2 DEF EndSeen
  <2> QED BY <1>2, <1>5, <2>1, <2>2 DEF EndSeen
<1>11. Scanned'
  BY <1>2, <1>4, <1>5, SMTT(40) DEF Scanned
<1>12. framing' \in {NDJSON, CONTENT_LENGTH} /\ NDJSON # UNKNOWN /\ CONTENT_LENGTH # UNKNOWN /\ NDJSON # CONTENT_LENGTH
  BY <1>5 DEF NDJSON, CONTENT_LENGTH, UNKNOWN
<1>13. ReaderTypes'
  BY <1>1, <1>4, <1>5, <1>12 DEF ReaderTypes
<1>14. Framed'
  BY <1>5, <1>8, <1>12 DEF Framed, InHand
<1>15. Todo = MessagesFrom(input.bytes, framing', a + e)
  <2>1. Todo = MessagesOf(input.bytes)
    <3>1. Todo = TodoOf("next", "detect", framing, body, header, input.bytes, At)
      BY <1>5 DEF Todo
    <3> QED BY <1>7, <3>1, TodoFirst
  <2> QED BY <1>7, <1>8, <2>1 DEF MessagesOf
<1>16. Todo' = MessagesFrom(input.bytes, framing', a + e)
  <2>1. Todo' = TodoOf("next", rpc', framing', body', NoHeader, input.bytes, a + e)
    BY <1>5, <1>7, <1>9 DEF Todo
  <2>2. CASE framing' = NDJSON
    <3>1. Todo' = LinesOf(input.bytes)[a + e]
      BY <1>5, <2>1, <2>2, TodoLine
    <3> QED BY <2>2, <3>1 DEF MessagesFrom
  <2>3. CASE framing' # NDJSON
    <3>1. Todo' = FramesOf(input.bytes)[<<a + e, NoHeader>>]
      BY <1>5, <2>1, <2>3, TodoHeader
    <3> QED BY <2>3, <3>1 DEF MessagesFrom
  <2> QED BY <2>2, <2>3
<1> QED BY <1>9, <1>10, <1>11, <1>13, <1>14, <1>15, <1>16 DEF ReaderInv

\* detect needs more bytes.
LEMMA DetectMoreKeeps ==
    ASSUME ReaderInv, input' = input, closed' = closed, upc = "next", upc' = upc, NEW k \in Pieces, DetectMore(k)
    PROVE  ReaderInv' /\ Todo' = Todo
<1>1. Window /\ ReaderTypes /\ EndSeen /\ Framed
  BY DEF ReaderInv
<1>2. PICK a \in Nat, b \in Nat, p \in Nat :
             /\ b = given /\ a = given - Len(buf) /\ p = pos /\ Len(buf) = b - a /\ p \in 0..(b - a)
             /\ Piece(buf, input.bytes, a, b) /\ b - a <= MAX_MESSAGE /\ a <= b /\ b <= Len(input.bytes)
             /\ buf \in Seq(Bytes) /\ At = a + p
  BY <1>1, WindowIs
<1>3. input.bytes \in Seq(Bytes) /\ Len(input.bytes) \in Nat
  BY <1>1, InputIs DEF Window
<1>4. PICK e \in p..(b - a) : e = SkipFrom(buf, pos)
  BY <1>2, SkipEnds, SMTT(40)
<1>5. /\ rpc = "detect" /\ Filled(SubSeq(buf, e + 1, Len(buf)), k)
      /\ framing' = framing /\ rpc' = rpc /\ scan' = scan /\ header' = header /\ body' = body
  BY <1>4 DEF DetectMore, Leading
<1>6. Window' /\ EndSeen' /\ eof' = eof /\ At' = a + e
  <2>1. e \in pos..Len(buf) /\ k \in Nat
    BY <1>2, <1>4, FramingAssumption DEF Pieces
  <2> QED BY <1>2, <1>5, <2>1, FillKeepsWindow
<1>7. SkipFrom(input.bytes, a + e) = SkipFrom(input.bytes, a + p)
  BY <1>2, <1>3, <1>4, SkipInPiece, SMTT(40)
<1>8. Framed'
  BY <1>1, <1>2, <1>5, <1>6, <1>7 DEF Framed, InHand
<1>9. Scanned' /\ ReaderTypes'
  BY <1>1, <1>5, <1>6 DEF Scanned, ReaderTypes
<1>10. framing = UNKNOWN
  BY <1>1, <1>5 DEF Framed
<1>11. Todo = MessagesOf(input.bytes) /\ Todo' = MessagesOf(input.bytes)
  <2>1. Todo = TodoOf("next", "detect", framing, body, header, input.bytes, At)
    BY <1>5 DEF Todo
  <2>2. Todo' = TodoOf("next", "detect", framing, body, header, input.bytes, At')
    BY <1>5 DEF Todo
  <2> QED BY <1>10, <2>1, <2>2, TodoFirst
<1> QED BY <1>6, <1>8, <1>9, <1>11 DEF ReaderInv

\* At the end of the input, skipping ends where it ends in the buffer.
LEMMA SkipAtEnd ==
    ASSUME NEW s \in Seq(Bytes), NEW a \in Nat, NEW t, Piece(t, s, a, Len(s)),
           NEW p \in 0..(Len(s) - a), NEW e \in Nat, SkipFrom(t, p) = e
    PROVE  SkipFrom(s, a + p) = a + e
<1>0. /\ t \in Seq(Bytes) /\ Len(t) = Len(s) - a /\ \A k \in 1..(Len(s) - a) : t[k] = s[a + k]
      /\ a <= Len(s) /\ Len(s) \in Nat
  BY DEF Piece
<1>1. e \in 0..Len(t) /\ SkipOne(t, e) = e
  BY <1>0, SkipEnds
<1>2. e = IF e < Len(t) /\ t[e + 1] \in Blank THEN e + 1
          ELSE IF e + 2 <= Len(t) /\ t[e + 1] = "E" /\ t[e + 2] = "F" THEN e + 2
          ELSE e
  BY <1>0, <1>1, SkipOneBytes
<1>3. e # e + 1 /\ e # e + 2
  BY <1>1
<1>4. ~(e < Len(t) /\ t[e + 1] \in Blank) /\ ~(e + 2 <= Len(t) /\ t[e + 1] = "E" /\ t[e + 2] = "F")
  BY <1>2, <1>3
<1>5. a + e \in 0..Len(s)
  BY <1>0, <1>1
<1>6. ~(a + e < Len(s) /\ s[(a + e) + 1] \in Blank)
  <2>1. ASSUME a + e < Len(s)
        PROVE  e < Len(t) /\ e + 1 \in 1..(Len(s) - a) /\ a + (e + 1) = (a + e) + 1
    BY <1>0, <1>1, <2>1
  <2> QED BY <1>0, <1>4, <2>1
<1>7. ~((a + e) + 2 <= Len(s) /\ s[(a + e) + 1] = "E" /\ s[(a + e) + 2] = "F")
  <2>1. ASSUME (a + e) + 2 <= Len(s)
        PROVE  /\ e + 2 <= Len(t) /\ e + 1 \in 1..(Len(s) - a) /\ a + (e + 1) = (a + e) + 1
               /\ e + 2 \in 1..(Len(s) - a) /\ a + (e + 2) = (a + e) + 2
    BY <1>0, <1>1, <2>1, SMTT(40)
  <2> QED BY <1>0, <1>4, <2>1
<1>8. SkipOne(s, a + e) = a + e
  BY <1>5, <1>6, <1>7, SkipOneBytes
<1>9. SkipFrom(s, a + e) = a + e
  BY <1>5, <1>8, SkipUnfolds
<1>10. SkipFrom(s, a + e) = SkipFrom(s, a + p)
  <2>1. SkipFrom(s, a + SkipFrom(t, p)) = SkipFrom(s, a + p)
    BY <1>0, SkipInPiece
  <2> QED BY <2>1
<1> QED BY <1>9, <1>10

\* Bytes that do not decide are few.
LEMMA UndecidedIsShort ==
    ASSUME NEW s \in Seq(Bytes), Undecided(s)
    PROVE  Len(s) < 2
<1>1. Len(BOM) = 2 /\ Len(CL_KEY) = 2
  BY DEF BOM, CL_KEY
<1>2. s = <<>> => Len(s) = 0
  OBVIOUS
<1> QED BY <1>1, <1>2 DEF Undecided, Begins

\* detect at the end of file.
LEMMA DetectEndsKeeps ==
    ASSUME ReaderInv, input' = input, closed' = closed, upc = "next", upc' = upc, DetectEnds
    PROVE  ReaderInv' /\ Todo' = Todo
<1>1. Window /\ ReaderTypes /\ EndSeen /\ Scanned /\ Framed
  BY DEF ReaderInv
<1>2. PICK a \in Nat, b \in Nat, p \in Nat :
             /\ b = given /\ a = given - Len(buf) /\ p = pos /\ Len(buf) = b - a /\ p \in 0..(b - a)
             /\ Piece(buf, input.bytes, a, b) /\ b - a <= MAX_MESSAGE /\ a <= b /\ b <= Len(input.bytes)
             /\ buf \in Seq(Bytes) /\ At = a + p
  BY <1>1, WindowIs
<1>3. input.bytes \in Seq(Bytes) /\ Len(input.bytes) \in Nat
  BY <1>1, InputIs DEF Window
<1>4. PICK e \in p..(b - a) : e = SkipFrom(buf, pos)
  BY <1>2, SkipEnds
<1> DEFINE u == SubSeq(buf, e + 1, Len(buf))
<1>5. /\ rpc = "detect" /\ Undecided(u) /\ FillFails(u)
      /\ pos' = e /\ scan' = e
      /\ (u = <<>> => rpc' = "ret" /\ body' = NULL /\ framing' = framing)
      /\ (u # <<>> => rpc' = "line" /\ framing' = NDJSON /\ body' = body)
      /\ given' = given /\ buf' = buf /\ header' = header
  BY <1>4, SMTT(40) DEF DetectEnds, Leading
<1>6. e \in pos..Len(buf) /\ e \in 0..Len(buf) /\ e \in Nat
  BY <1>2, <1>4
<1>7. u \in Seq(Bytes) /\ Len(u) = Len(buf) - e /\ (u = <<>> <=> e = Len(buf))
  BY <1>2, <1>6, PieceBytes, Zenon
<1>8. /\ eof' \in BOOLEAN
      /\ eof' => given = Len(input.bytes) /\ Len(buf) - e < MAX_MESSAGE
      /\ ~eof' => Len(buf) - e = MAX_MESSAGE
  BY <1>5, <1>6, FillFailsWhen
<1> HIDE DEF u
<1>9. Len(u) < 2
  BY <1>5, <1>7, UndecidedIsShort
<1>10. MAX_MESSAGE >= 2
  <2>1. Len(CL_KEY) = 2
    BY DEF CL_KEY
  <2> QED BY <2>1, FramingAssumption
<1>11. b = Len(input.bytes) /\ Len(buf) - e < MAX_MESSAGE /\ eof' \in BOOLEAN
  <2>1. Len(buf) - e # MAX_MESSAGE
    BY <1>7, <1>9, <1>10, FramingAssumption
  <2> QED BY <1>2, <1>8, <2>1
<1>12. SkipFrom(input.bytes, a + p) = a + e
  <2>1. p \in 0..(Len(input.bytes) - a) /\ SkipFrom(buf, p) = e /\ Piece(buf, input.bytes, a, Len(input.bytes))
    BY <1>2, <1>4, <1>11
  <2> QED BY <1>3, <1>6, <2>1, SkipAtEnd
<1>13. framing = UNKNOWN /\ header = NoHeader /\ SkipFrom(input.bytes, 0) = a + e
  BY <1>1, <1>2, <1>5, <1>12 DEF Framed
<1>14. FramingOf(input.bytes) = NDJSON
  <2>1. a + e \in 0..Len(input.bytes) /\ Len(input.bytes) - (a + e) < 2
    <3>1. (b - a) - e < 2
      BY <1>2, <1>7, <1>9
    <3>2. a + e \in 0..b /\ b - (a + e) < 2
      BY <3>1
    <3> QED BY <1>11, <3>2, SMTT(40)
  <2>2. Len(SubSeq(input.bytes, (a + e) + 1, Len(input.bytes))) < 2
    BY <1>3, <2>1, PieceBytes
  <2>3. Len(CL_KEY) = 2
    BY DEF CL_KEY
  <2>4. Len(SubSeq(input.bytes, (a + e) + 1, Len(input.bytes))) \in Nat
    BY <1>3, <2>1, PieceBytes
  <2>5. ~StartsWith(SubSeq(input.bytes, (a + e) + 1, Len(input.bytes)), CL_KEY)
    <3>1. \A n \in Nat : n < 2 => ~(n >= 2)
      OBVIOUS
    <3> QED BY <2>2, <2>3, <2>4, <3>1 DEF StartsWith
  <2> QED BY <1>13, <2>5 DEF FramingOf
<1>15. Window' /\ At' = a + e
  <2>1. pos' \in 0..(b - a) /\ given' = b /\ Piece(buf', input.bytes, a, b)
    BY <1>2, <1>4, <1>5
  <2>2. Window' /\ At' = a + pos'
    BY <1>1, <1>2, <2>1, WindowAgain
  <2> QED BY <1>5, <2>2
<1>16. EndSeen'
  BY <1>2, <1>5, <1>11 DEF EndSeen
<1>17. Scanned'
  BY <1>2, <1>5, <1>6 DEF Scanned
<1>18. NDJSON # UNKNOWN /\ NDJSON # CONTENT_LENGTH /\ NULL \in Seq(Bytes)
  BY DEF NDJSON, CONTENT_LENGTH, UNKNOWN, NULL
<1>19. ReaderTypes'
  BY <1>1, <1>5, <1>6, <1>11, <1>18 DEF ReaderTypes
<1>20. Todo = LinesOf(input.bytes)[a + e]
  <2>1. Todo = TodoOf("next", "detect", framing, body, header, input.bytes, At)
    BY <1>5 DEF Todo
  <2>2. Todo = MessagesOf(input.bytes)
    BY <1>13, <2>1, TodoFirst
  <2> QED BY <1>13, <1>14, <2>2 DEF MessagesOf, MessagesFrom
<1>21. CASE u = <<>>
  <2>1. Framed'
    BY <1>5, <1>13, <1>21 DEF Framed, InHand
  <2>2. a + e = Len(input.bytes)
    BY <1>2, <1>7, <1>11, <1>21
  <2>3. Todo = <<>>
    BY <1>3, <1>20, <2>2, NoLineAtEnd
  <2>4. Todo' = TodoOf("next", "ret", framing', NULL, header', input.bytes, At')
    BY <1>5, <1>21 DEF Todo
  <2>5. Todo' = <<>>
    BY <2>4, TodoNull
  <2> QED BY <1>15, <1>16, <1>17, <1>19, <2>1, <2>3, <2>5 DEF ReaderInv
<1>22. CASE u # <<>>
  <2>1. Framed'
    BY <1>5, <1>14, <1>18, <1>22 DEF Framed, InHand
  <2>2. Todo' = TodoOf("next", "line", framing', body', header', input.bytes, a + e)
    BY <1>5, <1>15, <1>22 DEF Todo
  <2>3. Todo' = LinesOf(input.bytes)[a + e]
    BY <2>2, TodoLine
  <2> QED BY <1>15, <1>16, <1>17, <1>19, <1>20, <2>1, <2>3 DEF ReaderInv
<1> QED BY <1>21, <1>22

\* next_ndjson has a line.
LEMMA LineFoundKeeps ==
    ASSUME ReaderInv, input' = input, closed' = closed, upc = "next", upc' = upc, LineFound
    PROVE  ReaderInv' /\ Todo' = Todo
<1>1. Window /\ ReaderTypes /\ EndSeen /\ Scanned /\ Framed
  BY DEF ReaderInv
<1>2. PICK a \in Nat, b \in Nat, p \in Nat :
             /\ b = given /\ a = given - Len(buf) /\ p = pos /\ Len(buf) = b - a /\ p \in 0..(b - a)
             /\ Piece(buf, input.bytes, a, b) /\ b - a <= MAX_MESSAGE /\ a <= b /\ b <= Len(input.bytes)
             /\ buf \in Seq(Bytes) /\ At = a + p
  BY <1>1, WindowIs
<1>3. input.bytes \in Seq(Bytes) /\ Len(input.bytes) \in Nat
  BY <1>1, InputIs DEF Window
<1>4. rpc = "line" /\ LineFeeds(buf, scan) # {}
  BY DEF LineFound
<1>5. scan \in pos..Len(buf) /\ \A i \in (pos + 1)..scan : buf[i] # "n"
  BY <1>1, <1>4 DEF Scanned
<1>6. LineFeeds(buf, scan) = LineFeeds(buf, pos)
  <2>1. pos \in 0..Len(buf)
    BY <1>2
  <2> QED BY <1>2, <1>5, <2>1, ScannedFeeds
<1>7. PICK m : m = Min(LineFeeds(buf, p))
  OBVIOUS
<1>8. LineFeeds(buf, p) # {}
  BY <1>2, <1>4, <1>6
<1>9. /\ m \in (p + 1)..(b - a) /\ SubSeq(buf, p + 1, m - 1) \in Seq(Bytes)
      /\ LinesOf(input.bytes)[a + p] = AsMessage(Trim(SubSeq(buf, p + 1, m - 1))) \o LinesOf(input.bytes)[a + m]
  <2>1. LineAt(buf, input.bytes, a, b, p, m)
    BY <1>2, <1>3, <1>7, <1>8, LineTaken
  <2> QED BY <2>1 DEF LineAt
<1> DEFINE line == Trim(SubSeq(buf, p + 1, m - 1))
<1>10. /\ pos' = m /\ scan' = m
       /\ (line = <<>> => rpc' = rpc /\ body' = body)
       /\ (line # <<>> => rpc' = "ret" /\ body' = line)
       /\ given' = given /\ buf' = buf /\ eof' = eof /\ framing' = framing /\ header' = header
  <2>1. pos' = m
    BY <1>2, <1>6, <1>7 DEF LineFound
  <2> QED BY <1>2, <2>1 DEF LineFound
<1>11. line \in Seq(Bytes)
  BY <1>9, TrimType
<1>12. LinesOf(input.bytes)[a + p] = AsMessage(line) \o LinesOf(input.bytes)[a + m]
  BY <1>9
<1> HIDE DEF line
<1>13. Window' /\ At' = a + m
  <2>1. pos' \in 0..(b - a) /\ given' = b /\ Piece(buf', input.bytes, a, b)
    BY <1>2, <1>9, <1>10
  <2>2. Window' /\ At' = a + pos'
    BY <1>1, <1>2, <2>1, WindowAgain
  <2> QED BY <1>10, <2>2
<1>14. EndSeen'
  <2>1. (b - a) - p < MAX_MESSAGE => (b - a) - m < MAX_MESSAGE
    BY <1>9, FramingAssumption
  <2>2. eof => given = Len(input.bytes) /\ (b - a) - p < MAX_MESSAGE
    BY <1>1, <1>2 DEF EndSeen
  <2> QED BY <1>2, <1>10, <2>1, <2>2 DEF EndSeen
<1>15. Scanned'
  BY <1>2, <1>9, <1>10 DEF Scanned
<1>16. ReaderTypes'
  BY <1>1, <1>4, <1>9, <1>10, <1>11 DEF ReaderTypes
<1>17. framing = NDJSON /\ NDJSON # UNKNOWN /\ NDJSON # CONTENT_LENGTH /\ framing = FramingOf(input.bytes)
  BY <1>1, <1>4 DEF Framed, NDJSON, CONTENT_LENGTH, UNKNOWN
<1>18. Todo = AsMessage(line) \o LinesOf(input.bytes)[a + m]
  <2>1. Todo = TodoOf("next", "line", framing, body, header, input.bytes, a + p)
    BY <1>2, <1>4 DEF Todo
  <2> QED BY <1>12, <2>1, TodoLine
<1>19. a + m \in 0..Len(input.bytes)
  BY <1>2, <1>9
<1>20. LinesOf(input.bytes)[a + m] \in Seq(Seq(Bytes))
  BY <1>3, <1>19, LinesType
<1>21. CASE line = <<>>
  <2>1. Framed'
    BY <1>4, <1>10, <1>17, <1>21 DEF Framed, InHand
  <2>2. Todo' = TodoOf("next", "line", framing', body', header', input.bytes, a + m)
    BY <1>4, <1>10, <1>13, <1>21 DEF Todo
  <2>3. Todo' = LinesOf(input.bytes)[a + m]
    BY <2>2, TodoLine
  <2>4. AsMessage(line) = <<>>
    BY <1>21 DEF AsMessage
  <2>5. Todo' = Todo
    BY <1>18, <1>20, <2>3, <2>4, ConcatEmptySeq
  <2> QED BY <1>13, <1>14, <1>15, <1>16, <2>1, <2>5 DEF ReaderInv
<1>22. CASE line # <<>>
  <2>1. Framed'
    BY <1>10, <1>17, <1>22 DEF Framed, InHand, NULL
  <2>2. Todo' = TodoOf("next", "ret", framing', line, header', input.bytes, a + m)
    BY <1>10, <1>13, <1>22 DEF Todo
  <2>3. Todo' = <<line>> \o MessagesFrom(input.bytes, framing', a + m)
    BY <1>22, <2>2, TodoRet DEF NULL
  <2>4. AsMessage(line) = <<line>> /\ MessagesFrom(input.bytes, framing', a + m) = LinesOf(input.bytes)[a + m]
    BY <1>10, <1>17, <1>22 DEF AsMessage, MessagesFrom
  <2> QED BY <1>13, <1>14, <1>15, <1>16, <1>18, <2>1, <2>3, <2>4 DEF ReaderInv
<1> QED BY <1>21, <1>22

\* next_ndjson needs more bytes.
LEMMA LineMoreKeeps ==
    ASSUME ReaderInv, input' = input, closed' = closed, upc = "next", upc' = upc, NEW k \in Pieces, LineMore(k)
    PROVE  ReaderInv' /\ Todo' = Todo
<1>1. Window /\ ReaderTypes /\ EndSeen /\ Scanned /\ Framed
  BY DEF ReaderInv
<1>2. PICK a \in Nat, b \in Nat, p \in Nat :
             /\ b = given /\ a = given - Len(buf) /\ p = pos /\ Len(buf) = b - a /\ p \in 0..(b - a)
             /\ Piece(buf, input.bytes, a, b) /\ b - a <= MAX_MESSAGE /\ a <= b /\ b <= Len(input.bytes)
             /\ buf \in Seq(Bytes) /\ At = a + p
  BY <1>1, WindowIs
<1>3. input.bytes \in Seq(Bytes) /\ Len(input.bytes) \in Nat
  BY <1>1, InputIs DEF Window
<1>4. /\ rpc = "line" /\ LineFeeds(buf, scan) = {} /\ Filled(SubSeq(buf, pos + 1, Len(buf)), k)
      /\ scan' = pos' + Len(SubSeq(buf, pos + 1, Len(buf)))
      /\ framing' = framing /\ rpc' = rpc /\ header' = header /\ body' = body
  BY DEF LineMore, Rest
<1>5. k \in Nat /\ pos \in pos..Len(buf) /\ pos \in 0..Len(buf)
  BY <1>2, FramingAssumption DEF Pieces
<1>6. /\ Window' /\ EndSeen' /\ eof' = eof /\ At' = (given - Len(buf)) + pos
      /\ pos' = 0 /\ Len(SubSeq(buf, pos + 1, Len(buf))) = Len(buf) - pos
      /\ Len(buf') = (Len(buf) - pos) + k /\ \A i \in 1..(Len(buf) - pos) : buf'[i] = buf[pos + i]
  BY <1>4, <1>5, FillKeepsWindow
<1>7. scan \in pos..Len(buf) /\ \A i \in (pos + 1)..scan : buf[i] # "n"
  BY <1>1, <1>4 DEF Scanned
<1>8. LineFeeds(buf, pos) = {}
  BY <1>2, <1>4, <1>5, <1>7, ScannedFeeds, SMTT(40)
<1>9. scan' = (b - a) - p /\ Len(buf') = ((b - a) - p) + k
  <2>1. scan' = 0 + ((b - a) - p) /\ Len(buf') = ((b - a) - p) + k
    BY <1>2, <1>4, <1>6
  <2>2. 0 + ((b - a) - p) = (b - a) - p
    BY SMTT(40)
  <2> QED BY <2>1, <2>2
<1>10. ASSUME NEW i \in 1..((b - a) - p)
       PROVE  buf'[i] # "n"
  <2>1. p + i \in (p + 1)..(b - a)
    OBVIOUS
  <2>2. buf[p + i] # "n"
    BY <1>2, <1>8, <2>1 DEF LineFeeds
  <2> QED BY <1>2, <1>6, <2>2
<1>11. Scanned'
  <2>1. scan' \in 0..Len(buf') /\ 0 + 1 = 1
    BY <1>2, <1>5, <1>9
  <2> QED BY <1>6, <1>9, <1>10, <2>1 DEF Scanned
<1>12. Framed'
  BY <1>1, <1>4, <1>6 DEF Framed, InHand
<1>13. ReaderTypes'
  <2>1. scan' \in Nat
    BY <1>2, <1>9
  <2> QED BY <1>1, <1>4, <1>6, <2>1 DEF ReaderTypes
<1>14. Todo' = Todo
  BY <1>4, <1>6 DEF Todo, At
<1> QED BY <1>6, <1>11, <1>12, <1>13, <1>14 DEF ReaderInv

\* next_ndjson at the end of file, or with a line that does not fit.
LEMMA LineEndsKeeps ==
    ASSUME ReaderInv, input' = input, closed' = closed, upc = "next", upc' = upc, LineEnds
    PROVE  ReaderInv' /\ Todo' = Todo
<1>1. Window /\ ReaderTypes /\ EndSeen /\ Scanned /\ Framed
  BY DEF ReaderInv
<1>2. PICK a \in Nat, b \in Nat, p \in Nat :
             /\ b = given /\ a = given - Len(buf) /\ p = pos /\ Len(buf) = b - a /\ p \in 0..(b - a)
             /\ Piece(buf, input.bytes, a, b) /\ b - a <= MAX_MESSAGE /\ a <= b /\ b <= Len(input.bytes)
             /\ buf \in Seq(Bytes) /\ At = a + p
  BY <1>1, WindowIs
<1>3. input.bytes \in Seq(Bytes) /\ Len(input.bytes) \in Nat
  BY <1>1, InputIs DEF Window
<1> DEFINE u == SubSeq(buf, pos + 1, Len(buf))
<1>4. /\ rpc = "line" /\ LineFeeds(buf, scan) = {} /\ FillFails(u)
      /\ body' = (IF eof' THEN Trim(u) ELSE NULL)
      /\ pos' = Len(buf) /\ rpc' = "ret"
      /\ given' = given /\ buf' = buf /\ framing' = framing /\ scan' = scan /\ header' = header
  BY DEF LineEnds, Rest
<1>5. pos \in pos..Len(buf) /\ pos \in 0..Len(buf)
  BY <1>2
<1>6. scan \in pos..Len(buf) /\ \A i \in (pos + 1)..scan : buf[i] # "n"
  BY <1>1, <1>4 DEF Scanned
<1>7. LineFeeds(buf, p) = {}
  BY <1>2, <1>4, <1>5, <1>6, ScannedFeeds
<1>8. /\ eof' \in BOOLEAN
      /\ eof' => given = Len(input.bytes) /\ Len(buf) - pos < MAX_MESSAGE
      /\ ~eof' => Len(buf) - pos = MAX_MESSAGE
  BY <1>4, <1>5, FillFailsWhen
<1>9. u \in Seq(Bytes)
  BY <1>2, <1>5, PieceBytes
<1>10. u = SubSeq(buf, p + 1, Len(buf))
  BY <1>2
<1> HIDE DEF u
<1>11. body' \in Seq(Bytes) /\ NULL \in Seq(Bytes)
  BY <1>4, <1>9, TrimType DEF NULL
<1>12. Window' /\ At' = b
  <2>1. pos' \in 0..(b - a) /\ given' = b /\ Piece(buf', input.bytes, a, b)
    BY <1>2, <1>4
  <2>2. Window' /\ At' = a + pos'
    BY <1>1, <1>2, <2>1, WindowAgain
  <2>3. a + pos' = b
    BY <1>2, <1>4
  <2> QED BY <2>2, <2>3
<1>13. EndSeen'
  <2>1. (b - a) - (b - a) < MAX_MESSAGE
    <3>1. Len(CL_KEY) = 2
      BY DEF CL_KEY
    <3> QED BY <3>1, FramingAssumption
  <2> QED BY <1>2, <1>4, <1>8, <2>1 DEF EndSeen
<1>14. Scanned' /\ ReaderTypes'
  BY <1>1, <1>4, <1>8, <1>11 DEF Scanned, ReaderTypes
<1>15. framing = NDJSON /\ NDJSON # UNKNOWN /\ NDJSON # CONTENT_LENGTH /\ framing = FramingOf(input.bytes)
  BY <1>1, <1>4 DEF Framed, NDJSON, CONTENT_LENGTH, UNKNOWN
<1>16. Framed'
  BY <1>4, <1>15 DEF Framed, InHand
<1>17. Todo = LinesOf(input.bytes)[a + p]
  <2>1. Todo = TodoOf("next", "line", framing, body, header, input.bytes, a + p)
    BY <1>2, <1>4 DEF Todo
  <2> QED BY <2>1, TodoLine
<1>18. Todo' = IF body' = NULL THEN <<>> ELSE <<body'>> \o LinesOf(input.bytes)[b]
  <2>1. Todo' = TodoOf("next", "ret", framing, body', header', input.bytes, b)
    BY <1>4, <1>12 DEF Todo
  <2>2. MessagesFrom(input.bytes, framing, b) = LinesOf(input.bytes)[b]
    BY <1>15 DEF MessagesFrom
  <2>3. CASE body' = NULL
    BY <2>1, <2>3, TodoNull
  <2>4. CASE body' # NULL
    BY <2>1, <2>2, <2>4, TodoRet
  <2> QED BY <2>3, <2>4
<1>19. CASE eof'
  <2>1. b = Len(input.bytes) /\ (b - a) - p < MAX_MESSAGE
    BY <1>2, <1>8, <1>19
  <2>2. Len(input.bytes) - (a + p) < MAX_MESSAGE
    <3>1. b - (a + p) = (b - a) - p
      OBVIOUS
    <3> QED BY <2>1, <3>1
  <2>3. Todo = AsMessage(Trim(u))
    <3>1. Piece(buf, input.bytes, a, Len(input.bytes)) /\ p \in 0..(Len(input.bytes) - a)
      BY <1>2, <2>1
    <3>2. LinesOf(input.bytes)[a + p] = AsMessage(Trim(SubSeq(buf, p + 1, Len(buf))))
      BY <1>3, <1>7, <2>2, <3>1, LineLast, ZenonT(60)
    <3> QED BY <1>10, <1>17, <3>2
  <2>4. LinesOf(input.bytes)[b] = <<>>
    BY <1>3, <2>1, NoLineAtEnd
  <2>5. Todo' = IF body' = NULL THEN <<>> ELSE <<body'>>
    <3>1. <<body'>> \in Seq(Seq(Bytes))
      BY <1>11
    <3>2. <<body'>> \o <<>> = <<body'>>
      BY <3>1, ConcatEmptySeq
    <3> QED BY <1>18, <2>4, <3>2
  <2>6. body' = Trim(u)
    BY <1>4, <1>19
  <2>7. Todo' = Todo
    BY <2>3, <2>5, <2>6 DEF AsMessage, NULL
  <2> QED BY <1>12, <1>13, <1>14, <1>16, <2>7 DEF ReaderInv
<1>20. CASE ~eof'
  <2>1. (b - a) - p = MAX_MESSAGE /\ body' = NULL
    BY <1>2, <1>4, <1>8, <1>20
  <2>2. b - (a + p) = MAX_MESSAGE
    BY <2>1
  <2>3. LinesOf(input.bytes)[a + p] = <<>>
    BY <1>2, <1>3, <1>7, <2>2, LineGivenUp
  <2> QED BY <1>12, <1>13, <1>14, <1>16, <1>17, <1>18, <2>1, <2>3 DEF ReaderInv
<1> QED BY <1>19, <1>20

\* The buffer behind pos.
LEMMA RestIs ==
    ASSUME Window
    PROVE  /\ pos \in pos..Len(buf) /\ pos \in 0..Len(buf) /\ Rest = SubSeq(buf, pos + 1, Len(buf))
           /\ Rest \in Seq(Bytes) /\ Len(Rest) = Len(buf) - pos
<1>1. buf \in Seq(Bytes) /\ pos \in 0..Len(buf) /\ pos \in pos..Len(buf)
  BY WindowIs
<1> QED BY <1>1, PieceBytes DEF Rest

\* next_content_length has a header line.
LEMMA HeaderLineKeeps ==
    ASSUME ReaderInv, input' = input, closed' = closed, upc = "next", upc' = upc, HeaderLine
    PROVE  ReaderInv' /\ (Todo # <<NULL>> => Todo' = Todo)
<1>1. Window /\ ReaderTypes /\ EndSeen /\ Scanned /\ Framed
  BY DEF ReaderInv
<1>2. PICK a \in Nat, b \in Nat, p \in Nat :
             /\ b = given /\ a = given - Len(buf) /\ p = pos /\ Len(buf) = b - a /\ p \in 0..(b - a)
             /\ Piece(buf, input.bytes, a, b) /\ b - a <= MAX_MESSAGE /\ a <= b /\ b <= Len(input.bytes)
             /\ buf \in Seq(Bytes) /\ At = a + p
  BY <1>1, WindowIs
<1>3. input.bytes \in Seq(Bytes) /\ Len(input.bytes) \in Nat
  BY <1>1, InputIs DEF Window
<1>4. PICK m : m = Min(LineFeeds(buf, p))
  OBVIOUS
<1>17. PICK line : line = SubSeq(buf, p + 1, m)
  OBVIOUS
<1>18. PICK past \in Past : header' = WithHeader(header, line, TextAt(buf, p, past))
  BY <1>2, <1>4, <1>17 DEF HeaderLine, TextAt, Rest
<1>5. /\ rpc = "header" /\ LineFeeds(buf, p) # {}
      /\ pos' = m
      /\ rpc' = (IF EndOfHeaders(header, line) THEN "body" ELSE "header")
      /\ given' = given /\ buf' = buf /\ eof' = eof /\ framing' = framing /\ scan' = scan /\ body' = body
  <2>1. pos' = m
    BY <1>2, <1>4 DEF HeaderLine
  <2> QED BY <1>2, <1>17, <2>1 DEF HeaderLine
<1>6. header \in Headers
  BY <1>1 DEF ReaderTypes
<1>7. Todo = FramesOf(input.bytes)[<<a + p, header>>]
  <2>1. Todo = TodoOf("next", "header", framing, body, header, input.bytes, a + p)
    BY <1>2, <1>5 DEF Todo
  <2> QED BY <2>1, TodoHeader
<1>8. HeaderAt(buf, input.bytes, a, b, p, m, header, past)
  BY <1>2, <1>3, <1>4, <1>5, <1>6, HeaderTaken
<1>9. /\ m \in (p + 1)..(b - a) /\ line \in Seq(Bytes) /\ TextAt(buf, p, past) \in Seq(Bytes)
      /\ Todo # <<NULL>> =>
           Todo = IF EndOfHeaders(header, line) THEN BodyFrom(input.bytes, a + m, header)
                  ELSE FramesOf(input.bytes)[<<a + m, header'>>]
  BY <1>7, <1>8, <1>17, <1>18 DEF HeaderAt
<1>10. header' \in Headers
  BY <1>6, <1>9, <1>18, WithHeaderType
<1>11. Window' /\ At' = a + m
  <2>1. pos' \in 0..(b - a) /\ given' = b /\ Piece(buf', input.bytes, a, b)
    BY <1>2, <1>5, <1>9
  <2>2. Window' /\ At' = a + pos'
    BY <1>1, <1>2, <2>1, WindowAgain
  <2> QED BY <1>5, <2>2
<1>12. EndSeen'
  <2>1. (b - a) - p < MAX_MESSAGE => (b - a) - m < MAX_MESSAGE
    BY <1>9, FramingAssumption, SMTT(30)
  <2>2. eof => given = Len(input.bytes) /\ (b - a) - p < MAX_MESSAGE
    BY <1>1, <1>2 DEF EndSeen
  <2> QED BY <1>2, <1>5, <2>1, <2>2 DEF EndSeen
<1>13. Scanned' /\ ReaderTypes'
  BY <1>1, <1>5, <1>10 DEF Scanned, ReaderTypes
<1>14. Framed'
  BY <1>1, <1>5 DEF Framed, InHand
<1>15. CASE EndOfHeaders(header, line)
  <2>1. header' = header
    BY <1>15, <1>18 DEF EndOfHeaders, WithHeader
  <2>2. Todo' = TodoOf("next", "body", framing', body', header, input.bytes, a + m)
    BY <1>5, <1>11, <1>15, <2>1 DEF Todo
  <2>3. Todo' = BodyFrom(input.bytes, a + m, header)
    BY <2>2, TodoBody
  <2> QED BY <1>9, <1>11, <1>12, <1>13, <1>14, <1>15, <2>3 DEF ReaderInv
<1>16. CASE ~EndOfHeaders(header, line)
  <2>1. Todo' = TodoOf("next", "header", framing', body', header', input.bytes, a + m)
    BY <1>5, <1>11, <1>16 DEF Todo
  <2>2. Todo' = FramesOf(input.bytes)[<<a + m, header'>>]
    BY <2>1, TodoHeader
  <2> QED BY <1>5, <1>9, <1>11, <1>12, <1>13, <1>14, <1>16, <2>2 DEF ReaderInv
<1> QED BY <1>15, <1>16

\* It needs more bytes, for a header line or the body.
LEMMA FrameMoreKeeps ==
    ASSUME ReaderInv, input' = input, closed' = closed, upc = "next", upc' = upc, NEW k \in Pieces,
           HeaderMore(k) \/ BodyMore(k)
    PROVE  ReaderInv' /\ Todo' = Todo
<1>1. Window /\ ReaderTypes /\ Framed
  BY DEF ReaderInv
<1>2. /\ rpc \in {"header", "body"} /\ Filled(Rest, k)
      /\ framing' = framing /\ rpc' = rpc /\ scan' = scan /\ header' = header /\ body' = body
  BY DEF HeaderMore, BodyMore
<1>3. k \in Nat
  BY FramingAssumption DEF Pieces
<1>4. Window' /\ EndSeen' /\ eof' = eof /\ At' = At
  <2>1. pos \in pos..Len(buf) /\ Filled(SubSeq(buf, pos + 1, Len(buf)), k)
    BY <1>1, <1>2, RestIs
  <2>2. Window' /\ EndSeen' /\ eof' = eof /\ At' = (given - Len(buf)) + pos
    BY <1>3, <2>1, FillKeepsWindow
  <2> QED BY <2>2 DEF At
<1>5. Scanned' /\ ReaderTypes'
  BY <1>1, <1>2, <1>4 DEF Scanned, ReaderTypes
<1>6. Framed'
  BY <1>1, <1>2, <1>4 DEF Framed, InHand
<1>7. Todo' = Todo
  BY <1>2, <1>4 DEF Todo
<1> QED BY <1>4, <1>5, <1>6, <1>7 DEF ReaderInv

\* next_content_length gives up: what it leaves alone, and what it returns.
LEMMA GivesUp ==
    ASSUME ReaderInv, input' = input, closed' = closed, upc = "next", upc' = upc, rpc \in {"header", "body"},
           rpc' = "ret", body' = NULL, UNCHANGED <<given, buf, pos, framing, scan, header>>,
           eof' = eof \/ FillFails(Rest)
    PROVE  ReaderInv' /\ Todo' = <<>>
<1>1. Window /\ ReaderTypes /\ EndSeen /\ Framed
  BY DEF ReaderInv
<1>2. Window' /\ At' = At
  BY <1>1 DEF Window, At
<1>3. EndSeen' /\ eof' \in BOOLEAN
  <2>1. CASE eof' = eof
    BY <1>1, <2>1 DEF EndSeen, ReaderTypes
  <2>2. CASE FillFails(Rest)
    <3>1. pos \in pos..Len(buf) /\ FillFails(SubSeq(buf, pos + 1, Len(buf)))
      BY <1>1, <2>2, RestIs
    <3>2. eof' \in BOOLEAN /\ (eof' => given = Len(input.bytes) /\ Len(buf) - pos < MAX_MESSAGE)
      BY <3>1, FillFailsWhen
    <3> QED BY <3>2 DEF EndSeen
  <2> QED BY <2>1, <2>2
<1>4. NULL \in Seq(Bytes)
  BY DEF NULL
<1>5. Scanned' /\ ReaderTypes'
  BY <1>1, <1>3, <1>4 DEF Scanned, ReaderTypes
<1>6. Framed'
  BY <1>1 DEF Framed, InHand
<1>7. Todo' = TodoOf("next", "ret", framing', NULL, header', input'.bytes, At')
  BY DEF Todo
<1>8. Todo' = <<>>
  BY <1>7, TodoNull
<1> QED BY <1>2, <1>3, <1>5, <1>6, <1>8 DEF ReaderInv

\* A header line that is overlong, does not fit or is cut off.
LEMMA HeaderEndsKeeps ==
    ASSUME ReaderInv, input' = input, closed' = closed, upc = "next", upc' = upc, HeaderEnds
    PROVE  ReaderInv' /\ (Todo # <<NULL>> => Todo' = Todo)
<1>1. Window /\ ReaderTypes /\ EndSeen /\ Scanned /\ Framed
  BY DEF ReaderInv
<1>2. PICK a \in Nat, b \in Nat, p \in Nat :
             /\ b = given /\ a = given - Len(buf) /\ p = pos /\ Len(buf) = b - a /\ p \in 0..(b - a)
             /\ Piece(buf, input.bytes, a, b) /\ b - a <= MAX_MESSAGE /\ a <= b /\ b <= Len(input.bytes)
             /\ buf \in Seq(Bytes) /\ At = a + p
  BY <1>1, WindowIs
<1>3. input.bytes \in Seq(Bytes) /\ Len(input.bytes) \in Nat
  BY <1>1, InputIs DEF Window
<1>4. /\ rpc = "header" /\ LineFeeds(buf, pos) = {}
      /\ (Len(Rest) > MAX_HEADER /\ eof' = eof) \/ (Len(Rest) <= MAX_HEADER /\ FillFails(Rest))
      /\ rpc' = "ret" /\ body' = NULL
      /\ UNCHANGED <<given, buf, pos, framing, scan, header>>
  BY DEF HeaderEnds
<1>5. ReaderInv' /\ Todo' = <<>>
  BY <1>4, GivesUp
<1>6. header \in Headers
  BY <1>1 DEF ReaderTypes
<1>7. Todo = FramesOf(input.bytes)[<<a + p, header>>]
  <2>1. Todo = TodoOf("next", "header", framing, body, header, input.bytes, a + p)
    BY <1>2, <1>4, SMTT(40) DEF Todo
  <2> QED BY <2>1, TodoHeader
<1>8. pos \in pos..Len(buf) /\ Rest = SubSeq(buf, pos + 1, Len(buf)) /\ Len(Rest) = (b - a) - p
  BY <1>1, <1>2, RestIs, Zenon
<1>9. b - (a + p) > MAX_HEADER \/ b - (a + p) = MAX_MESSAGE \/ b = Len(input.bytes)
  <2>1. b - (a + p) = (b - a) - p
    OBVIOUS
  <2>2. CASE Len(Rest) > MAX_HEADER
    BY <1>8, <2>1, <2>2
  <2>3. CASE FillFails(Rest)
    <3>1. eof' \in BOOLEAN /\ (eof' => given = Len(input.bytes)) /\ (~eof' => Len(buf) - pos = MAX_MESSAGE)
      BY <1>8, <2>3, FillFailsWhen
    <3> QED BY <1>2, <2>1, <3>1
  <2> QED BY <1>4, <2>2, <2>3
<1>10. LineFeeds(buf, p) = {}
  BY <1>2, <1>4
<1>11. ASSUME Todo # <<NULL>> PROVE FramesOf(input.bytes)[<<a + p, header>>] = <<>>
  <2>1. FramesOf(input.bytes)[<<a + p, header>>] # <<NULL>> /\ Piece(buf, input.bytes, a, b) /\ p \in 0..(b - a)
    BY <1>2, <1>7, <1>11
  <2> QED BY <1>3, <1>6, <1>9, <1>10, <2>1, HeaderGivenUp, Zenon
<1> QED BY <1>5, <1>7, <1>11

\* The body is complete.
LEMMA BodyTakenKeeps ==
    ASSUME ReaderInv, input' = input, closed' = closed, upc = "next", upc' = upc, BodyTaken
    PROVE  ReaderInv' /\ Todo' = Todo
<1>1. Window /\ ReaderTypes /\ EndSeen /\ Scanned /\ Framed
  BY DEF ReaderInv
<1>2. PICK a \in Nat, b \in Nat, p \in Nat :
             /\ b = given /\ a = given - Len(buf) /\ p = pos /\ Len(buf) = b - a /\ p \in 0..(b - a)
             /\ Piece(buf, input.bytes, a, b) /\ b - a <= MAX_MESSAGE /\ a <= b /\ b <= Len(input.bytes)
             /\ buf \in Seq(Bytes) /\ At = a + p
  BY <1>1, WindowIs
<1>3. input.bytes \in Seq(Bytes) /\ Len(input.bytes) \in Nat
  BY <1>1, InputIs DEF Window
<1> DEFINE u == SubSeq(SubSeq(buf, p + 1, Len(buf)), 1, header.length)
<1>4. /\ rpc = "body" /\ GoodLength(header) /\ Len(SubSeq(buf, p + 1, Len(buf))) >= header.length
      /\ body' = u /\ pos' = pos + header.length /\ rpc' = "ret"
      /\ given' = given /\ buf' = buf /\ eof' = eof /\ framing' = framing /\ scan' = scan /\ header' = header
  BY <1>2 DEF BodyTaken, Rest
<1>5. header \in Headers
  BY <1>1 DEF ReaderTypes
<1>6. BodyAt(buf, input.bytes, a, b, p, header)
  BY <1>2, <1>3, <1>4, <1>5, BodyIsThere
<1>7. /\ header.length \in 1..((b - a) - p) /\ u \in Seq(Bytes) /\ u # <<>>
      /\ BodyFrom(input.bytes, a + p, header) = <<u>> \o FramesOf(input.bytes)[<<a + (p + header.length), NoHeader>>]
  BY <1>6 DEF BodyAt
<1> HIDE DEF u
<1>8. PICK m \in p..(b - a) : m = p + header.length
  BY <1>7
<1>9. Window' /\ At' = a + m
  <2>1. pos' \in 0..(b - a) /\ given' = b /\ Piece(buf', input.bytes, a, b) /\ pos' = m
    BY <1>2, <1>4, <1>8
  <2>2. Window' /\ At' = a + pos'
    BY <1>1, <1>2, <2>1, WindowAgain
  <2> QED BY <2>1, <2>2
<1>10. EndSeen'
  <2>1. (b - a) - p < MAX_MESSAGE => (b - a) - m < MAX_MESSAGE
    BY <1>8, FramingAssumption
  <2>2. eof => given = Len(input.bytes) /\ (b - a) - p < MAX_MESSAGE
    BY <1>1, <1>2 DEF EndSeen
  <2>3. pos' = m
    BY <1>2, <1>4, <1>8
  <2> QED BY <1>2, <1>4, <2>1, <2>2, <2>3 DEF EndSeen
<1>11. Scanned' /\ ReaderTypes'
  BY <1>1, <1>4, <1>7 DEF Scanned, ReaderTypes
<1>12. framing = CONTENT_LENGTH /\ CONTENT_LENGTH # UNKNOWN /\ CONTENT_LENGTH # NDJSON
  BY <1>1, <1>4 DEF Framed, NDJSON, CONTENT_LENGTH, UNKNOWN
<1>13. Framed'
  BY <1>1, <1>4, <1>7, <1>12 DEF Framed, InHand, NULL
<1>14. Todo = <<u>> \o FramesOf(input.bytes)[<<a + m, NoHeader>>]
  <2>1. Todo = TodoOf("next", "body", framing, body, header, input.bytes, a + p)
    BY <1>2, <1>4 DEF Todo
  <2>2. Todo = BodyFrom(input.bytes, a + p, header)
    BY <2>1, TodoBody
  <2> QED BY <1>7, <1>8, <2>2
<1>15. Todo' = <<u>> \o FramesOf(input.bytes)[<<a + m, NoHeader>>]
  <2>1. Todo' = TodoOf("next", "ret", framing, u, header, input.bytes, a + m)
    BY <1>4, <1>9 DEF Todo
  <2>2. Todo' = <<u>> \o MessagesFrom(input.bytes, framing, a + m)
    BY <1>7, <2>1, TodoRet DEF NULL
  <2> QED BY <1>12, <2>2 DEF MessagesFrom
<1> QED BY <1>9, <1>10, <1>11, <1>13, <1>14, <1>15 DEF ReaderInv

\* There is no body.
LEMMA BodyEndsKeeps ==
    ASSUME ReaderInv, input' = input, closed' = closed, upc = "next", upc' = upc, BodyEnds
    PROVE  ReaderInv' /\ Todo' = Todo
<1>1. Window /\ ReaderTypes /\ EndSeen /\ Scanned /\ Framed
  BY DEF ReaderInv
<1>2. PICK a \in Nat, b \in Nat, p \in Nat :
             /\ b = given /\ a = given - Len(buf) /\ p = pos /\ Len(buf) = b - a /\ p \in 0..(b - a)
             /\ Piece(buf, input.bytes, a, b) /\ b - a <= MAX_MESSAGE /\ a <= b /\ b <= Len(input.bytes)
             /\ buf \in Seq(Bytes) /\ At = a + p
  BY <1>1, WindowIs
<1>3. input.bytes \in Seq(Bytes) /\ Len(input.bytes) \in Nat
  BY <1>1, InputIs DEF Window
<1>4. /\ rpc = "body"
      /\ (~GoodLength(header) /\ eof' = eof) \/ (GoodLength(header) /\ Len(Rest) < header.length /\ FillFails(Rest))
      /\ rpc' = "ret" /\ body' = NULL
      /\ UNCHANGED <<given, buf, pos, framing, scan, header>>
  BY DEF BodyEnds
<1>5. ReaderInv' /\ Todo' = <<>>
  BY <1>4, GivesUp
<1>6. header \in Headers /\ header.length \in Nat
  BY <1>1 DEF ReaderTypes, Headers
<1>7. Todo = BodyFrom(input.bytes, a + p, header)
  <2>1. Todo = TodoOf("next", "body", framing, body, header, input.bytes, a + p)
    BY <1>2, <1>4, SMTT(40) DEF Todo
  <2> QED BY <2>1, TodoBody
<1>8. pos \in pos..Len(buf) /\ Rest = SubSeq(buf, pos + 1, Len(buf)) /\ Len(Rest) = (b - a) - p
  BY <1>1, <1>2, RestIs, Zenon
<1>9. ~GoodLength(header) \/ Len(input.bytes) - (a + p) < header.length
  <2>1. SUFFICES ASSUME GoodLength(header), (b - a) - p < header.length, FillFails(Rest)
        PROVE  Len(input.bytes) - (a + p) < header.length
    BY <1>4, <1>8
  <2>2. header.length <= MAX_MESSAGE
    BY <2>1, FramingAssumption DEF GoodLength
  <2>3. eof' \in BOOLEAN /\ (eof' => given = Len(input.bytes)) /\ (~eof' => Len(buf) - pos = MAX_MESSAGE)
    BY <1>8, <2>1, FillFailsWhen
  <2>4. (b - a) - p # MAX_MESSAGE
    BY <1>6, <2>1, <2>2, FramingAssumption
  <2>5. b = Len(input.bytes)
    BY <1>2, <2>3, <2>4
  <2>6. b - (a + p) = (b - a) - p
    OBVIOUS
  <2> QED BY <2>1, <2>5, <2>6
<1>10. a + p \in 0..Len(input.bytes)
  BY <1>2
<1>11. BodyFrom(input.bytes, a + p, header) = <<>>
  BY <1>3, <1>6, <1>9, <1>10, BodyIsCut
<1> QED BY <1>5, <1>7, <1>11

\* The call of dxr_stdio_reader_next.
LEMMA NextBeginsKeeps ==
    ASSUME ReaderInv, input' = input, closed' = closed, upc = "next", upc' = upc, NextBegins
    PROVE  ReaderInv' /\ Todo' = Todo
<1>1. Window /\ ReaderTypes /\ EndSeen /\ Framed
  BY DEF ReaderInv
<1>2. /\ rpc = "idle" /\ scan' = pos /\ header' = NoHeader
      /\ given' = given /\ buf' = buf /\ pos' = pos /\ eof' = eof /\ framing' = framing /\ body' = body
  BY DEF NextBegins
<1>3. NDJSON # UNKNOWN /\ NDJSON # CONTENT_LENGTH /\ UNKNOWN # CONTENT_LENGTH
  BY DEF NDJSON, CONTENT_LENGTH, UNKNOWN
<1>4. framing \in {UNKNOWN, NDJSON, CONTENT_LENGTH}
  BY <1>1 DEF ReaderTypes
<1>5. /\ framing = UNKNOWN => rpc' = "detect"
      /\ framing = NDJSON => rpc' = "line"
      /\ framing = CONTENT_LENGTH => rpc' = "header"
  BY <1>3 DEF NextBegins
<1>6. Window' /\ At' = At
  BY <1>1, <1>2 DEF Window, At
<1>7. EndSeen'
  BY <1>1, <1>2 DEF EndSeen
<1>8. pos \in Nat /\ pos \in pos..Len(buf) /\ ~(\E i \in (pos + 1)..pos : TRUE)
  BY <1>1, WindowIs
<1>9. Scanned'
  BY <1>2, <1>8 DEF Scanned
<1>10. ReaderTypes'
  BY <1>1, <1>2, <1>4, <1>5, <1>8, NoHeaderType DEF ReaderTypes
<1>11. Framed'
  BY <1>1, <1>2, <1>3, <1>4, <1>5, <1>6 DEF Framed, InHand
<1>12. Todo = TodoOf("next", "idle", framing, body, header, input.bytes, At)
  BY <1>2 DEF Todo
<1>13. Todo' = TodoOf("next", rpc', framing, body, NoHeader, input.bytes, At)
  BY <1>2, <1>6 DEF Todo
<1>14. CASE framing = UNKNOWN
  BY <1>5, <1>6, <1>7, <1>9, <1>10, <1>11, <1>12, <1>13, <1>14, TodoFirst DEF ReaderInv
<1>15. CASE framing = NDJSON
  <2>1. Todo = MessagesFrom(input.bytes, NDJSON, At)
    BY <1>3, <1>12, <1>15, TodoIdle
  <2>2. Todo' = LinesOf(input.bytes)[At]
    BY <1>5, <1>13, <1>15, TodoLine
  <2>3. Todo' = Todo
    BY <2>1, <2>2 DEF MessagesFrom
  <2> QED BY <1>6, <1>7, <1>9, <1>10, <1>11, <2>3 DEF ReaderInv
<1>16. CASE framing = CONTENT_LENGTH
  <2>1. Todo = MessagesFrom(input.bytes, CONTENT_LENGTH, At)
    BY <1>3, <1>12, <1>16, TodoIdle
  <2>2. Todo' = FramesOf(input.bytes)[<<At, NoHeader>>]
    BY <1>5, <1>13, <1>16, TodoHeader
  <2>3. Todo' = Todo
    BY <1>3, <2>1, <2>2 DEF MessagesFrom
  <2> QED BY <1>6, <1>7, <1>9, <1>10, <1>11, <2>3 DEF ReaderInv
<1> QED BY <1>4, <1>14, <1>15, <1>16

\* The reader is at a header line that it may take one way or another, or behind it;
\* the server has got the messages before it.
Astray ==
    \E n \in 1..Len(input.msgs) :
        /\ input.msgs[n] = NULL /\ Len(forwarded) >= n - 1
        /\ \A i \in 1..(n - 1) : forwarded[i] = input.msgs[i]

\* What the server has got and what it will get are what the client wrote; a
\* server that closes its end may miss the rest.
OnCourse ==
    /\ upc # "done" => forwarded \o Todo = input.msgs
    /\ upc = "done" => Prefix(forwarded, input.msgs) /\ (peer # "closed" => forwarded = input.msgs)

Forwarding == forwarded \in Seq(Seq(Bytes)) /\ (Astray \/ OnCourse)

\* The types of the variables of the pumps and of the connection.
PumpTypes ==
    /\ latch \in {UNKNOWN, NDJSON, CONTENT_LENGTH}
    /\ peer \in {"up", "hung", "closed"} /\ aborted \in BOOLEAN /\ conn \in {"open", "freed"}
    /\ rd \in {"idle", "check", "issue", "pending", "ok", "failed"}
    /\ dpc \in {"header", "body", "latch", "asleep", "done"}
    /\ mpc \in {"join up", "abort", "cancel", "join down", "done"}

\* main goes on only when the up pump is done, and closes the connection only
\* when the down pump is done too.
MainLast ==
    /\ mpc # "join up" => upc = "done"
    /\ mpc = "done" => dpc = "done"
    /\ aborted => mpc \in {"cancel", "join down", "done"}
    /\ conn = "freed" => mpc = "done"
    /\ rd # "idle" => dpc \in {"header", "body"}

\* The messages from a position on.
LEMMA MessagesType ==
    ASSUME NEW s \in Seq(Bytes), NEW p \in 0..Len(s), NEW f
    PROVE  MessagesFrom(s, f, p) \in Seq(Seq(Bytes)) /\ MessagesOf(s) \in Seq(Seq(Bytes))
<1>1. ASSUME NEW q \in 0..Len(s), NEW g
      PROVE  MessagesFrom(s, g, q) \in Seq(Seq(Bytes))
  BY LinesType, FramesType, NoHeaderType DEF MessagesFrom
<1>2. SkipFrom(s, 0) \in 0..Len(s)
  BY SkipEnds
<1> QED BY <1>1, <1>2 DEF MessagesOf

\* What is left is a sequence of messages.
LEMMA TodoType ==
    ASSUME ReaderInv, upc # "done"
    PROVE  Todo \in Seq(Seq(Bytes))
<1>1. Window /\ ReaderTypes /\ EndSeen /\ Scanned /\ Framed
  BY DEF ReaderInv
<1>2. PICK a \in Nat, b \in Nat, p \in Nat :
             /\ b = given /\ a = given - Len(buf) /\ p = pos /\ Len(buf) = b - a /\ p \in 0..(b - a)
             /\ Piece(buf, input.bytes, a, b) /\ b - a <= MAX_MESSAGE /\ a <= b /\ b <= Len(input.bytes)
             /\ buf \in Seq(Bytes) /\ At = a + p
  BY <1>1, WindowIs
<1>3. input.bytes \in Seq(Bytes) /\ Len(input.bytes) \in Nat
  BY <1>1, InputIs DEF Window
<1>4. a + p \in 0..Len(input.bytes)
  BY <1>2
<1>5. MessagesFrom(input.bytes, framing, a + p) \in Seq(Seq(Bytes)) /\ MessagesOf(input.bytes) \in Seq(Seq(Bytes))
  BY <1>3, <1>4, MessagesType
<1>6. header \in Headers /\ body \in Seq(Bytes) /\ upc \in {"next", "header", "body"}
      /\ rpc \in {"idle", "detect", "line", "header", "body", "ret"}
  BY <1>1 DEF ReaderTypes
<1>7. Todo = TodoOf(upc, rpc, framing, body, header, input.bytes, a + p)
  BY <1>2 DEF Todo
<1>8. <<body>> \o MessagesFrom(input.bytes, framing, a + p) \in Seq(Seq(Bytes))
  <2>1. <<body>> \in Seq(Seq(Bytes))
    BY <1>6
  <2> QED BY <1>5, <2>1, ConcatProperties
<1>9. CASE upc \in {"header", "body"}
  <2>1. TodoOf(upc, rpc, framing, body, header, input.bytes, a + p) = <<body>> \o MessagesFrom(input.bytes, framing, a + p)
    BY <1>9, TodoInHand, ZenonT(60)
  <2> QED BY <1>7, <1>8, <2>1
<1>10. CASE upc = "next"
  <2>1. CASE rpc = "ret"
    <3>1. CASE body = NULL
      <4>1. Todo = <<>>
        BY <1>7, <1>10, <2>1, <3>1, TodoNull
      <4> QED BY <4>1
    <3>2. CASE body # NULL
      BY <1>7, <1>8, <1>10, <2>1, <3>2, TodoRet
    <3> QED BY <3>1, <3>2
  <2>2. CASE rpc \in {"idle", "detect"} /\ framing = UNKNOWN
    BY <1>5, <1>7, <1>10, <2>2, TodoFirst
  <2>3. CASE rpc = "idle" /\ framing # UNKNOWN
    BY <1>5, <1>7, <1>10, <2>3, TodoIdle
  <2>4. CASE rpc = "line"
    <3>1. Todo = LinesOf(input.bytes)[a + p]
      BY <1>7, <1>10, <2>4, TodoLine
    <3> QED BY <1>3, <1>4, <3>1, LinesType
  <2>5. CASE rpc = "header"
    <3>1. Todo = FramesOf(input.bytes)[<<a + p, header>>]
      BY <1>7, <1>10, <2>5, TodoHeader
    <3> QED BY <1>3, <1>4, <1>6, <3>1, FramesType
  <2>6. CASE rpc = "body"
    <3>1. Todo = BodyFrom(input.bytes, a + p, header)
      BY <1>7, <1>10, <2>6, TodoBody
    <3>2. CASE HasBody(input.bytes, a + p, header)
      <4>1. PICK n \in Nat : n = header.length /\ (a + p) + n \in 0..Len(input.bytes)
        BY <1>3, <1>4, <1>6, <3>2, FramingAssumption DEF HasBody, GoodLength, Headers
      <4>2. FramesOf(input.bytes)[<<(a + p) + n, NoHeader>>] \in Seq(Seq(Bytes))
        BY <1>3, <4>1, FramesType, NoHeaderType
      <4>3. \A s \in Seq(Bytes) : \A i, j \in 0..Len(s) : SubSeq(s, i + 1, j) \in Seq(Bytes)
        OBVIOUS
      <4>4. SubSeq(input.bytes, (a + p) + 1, (a + p) + n) \in Seq(Bytes)
        BY <1>3, <1>4, <4>1, <4>3, Zenon
      <4>5. <<SubSeq(input.bytes, (a + p) + 1, (a + p) + n)>> \in Seq(Seq(Bytes))
        BY <4>4
      <4>6. Todo = <<SubSeq(input.bytes, (a + p) + 1, (a + p) + n)>> \o FramesOf(input.bytes)[<<(a + p) + n, NoHeader>>]
        BY <3>1, <3>2, <4>1 DEF BodyFrom
      <4> QED BY <4>2, <4>5, <4>6, ConcatProperties
    <3>3. CASE ~HasBody(input.bytes, a + p, header)
      <4>1. Todo = <<>>
        BY <3>1, <3>3 DEF BodyFrom
      <4> QED BY <4>1
    <3> QED BY <3>2, <3>3
  <2>7. CASE rpc = "detect" /\ framing # UNKNOWN
    BY <1>1, <2>7 DEF Framed
  <2> QED BY <1>6, <2>1, <2>2, <2>3, <2>4, <2>5, <2>6, <2>7
<1> QED BY <1>6, <1>9, <1>10

\* The first part of a sequence is a prefix of it.
LEMMA PrefixOfConcat ==
    ASSUME NEW S, NEW s \in Seq(S), NEW t \in Seq(S)
    PROVE  Prefix(s, s \o t)
<1>1. /\ Len(s \o t) = Len(s) + Len(t) /\ s \o t \in Seq(S)
      /\ \A i \in 1..(Len(s) + Len(t)) : (s \o t)[i] = IF i <= Len(s) THEN s[i] ELSE t[i - Len(s)]
  BY ConcatProperties
<1>2. PICK w \in Seq(S) : w = s \o t
  BY <1>1
<1>3. Len(s) <= Len(w) /\ \A i \in 1..Len(s) : w[i] = s[i]
  BY <1>1, <1>2
<1> HIDE <1>2
<1>4. SubSeq(w, 1, Len(s)) \in Seq(S) /\ Len(SubSeq(w, 1, Len(s))) = Len(s)
      /\ \A i \in 1..Len(s) : SubSeq(w, 1, Len(s))[i] = w[i]
  BY <1>3
<1>5. SubSeq(w, 1, Len(s)) = s
  BY <1>3, <1>4, SeqEqual
<1> QED BY <1>2, <1>3, <1>5 DEF Prefix

\* Behind such a line, nothing is said any more.
LEMMA AstrayStays ==
    ASSUME Astray, forwarded \in Seq(Seq(Bytes)), input' = input,
           forwarded' = forwarded \/ \E m \in Seq(Bytes) : forwarded' = Append(forwarded, m)
    PROVE  Astray'
<1>1. PICK n \in 1..Len(input.msgs) :
        /\ input.msgs[n] = NULL /\ Len(forwarded) >= n - 1
        /\ \A i \in 1..(n - 1) : forwarded[i] = input.msgs[i]
  BY DEF Astray
<1>2. \A m \in Seq(Bytes) : /\ Len(Append(forwarded, m)) = Len(forwarded) + 1
                            /\ \A i \in 1..Len(forwarded) : Append(forwarded, m)[i] = forwarded[i]
  BY AppendProperties
<1>3. Len(forwarded') >= Len(forwarded) /\ \A i \in 1..Len(forwarded) : forwarded'[i] = forwarded[i]
  <2>1. CASE forwarded' = forwarded
    <3>1. Len(forwarded) >= Len(forwarded)
      OBVIOUS
    <3> QED BY <2>1, <3>1, Zenon
  <2>2. ASSUME NEW m \in Seq(Bytes), forwarded' = Append(forwarded, m)
        PROVE  Len(forwarded') >= Len(forwarded) /\ \A i \in 1..Len(forwarded) : forwarded'[i] = forwarded[i]
    <3>1. Len(forwarded) + 1 >= Len(forwarded)
      OBVIOUS
    <3>2. Len(Append(forwarded, m)) = Len(forwarded) + 1
      BY <1>2, Zenon
    <3>3. Len(Append(forwarded, m)) >= Len(forwarded)
      BY <3>1, <3>2
    <3>4. \A i \in 1..Len(forwarded) : Append(forwarded, m)[i] = forwarded[i]
      BY <1>2, Zenon
    <3> QED BY <2>2, <3>3, <3>4, Zenon
  <2> QED BY <2>1, <2>2, Zenon
<1>4. Len(forwarded) \in Nat /\ n \in Nat
  OBVIOUS
<1>5. PICK k \in Nat : k = n - 1 /\ k <= Len(forwarded)
  BY <1>1, <1>4
<1>6. \A i \in 1..k : i \in 1..Len(forwarded)
  BY <1>4, <1>5
<1>7. Len(forwarded') \in Nat
  BY <1>2
<1>8. Len(forwarded') >= n - 1
  BY <1>3, <1>4, <1>5, <1>7
<1>9. \A i \in 1..(n - 1) : forwarded'[i] = input'.msgs[i]
  BY <1>1, <1>3, <1>5, <1>6
<1>10. n \in 1..Len(input'.msgs) /\ input'.msgs[n] = NULL
  BY <1>1
<1> QED BY <1>8, <1>9, <1>10 DEF Astray

\* Where the reader comes to such a line.
LEMMA GoesAstray ==
    ASSUME ReaderInv, forwarded \in Seq(Seq(Bytes)), OnCourse, upc # "done", Todo = <<NULL>>
    PROVE  Astray
<1>1. forwarded \o <<NULL>> = input.msgs
  BY DEF OnCourse
<1>2. NULL \in Seq(Bytes)
  BY DEF NULL
<1>3. ASSUME NEW f \in Seq(Seq(Bytes)), NEW x \in Seq(Bytes)
      PROVE  /\ Len(f) + 1 \in 1..Len(f \o <<x>>) /\ (f \o <<x>>)[Len(f) + 1] = x /\ Len(f) \in Nat
             /\ \A i \in 1..Len(f) : (f \o <<x>>)[i] = f[i]
  OBVIOUS
<1>4. PICK n \in Nat : n = Len(forwarded)
  OBVIOUS
<1>5. /\ n + 1 \in 1..Len(input.msgs) /\ input.msgs[n + 1] = NULL
      /\ \A i \in 1..n : forwarded[i] = input.msgs[i]
  BY <1>1, <1>2, <1>3, <1>4
<1>6. (n + 1) - 1 = n /\ Len(forwarded) >= (n + 1) - 1
  BY <1>4
<1> QED BY <1>5, <1>6 DEF Astray

\* A step of the reader keeps what is left to do.
LEMMA ReadsKeep ==
    ASSUME ReaderInv, Forwarding, UpReads
    PROVE  ReaderInv' /\ Forwarding'
<1>1. /\ upc = "next" /\ (NextBegins \/ dxr_stdio_reader_next)
      /\ input' = input /\ closed' = closed /\ upc' = upc /\ forwarded' = forwarded /\ peer' = peer
  BY DEF UpReads, clientVars, pumpVars, connVars
<1>3. ReaderInv' /\ (Todo # <<NULL>> => Todo' = Todo)
  <2>1. CASE NextBegins
    BY <1>1, <2>1, NextBeginsKeeps
  <2>2. CASE DetectDecides
    BY <1>1, <2>2, DetectDecidesKeeps
  <2>3. CASE DetectEnds
    BY <1>1, <2>3, DetectEndsKeeps
  <2>4. CASE LineFound
    BY <1>1, <2>4, LineFoundKeeps
  <2>5. CASE LineEnds
    BY <1>1, <2>5, LineEndsKeeps
  <2>6. CASE HeaderLine
    BY <1>1, <2>6, HeaderLineKeeps
  <2>7. CASE HeaderEnds
    BY <1>1, <2>7, HeaderEndsKeeps
  <2>8. CASE BodyTaken
    BY <1>1, <2>8, BodyTakenKeeps
  <2>9. CASE BodyEnds
    BY <1>1, <2>9, BodyEndsKeeps
  <2>10. ASSUME NEW k \in Pieces, DetectMore(k) PROVE ReaderInv' /\ Todo' = Todo
    BY <1>1, <2>10, DetectMoreKeeps
  <2>11. ASSUME NEW k \in Pieces, LineMore(k) PROVE ReaderInv' /\ Todo' = Todo
    BY <1>1, <2>11, LineMoreKeeps
  <2>12. ASSUME NEW k \in Pieces, HeaderMore(k) \/ BodyMore(k) PROVE ReaderInv' /\ Todo' = Todo
    BY <1>1, <2>12, FrameMoreKeeps
  <2> QED BY <1>1, <2>1, <2>2, <2>3, <2>4, <2>5, <2>6, <2>7, <2>8, <2>9, <2>10, <2>11, <2>12
          DEF dxr_stdio_reader_next
<1>4. CASE Astray \/ (OnCourse /\ Todo = <<NULL>>)
  BY <1>1, <1>3, <1>4, AstrayStays, GoesAstray DEF Forwarding
<1>5. CASE OnCourse /\ Todo # <<NULL>>
  BY <1>1, <1>3, <1>5 DEF Forwarding, OnCourse
<1> QED BY <1>4, <1>5 DEF Forwarding

\* The reader has returned.
LEMMA MessageKeeps ==
    ASSUME ReaderInv, Forwarding, UpHasMessage
    PROVE  ReaderInv' /\ Forwarding'
<1>1. /\ upc = "next" /\ rpc = "ret" /\ rpc' = "idle"
      /\ (body = NULL => upc' = "done") /\ (body # NULL => upc' = "header")
      /\ given' = given /\ buf' = buf /\ pos' = pos /\ eof' = eof /\ framing' = framing
      /\ scan' = scan /\ header' = header /\ body' = body
      /\ input' = input /\ closed' = closed /\ forwarded' = forwarded /\ peer' = peer
  BY DEF UpHasMessage, clientVars, connVars
<1>2. ReaderTypes' /\ Scanned'
  BY <1>1 DEF ReaderInv, ReaderTypes, Scanned
<1>3. Window' /\ EndSeen' /\ At' = At
  BY <1>1 DEF ReaderInv, Window, EndSeen, At
<1>4. Framed'
  BY <1>1, <1>3 DEF ReaderInv, Framed, InHand
<1>9. ReaderInv' /\ forwarded' \in Seq(Seq(Bytes)) /\ (Astray => Astray')
  BY <1>1, <1>2, <1>3, <1>4, AstrayStays DEF ReaderInv, Forwarding
<1>10. SUFFICES ASSUME OnCourse PROVE OnCourse'
  BY <1>9 DEF Forwarding
<1>5. forwarded \in Seq(Seq(Bytes)) /\ forwarded \o Todo = input.msgs
  BY <1>1, <1>10 DEF Forwarding, OnCourse
<1>6. Todo = TodoOf("next", "ret", framing, body, header, input.bytes, At)
  BY <1>1 DEF Todo
<1>7. CASE body = NULL
  <2>1. Todo = <<>>
    BY <1>6, <1>7, TodoNull
  <2>2. forwarded = input.msgs /\ Prefix(forwarded, forwarded)
    <3>1. forwarded \o <<>> = forwarded
      BY <1>5, ConcatEmptySeq
    <3>2. <<>> \in Seq(Seq(Bytes))
      OBVIOUS
    <3>3. Prefix(forwarded, forwarded \o <<>>)
      BY <1>5, <3>2, PrefixOfConcat
    <3> QED BY <1>5, <2>1, <3>1, <3>3
  <2>3. upc' = "done"
    BY <1>1, <1>7
  <2> QED BY <1>1, <1>5, <2>2, <2>3 DEF OnCourse, Prefix
<1>8. CASE body # NULL
  <2>1. Todo = <<body>> \o MessagesFrom(input.bytes, framing, At)
    BY <1>6, <1>8, TodoRet
  <2>2. Todo' = TodoOf("header", rpc', framing, body, header, input.bytes, At)
    BY <1>1, <1>3, <1>8 DEF Todo
  <2>3. Todo' = <<body>> \o MessagesFrom(input.bytes, framing, At)
    BY <2>2, TodoInHand, SMTT(40)
  <2> QED BY <1>1, <1>5, <1>8, <2>1, <2>3 DEF OnCourse
<1> QED BY <1>7, <1>8

\* A message is written to the server.
LEMMA WritesKeep ==
    ASSUME ReaderInv, Forwarding, UpWrites
    PROVE  ReaderInv' /\ Forwarding'
<1>1. /\ upc \in {"header", "body"}
      /\ (upc = "header" => upc' = "body" /\ forwarded' = forwarded)
      /\ (upc = "body" => upc' = "next" /\ forwarded' = Append(forwarded, body))
      /\ given' = given /\ buf' = buf /\ pos' = pos /\ eof' = eof /\ framing' = framing
      /\ rpc' = rpc /\ scan' = scan /\ header' = header /\ body' = body
      /\ input' = input /\ closed' = closed /\ peer' = peer
  BY DEF UpWrites, clientVars, connVars, readerVars
<1>2. ReaderTypes' /\ Scanned'
  BY <1>1 DEF ReaderInv, ReaderTypes, Scanned
<1>3. Window' /\ EndSeen' /\ At' = At
  BY <1>1 DEF ReaderInv, Window, EndSeen, At
<1>4. rpc = "idle" /\ framing # UNKNOWN /\ body # NULL /\ body \in Seq(Bytes)
  BY <1>1 DEF ReaderInv, Framed, InHand, ReaderTypes
<1>5. Framed'
  BY <1>1, <1>3, <1>4 DEF ReaderInv, Framed, InHand
<1>10. ReaderInv' /\ forwarded' \in Seq(Seq(Bytes)) /\ (Astray => Astray')
  <2>1. forwarded \in Seq(Seq(Bytes)) /\ Append(forwarded, body) \in Seq(Seq(Bytes))
    BY <1>4, AppendProperties DEF Forwarding
  <2>2. forwarded' = forwarded \/ \E m \in Seq(Bytes) : forwarded' = Append(forwarded, m)
    BY <1>1, <1>4
  <2> QED BY <1>1, <1>2, <1>3, <1>5, <2>1, <2>2, AstrayStays DEF ReaderInv
<1>11. SUFFICES ASSUME OnCourse PROVE OnCourse'
  BY <1>10 DEF Forwarding
<1>6. forwarded \in Seq(Seq(Bytes)) /\ forwarded \o Todo = input.msgs
  BY <1>1, <1>11 DEF Forwarding, OnCourse
<1>7. Todo = <<body>> \o MessagesFrom(input.bytes, framing, At)
  <2>1. TodoOf(upc, rpc, framing, body, header, input.bytes, At) = <<body>> \o MessagesFrom(input.bytes, framing, At)
    BY <1>1, TodoInHand, ZenonT(60)
  <2> QED BY <2>1 DEF Todo
<1>8. CASE upc = "header"
  <2>1. Todo' = TodoOf("body", rpc, framing, body, header, input.bytes, At)
    BY <1>1, <1>3, <1>8 DEF Todo
  <2>2. Todo' = <<body>> \o MessagesFrom(input.bytes, framing, At)
    BY <2>1, TodoInHand, ZenonT(60)
  <2> QED BY <1>1, <1>6, <1>7, <1>8, <2>2 DEF OnCourse
<1>9. CASE upc = "body"
  <2>1. Todo' = TodoOf("next", "idle", framing, body, header, input.bytes, At)
    BY <1>1, <1>3, <1>4, <1>9 DEF Todo
  <2>2. Todo' = MessagesFrom(input.bytes, framing, At)
    BY <1>4, <2>1, TodoIdle
  <2>3. MessagesFrom(input.bytes, framing, At) \in Seq(Seq(Bytes))
    <3>1. input.bytes \in Seq(Bytes)
      BY InputIs DEF ReaderInv, Window
    <3>2. At \in 0..Len(input.bytes)
      BY WindowIs DEF ReaderInv
    <3> QED BY <3>1, <3>2, MessagesType
  <2>4. Append(forwarded, body) = forwarded \o <<body>> /\ <<body>> \in Seq(Seq(Bytes))
    BY <1>4, <1>6, AppendIsConcat
  <2>5. (forwarded \o <<body>>) \o MessagesFrom(input.bytes, framing, At)
           = forwarded \o (<<body>> \o MessagesFrom(input.bytes, framing, At))
    BY <1>6, <2>3, <2>4, ConcatAssociative
  <2>6. forwarded' \o Todo' = input.msgs
    BY <1>1, <1>6, <1>7, <1>9, <2>2, <2>4, <2>5
  <2> QED BY <1>1, <1>9, <2>6 DEF OnCourse
<1> QED BY <1>1, <1>8, <1>9

\* A message cannot be written: the server has closed its end.
LEMMA WriteFailsKeeps ==
    ASSUME ReaderInv, Forwarding, MainLast, PumpTypes, UpWriteFails
    PROVE  ReaderInv' /\ Forwarding'
<1>1. /\ upc \in {"header", "body"} /\ upc' = "done" /\ (aborted \/ peer = "closed")
      /\ given' = given /\ buf' = buf /\ pos' = pos /\ eof' = eof /\ framing' = framing
      /\ rpc' = rpc /\ scan' = scan /\ header' = header /\ body' = body
      /\ input' = input /\ closed' = closed /\ peer' = peer /\ forwarded' = forwarded
  BY DEF UpWriteFails, WriteFails, clientVars, connVars, readerVars
<1>2. ReaderTypes' /\ Scanned'
  BY <1>1 DEF ReaderInv, ReaderTypes, Scanned
<1>3. Window' /\ EndSeen' /\ At' = At
  BY <1>1 DEF ReaderInv, Window, EndSeen, At
<1>4. Framed'
  BY <1>1, <1>3 DEF ReaderInv, Framed, InHand
<1>5. peer = "closed"
  BY <1>1 DEF MainLast, PumpTypes
<1>10. ReaderInv' /\ forwarded' \in Seq(Seq(Bytes)) /\ (Astray => Astray')
  BY <1>1, <1>2, <1>3, <1>4, AstrayStays DEF ReaderInv, Forwarding
<1>11. SUFFICES ASSUME OnCourse PROVE OnCourse'
  BY <1>10 DEF Forwarding
<1>6. forwarded \in Seq(Seq(Bytes)) /\ forwarded \o Todo = input.msgs
  BY <1>1, <1>11 DEF Forwarding, OnCourse
<1>7. Todo \in Seq(Seq(Bytes))
  BY <1>1, TodoType
<1>8. Prefix(forwarded, input.msgs)
  BY <1>6, <1>7, PrefixOfConcat
<1> QED BY <1>1, <1>5, <1>8 DEF OnCourse, Prefix

\* The steps of the others leave the reader alone.
LEMMA OthersKeepReader ==
    ASSUME ReaderInv, Forwarding, UNCHANGED <<input, readerVars, upc, forwarded>>, closed' \in BOOLEAN,
           peer' = peer \/ peer = "up"
    PROVE  ReaderInv' /\ Forwarding'
<1>1. /\ given' = given /\ buf' = buf /\ pos' = pos /\ eof' = eof /\ framing' = framing /\ upc' = upc
      /\ rpc' = rpc /\ scan' = scan /\ header' = header /\ body' = body /\ input' = input /\ forwarded' = forwarded
  BY DEF readerVars
<1>2. ReaderTypes' /\ Scanned'
  BY <1>1 DEF ReaderInv, ReaderTypes, Scanned
<1>3. Window' /\ EndSeen' /\ At' = At
  BY <1>1 DEF ReaderInv, Window, EndSeen, At
<1>4. Framed' /\ Todo' = Todo
  BY <1>1, <1>3 DEF ReaderInv, Framed, InHand, Todo
<1>5. Forwarding'
  <2>1. Astray => Astray'
    BY <1>1, AstrayStays DEF Forwarding
  <2>2. OnCourse => OnCourse'
    BY <1>1, <1>4 DEF OnCourse, Prefix
  <2> QED BY <1>1, <2>1, <2>2 DEF Forwarding
<1> QED BY <1>2, <1>3, <1>4, <1>5 DEF ReaderInv

-----------------------------------------------------------------------------
(***************************************************************************)
(* What a client reads on stdout.                                          *)
(***************************************************************************)
\* A message up to the kind of its blanks is a text.
LEMMA FlatType ==
    ASSUME NEW t \in Seq(Bytes)
    PROVE  /\ Flat(t) \in Seq(Bytes) /\ Len(Flat(t)) = Len(t)
           /\ \A i \in 1..Len(t) : Flat(t)[i] = IF t[i] \in Blank THEN "s" ELSE t[i]
<1>1. "s" \in Bytes
  BY DEF Bytes, Blank
<1> QED BY <1>1 DEF Flat

\* A line or a frame leads on in the bytes.
LEMMA DecodeMoves ==
    ASSUME NEW f, NEW s \in Seq(Bytes), NEW i \in 0..Len(s)
    PROVE  /\ DecodeNext(f, s, i) \in i..Len(s)
           /\ f # NDJSON /\ DecodeNext(f, s, i) # i => i + 8 <= DecodeNext(f, s, i)
<1>1. CASE f = NDJSON
  <2>1. LineFeeds(s, i) # {} => Min(LineFeeds(s, i)) \in (i + 1)..Len(s)
    BY FirstFeed
  <2> QED BY <1>1, <2>1 DEF DecodeNext
<1>2. CASE f # NDJSON
  <2>1. CASE \E d \in 1..Len(Digits) : FrameAt(s, i, d)
    <3>1. PICK d : d = (CHOOSE c \in 1..Len(Digits) : FrameAt(s, i, c))
      OBVIOUS
    <3>2. d \in 1..Len(Digits) /\ FrameAt(s, i, d)
      BY <2>1, <3>1, Zenon
    <3>3. DecodeNext(f, s, i) = i + 7 + d
      BY <1>2, <2>1, <3>1, Zenon DEF DecodeNext
    <3>4. Len(Digits) = 3 /\ i + 7 + d <= Len(s)
      BY <3>2 DEF Digits, FrameAt
    <3> QED BY <3>2, <3>3, <3>4
  <2>2. CASE ~\E d \in 1..Len(Digits) : FrameAt(s, i, d)
    <3>1. DecodeNext(f, s, i) = i
      BY <1>2, <2>2, Zenon DEF DecodeNext
    <3> QED BY <3>1
  <2> QED BY <2>1, <2>2
<1> QED BY <1>1, <1>2

\* What is put out at i.
LEMMA DecodeOutType ==
    ASSUME NEW f, NEW s \in Seq(Bytes), NEW i \in 0..Len(s)
    PROVE  DecodeOut(f, s, i) \in Seq(Seq(Bytes))
<1>1. PICK e \in i..Len(s) : e = DecodeNext(f, s, i) /\ (f # NDJSON /\ e # i => i + 8 <= e)
  BY DecodeMoves
<1>2. DecodeOut(f, s, i) = IF i = Len(s) THEN <<>>
                           ELSE IF e = i THEN <<NULL>>
                           ELSE <<Flat(IF f = NDJSON THEN SubSeq(s, i + 1, e - 1) ELSE SubSeq(s, i + 8, e))>>
  BY <1>1 DEF DecodeOut
<1>3. \A x \in Seq(Bytes) : <<x>> \in Seq(Seq(Bytes))
  OBVIOUS
<1>4. NULL \in Seq(Bytes) /\ <<>> \in Seq(Seq(Bytes))
  BY DEF NULL
<1>5. e # i => SubSeq(s, i + 1, e - 1) \in Seq(Bytes)
  BY <1>1
<1>6. f # NDJSON /\ e # i => SubSeq(s, i + 8, e) \in Seq(Bytes)
  BY <1>1
<1>7. e # i => Flat(IF f = NDJSON THEN SubSeq(s, i + 1, e - 1) ELSE SubSeq(s, i + 8, e)) \in Seq(Bytes)
  BY <1>5, <1>6, FlatType
<1> QED BY <1>2, <1>3, <1>4, <1>7

\* What a client reads, one message at a time.
LEMMA DecodeUnfolds ==
    ASSUME NEW f, NEW s \in Seq(Bytes), NEW p \in 0..Len(s)
    PROVE  DecodeFrom(f, s)[p] = IF DecodeNext(f, s, p) = p THEN DecodeOut(f, s, p)
                                 ELSE DecodeOut(f, s, p) \o DecodeFrom(f, s)[DecodeNext(f, s, p)]
<1> DEFINE D == 0..Len(s)
           N == Len(s)
           rank == [i \in D |-> Len(s) - i]
           nx == [i \in D |-> DecodeNext(f, s, i)]
           out == [i \in D |-> DecodeOut(f, s, i)]
           Def(h) == [i \in D |-> IF DecodeNext(f, s, i) = i THEN DecodeOut(f, s, i)
                                  ELSE DecodeOut(f, s, i) \o h[DecodeNext(f, s, i)]]
<1>1. N \in Nat
  OBVIOUS
<1>2. ASSUME NEW i \in D
      PROVE  rank[i] \in 0..N /\ (nx[i] # i => nx[i] \in D /\ rank[nx[i]] < rank[i])
  <2>1. PICK j \in i..Len(s) : j = DecodeNext(f, s, i)
    BY DecodeMoves
  <2>2. nx[i] = j /\ j \in D /\ rank[i] = Len(s) - i /\ rank[j] = Len(s) - j
    BY <2>1
  <2> HIDE DEF nx, rank
  <2> QED BY <2>2
<1>3. \A i \in D : nx[i] = DecodeNext(f, s, i) /\ out[i] = DecodeOut(f, s, i)
  OBVIOUS
<1> HIDE DEF nx, rank, out
<1>4. PICK g : Walks(g, D, nx, out)
  <2>1. Descends(D, N, rank, nx)
    BY <1>2 DEF Descends
  <2> HIDE DEF N, D
  <2> QED BY <1>1, <2>1, WalkExists
<1>5. g = [d \in D |-> IF nx[d] = d THEN out[d] ELSE out[d] \o g[nx[d]]]
  BY <1>4, Zenon DEF Walks
<1>6. [d \in D |-> IF nx[d] = d THEN out[d] ELSE out[d] \o g[nx[d]]] = Def(g)
  BY <1>3
<1>7. \E h : h = Def(h)
  BY <1>5, <1>6, Zenon
<1>8. PICK h : h = (CHOOSE k : k = Def(k))
  OBVIOUS
<1>9. h = Def(h)
  BY <1>7, <1>8, Zenon
<1>10. DecodeFrom(f, s) = h
  BY <1>8 DEF DecodeFrom
<1>11. Def(h)[p] = IF DecodeNext(f, s, p) = p THEN DecodeOut(f, s, p) ELSE DecodeOut(f, s, p) \o h[DecodeNext(f, s, p)]
  OBVIOUS
<1>12. h[p] = IF DecodeNext(f, s, p) = p THEN DecodeOut(f, s, p) ELSE DecodeOut(f, s, p) \o h[DecodeNext(f, s, p)]
  <2> HIDE DEF Def
  <2> QED BY <1>9, <1>11, Zenon
<1> QED BY <1>10, <1>12

\* What a client reads are texts.
LEMMA DecodeType ==
    ASSUME NEW f, NEW s \in Seq(Bytes), NEW p \in 0..Len(s)
    PROVE  DecodeFrom(f, s)[p] \in Seq(Seq(Bytes))
<1> DEFINE Ok(i) == DecodeFrom(f, s)[i] \in Seq(Seq(Bytes))
           S == {n \in Nat : n <= Len(s) => Ok(Len(s) - n)}
<1>1. ASSUME NEW n \in Nat, \A m \in Nat : m < n => m \in S
      PROVE  n \in S
  <2>1. SUFFICES ASSUME n <= Len(s) PROVE Ok(Len(s) - n)
    OBVIOUS
  <2>2. PICK i \in 0..Len(s) : i = Len(s) - n
    BY <2>1
  <2>3. PICK j \in i..Len(s), o \in Seq(Seq(Bytes)) : j = DecodeNext(f, s, i) /\ o = DecodeOut(f, s, i)
    BY DecodeMoves, DecodeOutType
  <2>4. CASE j = i
    <3>1. DecodeFrom(f, s)[i] = o
      BY <2>3, <2>4, DecodeUnfolds
    <3> QED BY <2>2, <3>1
  <2>5. CASE j # i
    <3>1. Len(s) - j \in Nat /\ Len(s) - j < n /\ Len(s) - j <= Len(s) /\ Len(s) - (Len(s) - j) = j
      BY <2>2, <2>5
    <3>2. Len(s) - j \in S
      BY <1>1, <3>1
    <3>3. DecodeFrom(f, s)[j] \in Seq(Seq(Bytes))
      BY <3>1, <3>2
    <3>4. DecodeFrom(f, s)[i] = o \o DecodeFrom(f, s)[j]
      BY <2>3, <2>5, DecodeUnfolds
    <3>5. \A q, r \in Seq(Seq(Bytes)) : q \o r \in Seq(Seq(Bytes))
      OBVIOUS
    <3> QED BY <2>2, <3>3, <3>4, <3>5
  <2> QED BY <2>4, <2>5
<1> HIDE DEF S
<1>2. Nat \subseteq S
  BY <1>1, CourseOfValues
<1>3. Len(s) - p \in Nat /\ Len(s) - p <= Len(s) /\ Len(s) - (Len(s) - p) = p
  OBVIOUS
<1>4. Ok(p)
  <2> HIDE DEF Ok
  <2> QED BY <1>2, <1>3 DEF S
<1> QED BY <1>4

\* A frame at i has one length.
LEMMA FrameNext ==
    ASSUME NEW f, f # NDJSON, NEW s \in Seq(Bytes), NEW i \in 0..Len(s), NEW d \in 1..Len(Digits), FrameAt(s, i, d)
    PROVE  DecodeNext(f, s, i) = i + 7 + d
<1>1. ASSUME NEW c \in 1..Len(Digits), FrameAt(s, i, c)
      PROVE  c = d
  <2>1. <<"c", ":", Digits[c], "r", "n", "r", "n">> = <<"c", ":", Digits[d], "r", "n", "r", "n">>
    BY <1>1 DEF FrameAt
  <2>2. \A x, y : <<"c", ":", x, "r", "n", "r", "n">> = <<"c", ":", y, "r", "n", "r", "n">> => x = y
    OBVIOUS
  <2>3. Digits[c] = Digits[d]
    BY <2>1, <2>2
  <2> QED BY <2>3 DEF Digits
<1>2. (CHOOSE c \in 1..Len(Digits) : FrameAt(s, i, c)) = d
  BY <1>1, Zenon
<1>3. \E c \in 1..Len(Digits) : FrameAt(s, i, c)
  BY Zenon
<1> QED BY <1>2, <1>3 DEF DecodeNext

\* What has been read stays as it is when more bytes are written.
LEMMA DecodeAgain ==
    ASSUME NEW f, NEW w \in Seq(Bytes), NEW s \in Seq(Bytes), Piece(s, w, 0, Len(s)),
           NEW i \in 0..Len(s), DecodeNext(f, s, i) # i
    PROVE  DecodeNext(f, w, i) = DecodeNext(f, s, i) /\ DecodeOut(f, w, i) = DecodeOut(f, s, i)
<1>1. PICK n \in Nat : n = Len(s) /\ n <= Len(w)
  <2>1. Len(s) <= Len(w)
    BY Zenon DEF Piece
  <2>2. Len(s) \in Nat
    OBVIOUS
  <2> QED BY <2>1, <2>2
<1>2. PICK e \in (i + 1)..n : e = DecodeNext(f, s, i) /\ (f # NDJSON => i + 8 <= e)
  BY <1>1, DecodeMoves
<1>3. SameParts(s, w, 0, n) /\ Piece(s, w, 0, n) /\ n - 0 = n /\ 0 \in Nat
  BY <1>1, PartsOfPiece
<1>4. \A p \in 0..n : \A q \in p..n : SubSeq(s, p + 1, q) = SubSeq(w, p + 1, q)
  <2>1. ASSUME NEW p \in 0..n, NEW q \in p..n
        PROVE  SubSeq(s, p + 1, q) = SubSeq(w, p + 1, q)
    <3>1. SubSeq(s, p + 1, q) = SubSeq(w, (0 + p) + 1, 0 + q)
      <4>1. p \in 0..(n - 0) /\ q \in p..(n - 0)
        BY <1>3
      <4>2. SameParts(s, w, 0, n)
        BY <1>3
      <4> HIDE <1>3
      <4> QED BY <4>1, <4>2 DEF SameParts
    <3>2. 0 + p = p /\ 0 + q = q
      OBVIOUS
    <3> QED BY <3>1, <3>2
  <2> QED BY <2>1, Zenon
<1>5. i # Len(s) /\ i # Len(w) /\ i \in 0..Len(w)
  BY <1>1, <1>2
<1>6. CASE f = NDJSON
  <2>1. LineFeeds(s, i) # {} /\ e = Min(LineFeeds(s, i))
    BY <1>2, <1>6 DEF DecodeNext
  <2>2. LineFeeds(w, 0 + i) # {} /\ Min(LineFeeds(w, 0 + i)) = 0 + Min(LineFeeds(s, i))
    <3>1. i \in 0..(n - 0)
      BY <1>1
    <3> QED BY <1>3, <2>1, <3>1, FeedInPiece
  <2>3. DecodeNext(f, w, i) = e
    BY <1>2, <1>6, <2>1, <2>2 DEF DecodeNext
  <2>4. SubSeq(s, i + 1, e - 1) = SubSeq(w, i + 1, e - 1)
    BY <1>1, <1>4
  <2>5. e # i
    BY <1>2
  <2> QED BY <1>2, <1>5, <1>6, <2>3, <2>4, <2>5 DEF DecodeOut
<1>7. CASE f # NDJSON
  <2>1. PICK d \in 1..Len(Digits) : FrameAt(s, i, d)
    BY <1>2, <1>7 DEF DecodeNext
  <2>2. Len(Digits) = 3 /\ i + 7 + d <= n /\ d \in 1..3
    BY <1>1, <2>1 DEF FrameAt, Digits
  <2>3. FrameAt(w, i, d)
    <3>1. SubSeq(s, i + 1, i + 7) = SubSeq(w, i + 1, i + 7)
      BY <1>1, <1>4, <2>2
    <3>2. SubSeq(s, i + 1, i + 7) = <<"c", ":", Digits[d], "r", "n", "r", "n">>
      BY <2>1 DEF FrameAt
    <3>3. i + 7 + d <= Len(w)
      BY <1>1, <2>2
    <3> QED BY <3>1, <3>2, <3>3, Zenon DEF FrameAt
  <2>4. DecodeNext(f, w, i) = i + 7 + d /\ DecodeNext(f, s, i) = i + 7 + d
    BY <1>5, <1>7, <2>1, <2>3, FrameNext
  <2>5. SubSeq(s, i + 8, e) = SubSeq(w, i + 8, e)
    <3>1. i + 7 \in 0..n /\ (i + 7) + 1 = i + 8 /\ i + 7 <= e /\ e \in 0..n
      BY <1>2, <1>7
    <3>2. PICK c \in Nat : c = i + 7
      BY <3>1
    <3>3. c \in 0..n /\ e \in c..n
      BY <3>1, <3>2
    <3>4. SubSeq(s, c + 1, e) = SubSeq(w, c + 1, e)
      BY <1>4, <3>3, Zenon
    <3> QED BY <3>1, <3>2, <3>4
  <2>6. DecodeNext(f, w, i) = e /\ e # i
    BY <1>2, <2>4
  <2> QED BY <1>2, <1>5, <1>7, <2>5, <2>6 DEF DecodeOut
<1> QED BY <1>6, <1>7

\* w is s with e behind it.
Behind(w, s, e) ==
    /\ w \in Seq(Bytes) /\ Len(w) = Len(s) + Len(e) /\ Piece(s, w, 0, Len(s))
    /\ \A k \in 1..Len(e) : w[Len(s) + k] = e[k]

\* The bytes of a message in the framing f.
LEMMA EncodeType ==
    ASSUME NEW f, NEW msg \in Seq(Bytes), Len(msg) \in 1..Len(Digits)
    PROVE  dxr_stdio_encode(f, msg) \in Seq(Bytes)
<1>1. Len(Digits) = 3 /\ \A d \in 1..3 : Digits[d] \in Bytes
  BY DEF Digits, Bytes
<1>2. {"c", ":", "r", "n", "s"} \subseteq Bytes
  BY DEF Bytes, Blank
<1>3. CASE f = CONTENT_LENGTH
  <2>1. <<"c", ":", Digits[Len(msg)], "r", "n", "r", "n">> \in Seq(Bytes)
    <3>1. \A c1, c2, c3, c4, c5 \in Bytes : <<c1, c2, c3, c4, c5, c4, c5>> \in Seq(Bytes)
      OBVIOUS
    <3>2. Digits[Len(msg)] \in Bytes
      BY <1>1
    <3> QED BY <1>2, <3>1, <3>2
  <2>2. <<"c", ":", Digits[Len(msg)], "r", "n", "r", "n">> \o msg \in Seq(Bytes)
    BY <2>1, ConcatProperties
  <2> QED BY <1>3, <2>2 DEF dxr_stdio_encode
<1>4. CASE f # CONTENT_LENGTH
  <2>1. [i \in 1..Len(msg) |-> IF msg[i] \in {"r", "n"} THEN "s" ELSE msg[i]] \in Seq(Bytes)
    BY <1>2
  <2>2. Append([i \in 1..Len(msg) |-> IF msg[i] \in {"r", "n"} THEN "s" ELSE msg[i]], "n") \in Seq(Bytes)
    BY <1>2, <2>1, AppendProperties
  <2> QED BY <1>4, <2>2 DEF dxr_stdio_encode
<1> QED BY <1>3, <1>4

\* All of a piece.
LEMMA WholePiece ==
    ASSUME NEW w \in Seq(Bytes), NEW t \in Seq(Bytes), NEW a \in Nat, NEW n \in Nat, n = Len(t), Piece(t, w, a, a + n)
    PROVE  SubSeq(w, a + 1, a + n) = t
<1>1. SameParts(t, w, a, a + n)
  BY PartsOfPiece
<1>2. 0 \in 0..((a + n) - a) /\ n \in 0..((a + n) - a)
  OBVIOUS
<1>3. SubSeq(t, 0 + 1, n) = SubSeq(w, (a + 0) + 1, a + n)
  BY <1>1, <1>2 DEF SameParts
<1>4. 0 + 1 = 1 /\ a + 0 = a
  OBVIOUS
<1>5. SubSeq(t, 1, Len(t)) = t
  OBVIOUS
<1> QED BY <1>3, <1>4, <1>5

\* The last message in lines.
LEMMA LastLine ==
    ASSUME NEW msg \in Seq(Bytes), Len(msg) \in 1..Len(Digits), NEW s \in Seq(Bytes), NEW w,
           Behind(w, s, dxr_stdio_encode(NDJSON, msg))
    PROVE  DecodeNext(NDJSON, w, Len(s)) = Len(w) /\ DecodeOut(NDJSON, w, Len(s)) = <<Flat(msg)>>
           /\ Len(w) > Len(s)
<1> DEFINE t == [i \in 1..Len(msg) |-> IF msg[i] \in {"r", "n"} THEN "s" ELSE msg[i]]
<1>1. "n" \in Bytes /\ "s" \in Bytes /\ "n" \in Blank /\ "r" \in Blank /\ "s" \in Blank
  BY DEF Bytes, Blank
<1>2. PICK n \in Nat : n = Len(msg) /\ n >= 1
  BY DEF Digits
<1>3. /\ t \in Seq(Bytes) /\ Len(t) = n
      /\ \A i \in 1..n : t[i] = IF msg[i] \in {"r", "n"} THEN "s" ELSE msg[i]
  BY <1>1, <1>2
<1>4. dxr_stdio_encode(NDJSON, msg) = Append(t, "n")
  BY DEF dxr_stdio_encode, NDJSON, CONTENT_LENGTH
<1> HIDE DEF t
<1>5. PICK e \in Seq(Bytes) : /\ e = dxr_stdio_encode(NDJSON, msg) /\ Len(e) = n + 1 /\ e[n + 1] = "n"
                              /\ \A i \in 1..n : e[i] = t[i]
  <2>1. /\ Append(t, "n") \in Seq(Bytes) /\ Len(Append(t, "n")) = n + 1 /\ Append(t, "n")[n + 1] = "n"
        /\ \A i \in 1..n : Append(t, "n")[i] = t[i]
    BY <1>1, <1>3, AppendProperties
  <2> QED BY <1>4, <2>1
<1>6. PICK a \in Nat : a = Len(s)
  OBVIOUS
<1>7. /\ w \in Seq(Bytes) /\ Len(w) = (a + n) + 1 /\ w[(a + n) + 1] = "n"
      /\ \A i \in 1..n : w[a + i] = t[i]
  <2>1. w \in Seq(Bytes) /\ Len(w) = a + Len(e) /\ \A k \in 1..Len(e) : w[a + k] = e[k]
    BY <1>5, <1>6 DEF Behind
  <2>2. n + 1 \in 1..Len(e) /\ a + (n + 1) = (a + n) + 1
    BY <1>5
  <2>3. \A i \in 1..n : i \in 1..Len(e)
    BY <1>5
  <2> QED BY <1>5, <2>1, <2>2, <2>3
<1>8. \A i \in 1..n : t[i] # "n"
  BY <1>3
<1>9. \A i \in 1..n : w[a + i] # "n"
  BY <1>7, <1>8
<1>10. ASSUME NEW i \in LineFeeds(w, a)
       PROVE  (a + n) + 1 <= i
  <2>1. i \in (a + 1)..((a + n) + 1) /\ w[i] = "n"
    BY <1>7 DEF LineFeeds
  <2>2. SUFFICES ASSUME i <= a + n PROVE FALSE
    BY <2>1
  <2>3. PICK k \in 1..n : i = a + k
    <3>1. i - a \in 1..n /\ i = a + (i - a)
      BY <2>1, <2>2
    <3> QED BY <3>1
  <2> QED BY <1>9, <2>1, <2>3
<1>11. (a + n) + 1 \in LineFeeds(w, a)
  BY <1>7 DEF LineFeeds
<1>12. LineFeeds(w, a) \in SUBSET Nat
  BY DEF LineFeeds
<1>13. Min(LineFeeds(w, a)) = (a + n) + 1
  BY <1>10, <1>11, <1>12, MinUnique
<1>14. DecodeNext(NDJSON, w, a) = (a + n) + 1
  BY <1>11, <1>13 DEF DecodeNext
<1>15. Piece(t, w, a, a + n)
  <2>1. (a + n) - a = n /\ a <= a + n /\ a + n <= Len(w)
    BY <1>7
  <2> QED BY <1>3, <1>7, <2>1 DEF Piece
<1>16. SubSeq(w, a + 1, a + n) = t
  BY <1>3, <1>7, <1>15, WholePiece
<1>18. Flat(t) = Flat(msg)
  <2>1. /\ Flat(t) \in Seq(Bytes) /\ Len(Flat(t)) = n
        /\ \A i \in 1..n : Flat(t)[i] = IF t[i] \in Blank THEN "s" ELSE t[i]
    BY <1>3, FlatType
  <2>2. /\ Flat(msg) \in Seq(Bytes) /\ Len(Flat(msg)) = n
        /\ \A i \in 1..n : Flat(msg)[i] = IF msg[i] \in Blank THEN "s" ELSE msg[i]
    BY <1>2, FlatType
  <2>3. ASSUME NEW i \in 1..n PROVE Flat(t)[i] = Flat(msg)[i]
    BY <1>1, <1>3, <2>1, <2>2
  <2> QED BY <2>1, <2>2, <2>3, SeqEqual
<1>19. DecodeOut(NDJSON, w, a) = <<Flat(SubSeq(w, a + 1, ((a + n) + 1) - 1))>>
  <2>1. a # Len(w) /\ (a + n) + 1 # a
    BY <1>7
  <2> QED BY <1>14, <2>1 DEF DecodeOut
<1>20. ((a + n) + 1) - 1 = a + n
  OBVIOUS
<1>21. DecodeOut(NDJSON, w, a) = <<Flat(msg)>>
  BY <1>16, <1>18, <1>19, <1>20
<1> QED BY <1>6, <1>7, <1>14, <1>21

\* The last message in frames.
LEMMA LastFrame ==
    ASSUME NEW msg \in Seq(Bytes), Len(msg) \in 1..Len(Digits), NEW s \in Seq(Bytes), NEW w,
           Behind(w, s, dxr_stdio_encode(CONTENT_LENGTH, msg))
    PROVE  /\ DecodeNext(CONTENT_LENGTH, w, Len(s)) = Len(w)
           /\ DecodeOut(CONTENT_LENGTH, w, Len(s)) = <<Flat(msg)>> /\ Len(w) > Len(s)
<1> DEFINE t == <<"c", ":", Digits[Len(msg)], "r", "n", "r", "n">>
<1>1. PICK n \in Nat : n = Len(msg) /\ n >= 1 /\ n \in 1..Len(Digits)
  BY DEF Digits
<1>2. t \in Seq(Bytes) /\ Len(t) = 7
  <2>1. Len(Digits) = 3 /\ \A d \in 1..3 : Digits[d] \in Bytes
    BY DEF Digits, Bytes
  <2>2. {"c", ":", "r", "n"} \subseteq Bytes
    BY DEF Bytes, Blank
  <2>3. \A c1, c2, c3, c4, c5 \in Bytes :
          <<c1, c2, c3, c4, c5, c4, c5>> \in Seq(Bytes) /\ Len(<<c1, c2, c3, c4, c5, c4, c5>>) = 7
    OBVIOUS
  <2>4. Digits[Len(msg)] \in Bytes
    BY <2>1
  <2> QED BY <2>2, <2>3, <2>4
<1>3. dxr_stdio_encode(CONTENT_LENGTH, msg) = t \o msg /\ t = <<"c", ":", Digits[n], "r", "n", "r", "n">>
  BY <1>1 DEF dxr_stdio_encode
<1> HIDE DEF t
<1>20. PICK h \in Nat : h = 7
  OBVIOUS
<1>21. Len(t) = h
  BY <1>2, <1>20
<1>4. PICK e \in Seq(Bytes) : /\ e = dxr_stdio_encode(CONTENT_LENGTH, msg) /\ Len(e) = h + n
                              /\ \A i \in 1..h : e[i] = t[i]
                              /\ \A i \in 1..n : e[h + i] = msg[i]
  <2>1. /\ t \o msg \in Seq(Bytes) /\ Len(t \o msg) = h + n
        /\ \A i \in 1..(h + n) : (t \o msg)[i] = IF i <= h THEN t[i] ELSE msg[i - h]
    BY <1>1, <1>2, <1>21, ConcatProperties, ZenonT(60)
  <2>2. \A i \in 1..h : (t \o msg)[i] = t[i]
    BY <2>1
  <2>3. ASSUME NEW i \in 1..n PROVE (t \o msg)[h + i] = msg[i]
    <3>1. h + i \in 1..(h + n) /\ ~(h + i <= h) /\ (h + i) - h = i
      OBVIOUS
    <3> QED BY <2>1, <3>1
  <2> QED BY <1>3, <2>1, <2>2, <2>3
<1>5. PICK a \in Nat : a = Len(s)
  OBVIOUS
<1>6. /\ w \in Seq(Bytes) /\ Len(w) = (a + h) + n
      /\ \A i \in 1..h : w[a + i] = t[i]
      /\ \A i \in 1..n : w[(a + h) + i] = msg[i]
  <2>1. w \in Seq(Bytes) /\ Len(w) = a + Len(e) /\ \A k \in 1..Len(e) : w[a + k] = e[k]
    BY <1>4, <1>5 DEF Behind
  <2>2. \A i \in 1..h : w[a + i] = t[i]
    BY <1>4, <2>1
  <2>3. ASSUME NEW i \in 1..n PROVE w[(a + h) + i] = msg[i]
    <3>1. h + i \in 1..Len(e) /\ a + (h + i) = (a + h) + i
      BY <1>4
    <3> QED BY <1>4, <2>1, <3>1
  <2> QED BY <1>4, <2>1, <2>2, <2>3
<1>7. Piece(t, w, a, a + h) /\ Piece(msg, w, a + h, (a + h) + n)
  <2>1. (a + h) - a = h /\ a <= a + h /\ a + h <= Len(w)
    BY <1>6
  <2>2. ((a + h) + n) - (a + h) = n /\ a + h <= (a + h) + n /\ (a + h) + n <= Len(w)
    BY <1>6
  <2>3. Piece(t, w, a, a + h)
    BY <1>2, <1>21, <1>6, <2>1 DEF Piece
  <2>4. Piece(msg, w, a + h, (a + h) + n)
    BY <1>1, <1>6, <2>2 DEF Piece
  <2> QED BY <2>3, <2>4
<1>8. SubSeq(w, a + 1, a + h) = t /\ SubSeq(w, (a + h) + 1, (a + h) + n) = msg
  <2>1. SubSeq(w, a + 1, a + h) = t
    BY <1>2, <1>21, <1>6, <1>7, WholePiece, ZenonT(60)
  <2>2. a + h \in Nat
    OBVIOUS
  <2>3. SubSeq(w, (a + h) + 1, (a + h) + n) = msg
    <3>1. PICK c \in Nat : c = a + h
      BY <2>2
    <3>2. Piece(msg, w, c, c + n)
      BY <1>7, <3>1
    <3>3. w \in Seq(Bytes) /\ n = Len(msg)
      BY <1>1, <1>6
    <3>4. SubSeq(w, c + 1, c + n) = msg
      BY <3>2, <3>3, WholePiece, ZenonT(60)
    <3> QED BY <3>1, <3>4
  <2> QED BY <2>1, <2>3
<1>22. /\ a + 7 + n <= Len(w) /\ a # Len(w) /\ a + 7 + n # a /\ a \in 0..Len(w)
       /\ a + 7 + n = Len(w) /\ Len(w) > a
  <2>1. Len(w) = (a + h) + n
    BY <1>6
  <2>2. PICK l \in Nat : l = Len(w)
    BY <2>1
  <2> QED BY <1>1, <1>20, <2>1, <2>2
<1>9. FrameAt(w, a, n)
  <2>1. a + 7 + n <= Len(w)
    BY <1>22
  <2>2. SubSeq(w, a + 1, a + 7) = <<"c", ":", Digits[n], "r", "n", "r", "n">>
    BY <1>3, <1>8, <1>20, Zenon
  <2> QED BY <2>1, <2>2, Zenon DEF FrameAt
<1>10. DecodeNext(CONTENT_LENGTH, w, a) = a + 7 + n
  <2>1. CONTENT_LENGTH # NDJSON
    BY DEF CONTENT_LENGTH, NDJSON
  <2> QED BY <1>1, <1>6, <1>9, <1>22, <2>1, FrameNext
<1>11. DecodeOut(CONTENT_LENGTH, w, a) = <<Flat(SubSeq(w, a + 8, a + 7 + n))>>
  <2>1. CONTENT_LENGTH # NDJSON
    BY DEF CONTENT_LENGTH, NDJSON
  <2> QED BY <1>10, <1>22, <2>1 DEF DecodeOut
<1>12. a + 8 = (a + h) + 1 /\ a + 7 + n = (a + h) + n
  BY <1>20
<1>13. DecodeOut(CONTENT_LENGTH, w, a) = <<Flat(msg)>>
  BY <1>8, <1>11, <1>12
<1> QED BY <1>5, <1>10, <1>13, <1>22

\* Nothing is left at the end.
LEMMA DecodeAtEnd ==
    ASSUME NEW f, NEW s \in Seq(Bytes)
    PROVE  DecodeFrom(f, s)[Len(s)] = <<>>
<1>1. Len(s) \in 0..Len(s)
  OBVIOUS
<1>2. DecodeNext(f, s, Len(s)) = Len(s)
  <2>1. DecodeNext(f, s, Len(s)) \in Len(s)..Len(s)
    BY <1>1, DecodeMoves
  <2> QED BY <2>1
<1>3. DecodeOut(f, s, Len(s)) = <<>>
  BY DEF DecodeOut
<1> QED BY <1>1, <1>2, <1>3, DecodeUnfolds

\* Every message in q is one.
Clean(q) == \A k \in 1..Len(q) : q[k] # NULL

\* A last part of what is clean is clean.
LEMMA CleanTail ==
    ASSUME NEW q \in Seq(Seq(Bytes)), NEW r \in Seq(Seq(Bytes)), Clean(q \o r)
    PROVE  Clean(q) /\ Clean(r)
<1>1. /\ Len(q \o r) = Len(q) + Len(r)
      /\ \A i \in 1..(Len(q) + Len(r)) : (q \o r)[i] = IF i <= Len(q) THEN q[i] ELSE r[i - Len(q)]
  BY ConcatProperties
<1>2. ASSUME NEW k \in 1..Len(q) PROVE q[k] # NULL
  BY <1>1 DEF Clean
<1>3. ASSUME NEW k \in 1..Len(r) PROVE r[k] # NULL
  <2>1. Len(q) + k \in 1..(Len(q) + Len(r)) /\ ~(Len(q) + k <= Len(q)) /\ (Len(q) + k) - Len(q) = k
    OBVIOUS
  <2>2. (q \o r)[Len(q) + k] = r[k]
    BY <1>1, <2>1
  <2> QED BY <1>1, <2>1, <2>2 DEF Clean
<1> QED BY <1>2, <1>3 DEF Clean

\* The last message, written behind bytes that the client can read.
LEMMA LastMessage ==
    ASSUME NEW f \in {NDJSON, CONTENT_LENGTH}, NEW msg \in Seq(Bytes), Len(msg) \in 1..Len(Digits),
           NEW s \in Seq(Bytes), NEW w \in Seq(Bytes), Behind(w, s, dxr_stdio_encode(f, msg))
    PROVE  DecodeFrom(f, w)[Len(s)] = <<Flat(msg)>>
<1>1. DecodeNext(f, w, Len(s)) = Len(w) /\ DecodeOut(f, w, Len(s)) = <<Flat(msg)>> /\ Len(w) > Len(s)
  <2>1. CASE f = NDJSON
    BY <2>1, LastLine
  <2>2. CASE f = CONTENT_LENGTH
    BY <2>2, LastFrame
  <2> QED BY <2>1, <2>2
<1>2. Len(s) \in 0..Len(w) /\ Len(w) # Len(s)
  BY <1>1
<1>3. DecodeFrom(f, w)[Len(s)] = <<Flat(msg)>> \o <<>>
  <2>1. PICK p \in 0..Len(w) : p = Len(s)
    BY <1>2
  <2>2. DecodeFrom(f, w)[p] = DecodeOut(f, w, p) \o DecodeFrom(f, w)[DecodeNext(f, w, p)]
    <3>1. DecodeNext(f, w, p) # p
      BY <1>1, <1>2, <2>1
    <3> QED BY <3>1, DecodeUnfolds
  <2>3. DecodeFrom(f, w)[Len(w)] = <<>>
    BY DecodeAtEnd
  <2>4. DecodeNext(f, w, p) = Len(w) /\ DecodeOut(f, w, p) = <<Flat(msg)>>
    BY <1>1, <2>1
  <2> QED BY <2>1, <2>2, <2>3, <2>4, Zenon
<1>4. <<Flat(msg)>> \in Seq(Seq(Bytes))
  <2>1. Flat(msg) \in Seq(Bytes)
    BY FlatType
  <2> QED BY <2>1
<1>5. \A q \in Seq(Seq(Bytes)) : q \o <<>> = q
  OBVIOUS
<1> QED BY <1>3, <1>4, <1>5

\* Three sequences of messages in a row.
LEMMA Regrouped ==
    ASSUME NEW x \in Seq(Seq(Bytes)), NEW y \in Seq(Seq(Bytes)), NEW z \in Seq(Seq(Bytes))
    PROVE  (x \o y) \o z = x \o (y \o z)
BY ConcatAssociative, SMTT(40)

\* From p on, w reads as s does, with msg behind it.
ReadsOn(f, w, s, p, msg) == DecodeFrom(f, w)[p] = DecodeFrom(f, s)[p] \o <<Flat(msg)>>

\* The client reads what it has read before, and the message.
LEMMA DecodeBehind ==
    ASSUME NEW f \in {NDJSON, CONTENT_LENGTH}, NEW msg \in Seq(Bytes), Len(msg) \in 1..Len(Digits),
           NEW s \in Seq(Bytes), NEW w \in Seq(Bytes), Behind(w, s, dxr_stdio_encode(f, msg)),
           NEW p \in 0..Len(s), Clean(DecodeFrom(f, s)[p])
    PROVE  ReadsOn(f, w, s, p, msg)
<1> DEFINE Ok(i) == Clean(DecodeFrom(f, s)[i]) => DecodeFrom(f, w)[i] = DecodeFrom(f, s)[i] \o <<Flat(msg)>>
           S == {n \in Nat : n <= Len(s) => Ok(Len(s) - n)}
<1>0. Piece(s, w, 0, Len(s)) /\ Len(s) <= Len(w)
  BY Zenon DEF Behind, Piece
<1>6. \A n \in Nat : n <= Len(s) => Len(s) - n \in 0..Len(s)
  OBVIOUS
<1>5. PICK m \in Seq(Seq(Bytes)) : m = <<Flat(msg)>>
  <2>1. Flat(msg) \in Seq(Bytes)
    BY FlatType
  <2>2. \A x \in Seq(Bytes) : <<x>> \in Seq(Seq(Bytes))
    OBVIOUS
  <2>3. <<Flat(msg)>> \in Seq(Seq(Bytes))
    BY <2>1, <2>2, Zenon
  <2> QED BY <2>3, Zenon
<1>1. ASSUME NEW n \in Nat, \A m2 \in Nat : m2 < n => m2 \in S
      PROVE  n \in S
  <2>1. SUFFICES ASSUME n <= Len(s) PROVE Ok(Len(s) - n)
    OBVIOUS
  <2>2. PICK i \in 0..Len(s) : i = Len(s) - n
    BY <1>6, <2>1, Zenon
  <2>3. PICK j \in i..Len(s), o \in Seq(Seq(Bytes)) : j = DecodeNext(f, s, i) /\ o = DecodeOut(f, s, i)
    BY DecodeMoves, DecodeOutType
  <2>6. SUFFICES ASSUME Clean(DecodeFrom(f, s)[i])
                 PROVE  DecodeFrom(f, w)[i] = DecodeFrom(f, s)[i] \o m
    BY <1>5, <2>2
  <2>7. i \in 0..Len(w)
    BY <1>0
  <2>4. CASE j = i
    <3>1. CASE i = Len(s)
      <4>1. DecodeFrom(f, s)[i] = <<>> /\ DecodeFrom(f, w)[i] = m
        BY <1>5, <3>1, DecodeAtEnd, LastMessage
      <4>2. <<>> \o m = m
        OBVIOUS
      <4> QED BY <4>1, <4>2
    <3>2. CASE i # Len(s)
      <4>1. DecodeFrom(f, s)[i] = <<NULL>>
        <5>1. DecodeFrom(f, s)[i] = DecodeOut(f, s, i)
          BY <2>3, <2>4, DecodeUnfolds
        <5>2. DecodeOut(f, s, i) = <<NULL>>
          BY <2>3, <2>4, <3>2 DEF DecodeOut
        <5> QED BY <5>1, <5>2
      <4>2. ~Clean(<<NULL>>)
        BY DEF Clean
      <4> QED BY <2>6, <4>1, <4>2
    <3> QED BY <3>1, <3>2
  <2>5. CASE j # i
    <3>1. Len(s) - j \in Nat /\ Len(s) - j < n /\ Len(s) - j <= Len(s) /\ Len(s) - (Len(s) - j) = j
      BY <2>2, <2>5
    <3>2. Len(s) - j \in S
      BY <1>1, <3>1
    <3>3. Ok(j)
      BY <3>1, <3>2
    <3>4. DecodeFrom(f, s)[i] = o \o DecodeFrom(f, s)[j]
      BY <2>3, <2>5, DecodeUnfolds
    <3>5. PICK r \in Seq(Seq(Bytes)) : r = DecodeFrom(f, s)[j]
      <4>1. j \in 0..Len(s)
        OBVIOUS
      <4> QED BY <4>1, DecodeType
    <3>6. Clean(r)
      BY <2>6, <3>4, <3>5, CleanTail
    <3>7. DecodeFrom(f, w)[j] = r \o m
      BY <1>5, <3>3, <3>5, <3>6
    <3>8. DecodeNext(f, w, i) = j /\ DecodeOut(f, w, i) = o
      BY <1>0, <2>3, <2>5, DecodeAgain
    <3>9. DecodeFrom(f, w)[i] = o \o (r \o m)
      BY <2>5, <2>7, <3>7, <3>8, DecodeUnfolds, ZenonT(60)
    <3>10. (o \o r) \o m = o \o (r \o m)
      <4> HIDE <1>5
      <4> QED BY Regrouped
    <3> QED BY <3>4, <3>5, <3>9, <3>10
  <2> QED BY <2>4, <2>5
<1> HIDE DEF S
<1>2. Nat \subseteq S
  BY <1>1, CourseOfValues
<1>3. Len(s) - p \in Nat /\ Len(s) - p <= Len(s) /\ Len(s) - (Len(s) - p) = p
  OBVIOUS
<1>4. Ok(p)
  <2> HIDE DEF Ok
  <2> QED BY <1>2, <1>3 DEF S
<1> QED BY <1>4 DEF ReadsOn

\* The same of the bytes on stdout.
LEMMA DecodeAppends ==
    ASSUME NEW f \in {NDJSON, CONTENT_LENGTH}, NEW msg \in Seq(Bytes), Len(msg) \in 1..Len(Digits),
           NEW s \in Seq(Bytes), Clean(Decode(f, s))
    PROVE  /\ s \o dxr_stdio_encode(f, msg) \in Seq(Bytes)
           /\ Decode(f, s \o dxr_stdio_encode(f, msg)) = Decode(f, s) \o <<Flat(msg)>>
<1>1. PICK e \in Seq(Bytes) : e = dxr_stdio_encode(f, msg)
  BY EncodeType
<1>2. /\ s \o e \in Seq(Bytes) /\ Len(s \o e) = Len(s) + Len(e)
      /\ \A i \in 1..(Len(s) + Len(e)) : (s \o e)[i] = IF i <= Len(s) THEN s[i] ELSE e[i - Len(s)]
  BY ConcatProperties
<1>3. PICK w \in Seq(Bytes) : w = s \o e
  BY <1>2
<1>4. /\ Len(w) = Len(s) + Len(e)
      /\ \A i \in 1..(Len(s) + Len(e)) : w[i] = IF i <= Len(s) THEN s[i] ELSE e[i - Len(s)]
  BY <1>2, <1>3
<1> HIDE <1>3
<1>5. Behind(w, s, e)
  <2>1. PICK a \in Nat, b \in Nat : a = Len(s) /\ b = Len(e)
    OBVIOUS
  <2>2. ASSUME NEW k \in 1..b PROVE w[a + k] = e[k]
    <3>1. a + k \in 1..(a + b) /\ ~(a + k <= a) /\ (a + k) - a = k
      OBVIOUS
    <3> QED BY <1>4, <2>1, <3>1
  <2>3. Piece(s, w, 0, a)
    <3>1. ASSUME NEW k \in 1..(a - 0) PROVE s[k] = w[0 + k]
      <4>1. 0 + k = k /\ k \in 1..(a + b) /\ k <= a
        OBVIOUS
      <4> QED BY <1>4, <2>1, <4>1
    <3>2. 0 <= a /\ a <= Len(w) /\ Len(s) = a - 0
      BY <1>4, <2>1
    <3> QED BY <3>1, <3>2, Zenon DEF Piece
  <2> QED BY <1>4, <2>1, <2>2, <2>3 DEF Behind
<1>6. 0 \in 0..Len(s)
  OBVIOUS
<1>7. DecodeFrom(f, w)[0] = DecodeFrom(f, s)[0] \o <<Flat(msg)>>
  <2>1. Behind(w, s, dxr_stdio_encode(f, msg)) /\ Clean(DecodeFrom(f, s)[0])
    BY <1>1, <1>5, Zenon DEF Decode
  <2>2. PICK p \in 0..Len(s) : p = 0
    BY <1>6
  <2>3. Behind(w, s, dxr_stdio_encode(f, msg)) /\ Clean(DecodeFrom(f, s)[p])
    BY <2>1, <2>2
  <2>4. ReadsOn(f, w, s, p, msg)
    BY <2>3, DecodeBehind, Zenon
  <2> QED BY <2>2, <2>4 DEF ReadsOn
<1>8. s \o dxr_stdio_encode(f, msg) = w
  BY <1>1, <1>3
<1> QED BY <1>7, <1>8 DEF Decode

-----------------------------------------------------------------------------
(***************************************************************************)
(* The latch, the parts of frames on their way, and what is on stdout.     *)
(***************************************************************************)
\* The framing of the replies, once it is known.
Spoken == IF latch = UNKNOWN THEN NDJSON ELSE latch

\* The latch holds the framing of the client's messages, from the first of them
\* on, or that of lines when there was none.
Latched ==
    /\ latch # UNKNOWN => latch \in ClientFramings
    /\ latch = UNKNOWN => /\ forwarded = <<>> /\ stdout = <<>> /\ upc \in {"next", "done"}
                          /\ upc = "done" => NDJSON \in ClientFramings

\* Half a frame, when b.
Half(b) == IF b THEN 1 ELSE 0

\* The parts of frames that the server has written and that are on their way.
Counted ==
    /\ inq \in Seq(Nat) /\ got \in Nat /\ sent \in 0..(2 * input.replies)
    /\ (2 * got + Half(dpc = "body")) + (Half(rd = "ok") + Len(inq)) <= sent
    /\ dpc \in {"latch", "asleep"} => got >= 1

\* The first n messages of the server, as the client reads them.
Bodies(n) == [i \in 1..n |-> Flat(ServerBodies[i])]

\* Of the frames that the down pump has read, the first n are on stdout: all of
\* them, but for the one that it has in hand or could not write.
Shown(n) ==
    /\ Decode(Spoken, stdout) = Bodies(n)
    /\ dpc \in {"latch", "asleep"} => n = got - 1
    /\ dpc \in {"header", "body"} \/ (dpc = "done" /\ stdoutOpen) => n = got

Printed == stdout \in Seq(Bytes) /\ \E n \in 0..got : Shown(n)

PumpInv == PumpTypes /\ MainLast /\ Latched /\ Counted /\ Printed

\* The inductive invariant.
IInv == ReaderInv /\ Forwarding /\ PumpInv

\* The replies have a framing.
LEMMA SpokenType ==
    ASSUME PumpTypes
    PROVE  Spoken \in {NDJSON, CONTENT_LENGTH}
BY DEF PumpTypes, Spoken

\* The framing of the client's input is one that it may speak.
LEMMA FramingIsSpoken ==
    ASSUME input \in Inputs, input.msgs # <<>>
    PROVE  FramingOf(input.bytes) \in ClientFramings
<1>1. input.framing = FramingOf(input.bytes)
  BY InputIs
<1> QED BY <1>1 DEF ClientFramings

\* The reader may take the first header one way or another: it may give it up.
LEMMA AstrayAtFirst ==
    ASSUME Astray, forwarded = <<>>
    PROVE  input.msgs # <<>> /\ NDJSON \in ClientFramings
<1>1. PICK n \in 1..Len(input.msgs) : input.msgs[n] = NULL /\ Len(forwarded) >= n - 1
  BY DEF Astray
<1>2. n = 1
  <2>1. Len(forwarded) = 0
    OBVIOUS
  <2> QED BY <1>1, <2>1
<1>3. input.msgs # <<>>
  <2>1. Len(<<>>) = 0
    OBVIOUS
  <2> QED BY <1>2, <2>1
<1> QED BY <1>1, <1>2, <1>3 DEF ClientFramings

\* The replies that the server may write.
LEMMA RepliesAre ==
    ASSUME input \in Inputs
    PROVE  /\ input.replies \in 0..Len(ServerBodies) /\ Len(ServerBodies) \in Nat
           /\ \A i \in 1..Len(ServerBodies) : /\ ServerBodies[i] \in Seq(Bytes)
                                              /\ Len(ServerBodies[i]) \in 1..Len(Digits)
BY BridgeAssumption

\* The messages of the server as the client reads them, one more.
LEMMA BodiesAre ==
    ASSUME NEW n \in 0..Len(ServerBodies)
    PROVE  /\ Bodies(n) \in Seq(Seq(Bytes)) /\ Len(Bodies(n)) = n
           /\ \A i \in 1..n : Bodies(n)[i] = Flat(ServerBodies[i])
           /\ Clean(Bodies(n))
<1>1. Len(ServerBodies) \in Nat
  BY BridgeAssumption
<1>2. ASSUME NEW i \in 1..n
      PROVE  Flat(ServerBodies[i]) \in Seq(Bytes) /\ Flat(ServerBodies[i]) # NULL
  <2>1. i \in 1..Len(ServerBodies)
    BY <1>1
  <2>2. ServerBodies[i] \in Seq(Bytes) /\ Len(ServerBodies[i]) \in 1..Len(Digits)
    BY <2>1, BridgeAssumption
  <2>3. Flat(ServerBodies[i]) \in Seq(Bytes) /\ Len(Flat(ServerBodies[i])) = Len(ServerBodies[i])
    BY <2>2, FlatType
  <2>4. Len(Flat(ServerBodies[i])) # 0
    BY <2>2, <2>3 DEF Digits
  <2>5. Len(NULL) = 0
    BY DEF NULL
  <2> QED BY <2>3, <2>4, <2>5
<1>3. ASSUME NEW g, \A i \in 1..n : g[i] \in Seq(Bytes), g = [i \in 1..n |-> g[i]]
      PROVE  g \in Seq(Seq(Bytes)) /\ Len(g) = n
  BY <1>1, <1>3
<1>4. Bodies(n) = [i \in 1..n |-> Bodies(n)[i]] /\ \A i \in 1..n : Bodies(n)[i] = Flat(ServerBodies[i])
  BY Zenon DEF Bodies
<1>5. Bodies(n) \in Seq(Seq(Bytes)) /\ Len(Bodies(n)) = n
  BY <1>2, <1>3, <1>4
<1>6. Clean(Bodies(n))
  BY <1>2, <1>4, <1>5 DEF Clean
<1> QED BY <1>4, <1>5, <1>6

\* One message more.
LEMMA BodiesAppend ==
    ASSUME NEW n \in Nat, n + 1 <= Len(ServerBodies)
    PROVE  Bodies(n) \o <<Flat(ServerBodies[n + 1])>> = Bodies(n + 1)
<1>1. Len(ServerBodies) \in Nat
  BY BridgeAssumption
<1>2. n \in 0..Len(ServerBodies) /\ n + 1 \in 0..Len(ServerBodies) /\ n + 1 \in 1..(n + 1)
  BY <1>1
<1>3. PICK a \in Seq(Seq(Bytes)), b \in Seq(Seq(Bytes)) :
          /\ a = Bodies(n) /\ b = Bodies(n + 1) /\ Len(a) = n /\ Len(b) = n + 1
          /\ \A i \in 1..n : a[i] = Flat(ServerBodies[i])
          /\ \A i \in 1..(n + 1) : b[i] = Flat(ServerBodies[i])
  BY <1>2, BodiesAre
<1>4. PICK x : x = Flat(ServerBodies[n + 1])
  OBVIOUS
<1>5. x \in Seq(Bytes) /\ b[n + 1] = x
  BY <1>2, <1>3, <1>4
<1>6. ASSUME NEW i \in 1..n PROVE b[i] = a[i]
  BY <1>3
<1>7. a \o <<x>> = b
  <2>1. Append(a, x) = b
    <3>1. /\ Append(a, x) \in Seq(Seq(Bytes)) /\ Len(Append(a, x)) = n + 1
          /\ \A i \in 1..n : Append(a, x)[i] = a[i] /\ Append(a, x)[n + 1] = x
      BY <1>3, <1>5, AppendProperties
    <3>2. Append(a, x)[n + 1] = x
      BY <1>3, <1>5, AppendProperties
    <3>3. ASSUME NEW i \in 1..(n + 1) PROVE Append(a, x)[i] = b[i]
      <4>1. i \in 1..n \/ i = n + 1
        OBVIOUS
      <4> QED BY <1>5, <1>6, <3>1, <3>2, <4>1
    <3> QED BY <1>3, <3>1, <3>3, SeqEqual
  <2> QED BY <1>5, <2>1, AppendIsConcat
<1> QED BY <1>3, <1>4, <1>7

\* A step that leaves the latch and the up pump alone.
LEMMA LatchedStays ==
    ASSUME Latched, input' = input, latch' = latch, upc' = upc, forwarded' = forwarded, stdout' = stdout
    PROVE  Latched'
BY DEF Latched, ClientFramings

\* A step that takes no part of a frame.
LEMMA CountedStays ==
    ASSUME Counted, PumpTypes, input \in Inputs, input' = input, inq' = inq, got' = got, sent' = sent,
           dpc' = "body" => dpc = "body", dpc' \in {"latch", "asleep"} => dpc \in {"latch", "asleep"},
           rd' = "ok" => rd = "ok"
    PROVE  Counted'
<1>1. PICK a \in Nat, b \in Nat, c \in Nat, d \in Nat :
          a = Half(dpc' = "body") /\ b = Half(dpc = "body") /\ c = Half(rd' = "ok") /\ d = Half(rd = "ok")
  BY DEF Half
<1>2. a <= b /\ c <= d
  BY <1>1 DEF Half
<1>3. PICK n \in Nat, g \in Nat, s \in Nat : n = Len(inq) /\ g = got /\ s = sent /\ (2 * g + b) + (d + n) <= s
  <2>1. input.replies \in Nat
    BY RepliesAre
  <2> QED BY <1>1, <2>1 DEF Counted
<1>4. (2 * g + a) + (c + n) <= s
  BY <1>2, <1>3
<1>5. (2 * got' + Half(dpc' = "body")) + (Half(rd' = "ok") + Len(inq')) <= sent'
  BY <1>1, <1>3, <1>4
<1> QED BY <1>5 DEF Counted

\* A step that leaves stdout and the frame in hand alone.
LEMMA PrintedStays ==
    ASSUME Printed, input' = input, stdout' = stdout, got' = got, latch' = latch \/ stdout = <<>>,
           dpc' \in {"latch", "asleep"} => dpc \in {"latch", "asleep"},
           dpc' \in {"header", "body"} => dpc \in {"header", "body"},
           dpc' = "done" /\ stdoutOpen' => (dpc = "done" /\ stdoutOpen) \/ dpc \in {"header", "body"}
    PROVE  Printed'
<1>1. PICK n \in 0..got : Shown(n)
  BY DEF Printed
<1>2. Decode(Spoken', stdout) = Decode(Spoken, stdout)
  <2>1. CASE latch' = latch
    BY <2>1 DEF Spoken
  <2>2. CASE stdout = <<>>
    <3>1. \A f : Decode(f, <<>>) = <<>>
      <4>1. <<>> \in Seq(Bytes) /\ Len(<<>>) = 0
        OBVIOUS
      <4> QED BY <4>1, DecodeAtEnd DEF Decode
    <3> QED BY <2>2, <3>1
  <2> QED BY <2>1, <2>2
<1>3. Shown(n)'
  BY <1>1, <1>2 DEF Shown
<1> QED BY <1>1, <1>3 DEF Printed

\* Reading stdin leaves the pumps' own state alone.
LEMMA ReadsKeepPumps ==
    ASSUME IInv, UpReads
    PROVE  PumpInv'
<1>1. /\ input' = input /\ latch' = latch /\ upc' = upc /\ forwarded' = forwarded /\ inq' = inq /\ got' = got
      /\ sent' = sent /\ dpc' = dpc /\ rd' = rd /\ stdout' = stdout /\ stdoutOpen' = stdoutOpen
      /\ mpc' = mpc /\ peer' = peer /\ aborted' = aborted /\ conn' = conn
  BY DEF UpReads, clientVars, connVars, pumpVars, peerVars
<1>2. PumpTypes /\ MainLast /\ Latched /\ Counted /\ Printed /\ input \in Inputs
  BY DEF IInv, PumpInv, ReaderInv, Window
<1>3. PumpTypes' /\ MainLast'
  BY <1>1, <1>2, ZenonT(60) DEF PumpTypes, MainLast
<1>4. Latched'
  BY <1>1, <1>2, LatchedStays
<1>5. Counted'
  BY <1>1, <1>2, CountedStays
<1>6. Printed'
  BY <1>1, <1>2, PrintedStays
<1> QED BY <1>3, <1>4, <1>5, <1>6 DEF PumpInv

\* What LatchSet does to the down pump: it may wake it.
LEMMA LatchSetWakes ==
    ASSUME NEW f, LatchSet(f)
    PROVE  /\ dpc' = dpc \/ (dpc = "asleep" /\ dpc' = "latch")
           /\ latch' = IF latch = UNKNOWN THEN f ELSE latch
BY DEF LatchSet, Woken

\* The first message fixes the latch; at the end of stdin there was none.
LEMMA MessageKeepsPumps ==
    ASSUME IInv, UpHasMessage
    PROVE  PumpInv'
<1>1. /\ input' = input /\ forwarded' = forwarded /\ inq' = inq /\ got' = got
      /\ sent' = sent /\ rd' = rd /\ stdout' = stdout /\ stdoutOpen' = stdoutOpen
      /\ mpc' = mpc /\ peer' = peer /\ aborted' = aborted /\ conn' = conn
      /\ upc = "next" /\ rpc = "ret"
  BY DEF UpHasMessage, clientVars, connVars, peerVars
<1>2. PumpTypes /\ MainLast /\ Latched /\ Counted /\ Printed /\ input \in Inputs /\ ReaderInv /\ Forwarding
  BY DEF IInv, PumpInv, ReaderInv, Window
<1>3. \/ body = NULL /\ upc' = "done" /\ latch' = latch /\ dpc' = dpc
      \/ body # NULL /\ upc' = "header" /\ LatchSet(framing)
  BY DEF UpHasMessage
<1>4. dpc' = dpc \/ (dpc = "asleep" /\ dpc' = "latch")
  BY <1>3, LatchSetWakes
<1>5. framing \in {UNKNOWN, NDJSON, CONTENT_LENGTH} /\ latch' \in {UNKNOWN, NDJSON, CONTENT_LENGTH}
  BY <1>2, <1>3, LatchSetWakes DEF ReaderInv, ReaderTypes, PumpTypes
<1>6. mpc = "join up"
  BY <1>1, <1>2 DEF MainLast
<1>7. PumpTypes' /\ MainLast'
  BY <1>1, <1>2, <1>4, <1>5, <1>6 DEF PumpTypes, MainLast
<1>8. Counted'
  BY <1>1, <1>2, <1>4, CountedStays
<1>9. Printed'
  <2>1. latch' = latch \/ stdout = <<>>
    BY <1>2, <1>3, LatchSetWakes DEF Latched
  <2> QED BY <1>1, <1>2, <1>4, <2>1, PrintedStays
<1>10. forwarded \in Seq(Seq(Bytes)) /\ (Astray \/ forwarded \o Todo = input.msgs)
  BY <1>1, <1>2 DEF Forwarding, OnCourse
<1>11. ClientFramings' = ClientFramings
  BY <1>1 DEF ClientFramings
<1>12. Latched'
  <2>1. CASE body = NULL
    <3>1. upc' = "done" /\ latch' = latch
      BY <1>3, <2>1
    <3>2. Todo = <<>>
      BY <1>1, <2>1, TodoNull DEF Todo
    <3>3. ASSUME forwarded = <<>> PROVE NDJSON \in ClientFramings
      <4>1. CASE Astray
        BY <3>3, <4>1, AstrayAtFirst
      <4>2. CASE forwarded \o Todo = input.msgs
        <5>1. forwarded = input.msgs
          BY <1>10, <3>2, <4>2, ConcatEmptySeq
        <5> QED BY <3>3, <5>1 DEF ClientFramings
      <4> QED BY <1>10, <4>1, <4>2
    <3> QED BY <1>1, <1>2, <1>11, <3>1, <3>3 DEF Latched
  <2>2. CASE body # NULL
    <3>1. upc' = "header" /\ latch' = IF latch = UNKNOWN THEN framing ELSE latch
      BY <1>3, <2>2, LatchSetWakes
    <3>2. framing # UNKNOWN /\ framing = FramingOf(input.bytes)
      BY <1>1, <1>2, <2>2 DEF ReaderInv, Framed, InHand
    <3>3. ASSUME forwarded = <<>> PROVE input.msgs # <<>>
      <4>0. SUFFICES ASSUME forwarded \o Todo = input.msgs PROVE input.msgs # <<>>
        BY <1>10, <3>3, AstrayAtFirst
      <4>1. Todo = <<body>> \o MessagesFrom(input.bytes, framing, At)
        BY <1>1, <2>2, TodoRet DEF Todo
      <4>2. Todo \in Seq(Seq(Bytes))
        BY <1>1, <1>2, TodoType
      <4>3. PICK m \in Seq(Seq(Bytes)) : m = MessagesFrom(input.bytes, framing, At)
        <5>1. input.bytes \in Seq(Bytes)
          BY <1>2, InputIs
        <5>2. At \in 0..Len(input.bytes)
          BY <1>2, WindowIs DEF ReaderInv
        <5> QED BY <5>1, <5>2, MessagesType
      <4>4. body \in Seq(Bytes)
        BY <1>2 DEF ReaderInv, ReaderTypes
      <4>5. \A q, r \in Seq(Seq(Bytes)), x \in Seq(Bytes) : Len(q \o (<<x>> \o r)) # 0
        OBVIOUS
      <4>6. Len(input.msgs) # 0
        BY <1>10, <4>0, <4>1, <4>3, <4>4, <4>5
      <4> QED BY <4>6
    <3>4. forwarded = <<>> => framing \in ClientFramings
      BY <1>2, <3>2, <3>3, FramingIsSpoken
    <3> QED BY <1>1, <1>2, <1>11, <3>1, <3>2, <3>4 DEF Latched
  <2> QED BY <2>1, <2>2
<1> QED BY <1>7, <1>8, <1>9, <1>12 DEF PumpInv

\* The up pump writes only when the latch is set.
LEMMA WritesKeepPumps ==
    ASSUME IInv, UpWrites \/ UpWriteFails
    PROVE  PumpInv'
<1>1. /\ input' = input /\ latch' = latch /\ inq' = inq /\ got' = got
      /\ sent' = sent /\ dpc' = dpc /\ rd' = rd /\ stdout' = stdout /\ stdoutOpen' = stdoutOpen
      /\ mpc' = mpc /\ peer' = peer /\ aborted' = aborted /\ conn' = conn /\ upc \in {"header", "body"}
  <2>1. CASE UpWrites
    BY <2>1 DEF UpWrites, clientVars, connVars, peerVars
  <2>2. CASE UpWriteFails
    BY <2>2 DEF UpWriteFails, clientVars, connVars, peerVars
  <2> QED BY <2>1, <2>2
<1>2. PumpTypes /\ MainLast /\ Latched /\ Counted /\ Printed /\ input \in Inputs
  BY DEF IInv, PumpInv, ReaderInv, Window
<1>3. mpc = "join up" /\ latch # UNKNOWN
  BY <1>1, <1>2 DEF MainLast, Latched
<1>4. PumpTypes' /\ MainLast'
  BY <1>1, <1>2, <1>3 DEF PumpTypes, MainLast
<1>5. Latched'
  BY <1>1, <1>2, <1>3 DEF Latched, ClientFramings
<1>6. Counted'
  BY <1>1, <1>2, CountedStays
<1>7. Printed'
  BY <1>1, <1>2, PrintedStays
<1> QED BY <1>4, <1>5, <1>6, <1>7 DEF PumpInv

\* The down pump reads: a part goes from the queue to its hand.
LEMMA DownReadsKeepsPumps ==
    ASSUME IInv, DownReads
    PROVE  PumpInv'
<1>1. /\ input' = input /\ latch' = latch /\ upc' = upc /\ forwarded' = forwarded /\ got' = got
      /\ sent' = sent /\ dpc' = dpc /\ stdout' = stdout /\ stdoutOpen' = stdoutOpen
      /\ mpc' = mpc /\ dpc \in {"header", "body"} /\ (ReadBegin \/ mcp_conn_read)
  BY DEF DownReads, clientVars, pumpVars, peerVars
<1>2. PumpTypes /\ MainLast /\ Latched /\ Counted /\ Printed /\ input \in Inputs
  BY DEF IInv, PumpInv, ReaderInv, Window
<1>3. peer' = peer /\ aborted' = aborted /\ conn' = conn
  BY <1>1 DEF ReadBegin, mcp_conn_read, ReadCheck, ReadIssue, ReadData, ReadFails
<1>4. rd' \in {"idle", "check", "issue", "pending", "ok", "failed"}
  BY <1>1 DEF ReadBegin, mcp_conn_read, ReadCheck, ReadIssue, ReadData, ReadFails
<1>5. PumpTypes' /\ MainLast'
  BY <1>1, <1>2, <1>3, <1>4 DEF PumpTypes, MainLast
<1>6. Latched'
  BY <1>1, <1>2, LatchedStays
<1>7. Counted'
  <2>1. CASE ReadData
    <3>1. rd = "pending" /\ rd' = "ok" /\ inq # <<>> /\ inq' = Tail(inq) /\ inq \in Seq(Nat)
      BY <1>2, <2>1 DEF ReadData, Counted
    <3>2. inq' \in Seq(Nat) /\ Len(inq') + 1 = Len(inq)
      BY <3>1
    <3>3. Half(rd = "ok") = 0 /\ Half(rd' = "ok") = 1
      BY <3>1 DEF Half
    <3>4. PICK b \in Nat : b = Half(dpc = "body") /\ b = Half(dpc' = "body")
      BY <1>1 DEF Half
    <3>5. input.replies \in Nat
      BY <1>2, RepliesAre
    <3>6. (2 * got' + Half(dpc' = "body")) + (Half(rd' = "ok") + Len(inq')) <= sent'
      BY <1>1, <1>2, <3>1, <3>2, <3>3, <3>4, <3>5 DEF Counted
    <3> QED BY <1>1, <1>2, <3>2, <3>6 DEF Counted
  <2>2. CASE ~ReadData
    <3>1. inq' = inq /\ rd' # "ok"
      BY <1>1, <2>2 DEF ReadBegin, mcp_conn_read, ReadCheck, ReadIssue, ReadFails
    <3> QED BY <1>1, <1>2, <3>1, CountedStays
  <2> QED BY <2>1, <2>2
<1>8. Printed'
  BY <1>1, <1>2, PrintedStays
<1> QED BY <1>5, <1>6, <1>7, <1>8 DEF PumpInv

\* The down pump has a part of a frame, or comes to its end.
LEMMA DownHasPartKeepsPumps ==
    ASSUME IInv, DownHasPart
    PROVE  PumpInv'
<1>1. /\ input' = input /\ latch' = latch /\ upc' = upc /\ forwarded' = forwarded /\ inq' = inq
      /\ sent' = sent /\ stdout' = stdout /\ stdoutOpen' = stdoutOpen
      /\ mpc' = mpc /\ peer' = peer /\ aborted' = aborted /\ conn' = conn
      /\ dpc \in {"header", "body"} /\ rd \in {"ok", "failed"} /\ rd' = "idle"
  BY DEF DownHasPart, clientVars, peerVars
<1>2. PumpTypes /\ MainLast /\ Latched /\ Counted /\ Printed /\ input \in Inputs
  BY DEF IInv, PumpInv, ReaderInv, Window
<1>3. \/ rd = "failed" /\ dpc' = "done" /\ got' = got
      \/ rd = "ok" /\ dpc = "header" /\ dpc' = "body" /\ got' = got
      \/ rd = "ok" /\ dpc = "body" /\ dpc' = "latch" /\ got' = got + 1
  BY <1>1 DEF DownHasPart
<1>4. PumpTypes' /\ MainLast'
  BY <1>1, <1>2, <1>3 DEF PumpTypes, MainLast
<1>5. Latched'
  BY <1>1, <1>2, LatchedStays
<1>6. got \in Nat /\ inq \in Seq(Nat) /\ Len(inq) \in Nat /\ sent \in Nat
      /\ sent \in 0..(2 * input.replies) /\ input.replies \in Nat
      /\ (2 * got + Half(dpc = "body")) + (Half(rd = "ok") + Len(inq)) <= sent
  <2>1. input.replies \in Nat
    BY <1>2, RepliesAre
  <2> QED BY <1>2, <2>1 DEF Counted
<1>7. PICK n \in 0..got : Shown(n)
  BY <1>2 DEF Printed
<1>8. Decode(Spoken, stdout) = Bodies(n) /\ n = got
  BY <1>1, <1>7 DEF Shown
<1>9. stdout \in Seq(Bytes) /\ Spoken' = Spoken
  BY <1>1, <1>2 DEF Printed, Spoken
<1>10. CASE rd = "failed"
  <2>1. dpc' = "done" /\ got' = got
    BY <1>3, <1>10
  <2>2. Counted'
    BY <1>1, <1>2, <2>1, CountedStays
  <2>3. Printed'
    BY <1>1, <1>2, <2>1, PrintedStays
  <2> QED BY <1>4, <1>5, <2>2, <2>3 DEF PumpInv
<1>11. CASE rd = "ok" /\ dpc = "header"
  <2>1. dpc' = "body" /\ got' = got
    BY <1>3, <1>11
  <2>2. Half(dpc = "body") = 0 /\ Half(dpc' = "body") = 1 /\ Half(rd = "ok") = 1 /\ Half(rd' = "ok") = 0
    BY <1>1, <1>11, <2>1 DEF Half
  <2>3. (2 * got' + Half(dpc' = "body")) + (Half(rd' = "ok") + Len(inq')) <= sent'
    BY <1>1, <1>6, <2>1, <2>2
  <2>4. Counted'
    BY <1>1, <1>6, <2>1, <2>3 DEF Counted
  <2>5. Printed'
    BY <1>1, <1>2, <1>11, <2>1, PrintedStays
  <2> QED BY <1>4, <1>5, <2>4, <2>5 DEF PumpInv
<1>12. CASE rd = "ok" /\ dpc = "body"
  <2>1. dpc' = "latch" /\ got' = got + 1
    BY <1>3, <1>12
  <2>2. Half(dpc = "body") = 1 /\ Half(dpc' = "body") = 0 /\ Half(rd = "ok") = 1 /\ Half(rd' = "ok") = 0
    BY <1>1, <1>12, <2>1 DEF Half
  <2>3. (2 * got' + Half(dpc' = "body")) + (Half(rd' = "ok") + Len(inq')) <= sent'
    BY <1>1, <1>6, <2>1, <2>2
  <2>4. Counted'
    <3>1. got' \in Nat /\ got' >= 1
      BY <1>6, <2>1
    <3> QED BY <1>1, <1>6, <2>1, <2>3, <3>1 DEF Counted
  <2>5. Printed'
    <3>1. n \in 0..got' /\ n = got' - 1
      BY <1>6, <1>8, <2>1
    <3>2. Shown(n)'
      BY <1>1, <1>8, <1>9, <2>1, <3>1 DEF Shown
    <3> QED BY <1>1, <1>9, <3>1, <3>2 DEF Printed
  <2> QED BY <1>4, <1>5, <2>4, <2>5 DEF PumpInv
<1> QED BY <1>1, <1>10, <1>11, <1>12

\* The down pump waits for the framing.
LEMMA DownWaitsKeepsPumps ==
    ASSUME IInv, DownWaits
    PROVE  PumpInv'
<1>1. /\ input' = input /\ latch' = latch /\ upc' = upc /\ forwarded' = forwarded /\ inq' = inq /\ got' = got
      /\ sent' = sent /\ rd' = rd /\ stdout' = stdout /\ stdoutOpen' = stdoutOpen
      /\ mpc' = mpc /\ peer' = peer /\ aborted' = aborted /\ conn' = conn
      /\ dpc = "latch" /\ dpc' = "asleep"
  BY DEF DownWaits, clientVars, connVars, peerVars
<1>2. PumpTypes /\ MainLast /\ Latched /\ Counted /\ Printed /\ input \in Inputs
  BY DEF IInv, PumpInv, ReaderInv, Window
<1>3. PumpTypes' /\ MainLast'
  BY <1>1, <1>2 DEF PumpTypes, MainLast
<1>4. Latched'
  BY <1>1, <1>2, LatchedStays
<1>5. Counted'
  BY <1>1, <1>2, CountedStays
<1>6. Printed'
  BY <1>1, <1>2, PrintedStays
<1> QED BY <1>3, <1>4, <1>5, <1>6 DEF PumpInv

\* The down pump writes the message that it has in hand: the client reads one
\* message more.
LEMMA DownWritesKeepsPumps ==
    ASSUME IInv, DownWrites
    PROVE  PumpInv'
<1>1. /\ input' = input /\ latch' = latch /\ upc' = upc /\ forwarded' = forwarded /\ inq' = inq /\ got' = got
      /\ sent' = sent /\ rd' = rd /\ stdoutOpen' = stdoutOpen
      /\ mpc' = mpc /\ peer' = peer /\ aborted' = aborted /\ conn' = conn
      /\ dpc = "latch" /\ latch # UNKNOWN /\ dpc' \in {"header", "done"}
  BY DEF DownWrites, clientVars, connVars, readerVars, peerVars
<1>2. PumpTypes /\ MainLast /\ Latched /\ Counted /\ Printed /\ input \in Inputs
  BY DEF IInv, PumpInv, ReaderInv, Window
<1>3. PumpTypes' /\ MainLast'
  BY <1>1, <1>2 DEF PumpTypes, MainLast
<1>4. Latched'
  BY <1>1, <1>2 DEF Latched, ClientFramings
<1>5. Counted'
  BY <1>1, <1>2, CountedStays
<1>6. PICK n \in Nat : n + 1 = got /\ n + 1 <= Len(ServerBodies) /\ Decode(Spoken, stdout) = Bodies(n)
  <2>1. PICK m \in 0..got : Shown(m)
    BY <1>2 DEF Printed
  <2>2. Decode(Spoken, stdout) = Bodies(m) /\ m = got - 1
    BY <1>1, <2>1 DEF Shown
  <2>3. got \in Nat /\ got >= 1 /\ 2 * got <= sent /\ sent <= 2 * input.replies /\ sent \in Nat
    <3>1. PICK a \in Nat, b \in Nat : a = Half(dpc = "body") /\ b = Half(rd = "ok")
      BY DEF Half
    <3>2. input.replies \in Nat
      BY <1>2, RepliesAre
    <3>3. inq \in Seq(Nat) /\ got \in Nat /\ sent \in 0..(2 * input.replies) /\ got >= 1
          /\ (2 * got + a) + (b + Len(inq)) <= sent
      BY <1>1, <1>2, <3>1 DEF Counted
    <3> QED BY <3>1, <3>2, <3>3
  <2>4. input.replies \in Nat /\ input.replies <= Len(ServerBodies) /\ Len(ServerBodies) \in Nat
    BY <1>2, RepliesAre
  <2>5. got <= Len(ServerBodies) /\ m \in Nat /\ m + 1 = got
    BY <2>2, <2>3, <2>4
  <2> QED BY <2>2, <2>5
<1>7. Spoken' = Spoken /\ latch = Spoken /\ stdout \in Seq(Bytes)
  BY <1>1, <1>2 DEF Spoken, Printed
<1>8. CASE ~stdoutOpen
  <2>1. stdout' = stdout /\ dpc' = "done"
    BY <1>8 DEF DownWrites
  <2>2. n \in 0..got'
    BY <1>1, <1>6
  <2>3. Shown(n)'
    BY <1>1, <1>6, <1>7, <1>8, <2>1 DEF Shown
  <2>4. Printed'
    BY <1>7, <2>1, <2>2, <2>3 DEF Printed
  <2> QED BY <1>3, <1>4, <1>5, <2>4 DEF PumpInv
<1>9. CASE stdoutOpen
  <2>1. stdout' = stdout \o dxr_stdio_encode(Spoken, ServerBodies[n + 1]) /\ dpc' = "header"
    BY <1>6, <1>7, <1>9 DEF DownWrites
  <2>2. PICK msg \in Seq(Bytes) : msg = ServerBodies[n + 1] /\ Len(msg) \in 1..Len(Digits)
    <3>1. n + 1 \in 1..Len(ServerBodies)
      BY <1>2, <1>6, RepliesAre
    <3> QED BY <1>2, <3>1, RepliesAre
  <2>3. PICK f \in {NDJSON, CONTENT_LENGTH} : f = Spoken
    BY <1>2, SpokenType
  <2>4. Clean(Decode(f, stdout))
    <3>1. n \in 0..Len(ServerBodies)
      BY <1>2, <1>6, RepliesAre
    <3>2. Clean(Bodies(n))
      BY <3>1, BodiesAre
    <3> QED BY <1>6, <2>3, <3>2
  <2>5. /\ stdout \o dxr_stdio_encode(f, msg) \in Seq(Bytes)
        /\ Decode(f, stdout \o dxr_stdio_encode(f, msg)) = Decode(f, stdout) \o <<Flat(msg)>>
    BY <1>7, <2>2, <2>4, DecodeAppends
  <2>6. Bodies(n) \o <<Flat(msg)>> = Bodies(n + 1)
    BY <1>6, <2>2, BodiesAppend
  <2>7. stdout' \in Seq(Bytes) /\ Decode(Spoken, stdout') = Bodies(n + 1)
    BY <1>6, <2>1, <2>2, <2>3, <2>5, <2>6
  <2>8. n + 1 \in 0..got' /\ n + 1 = got'
    BY <1>1, <1>6
  <2>9. Shown(n + 1)'
    BY <1>7, <2>1, <2>7, <2>8 DEF Shown
  <2>10. Printed'
    BY <2>7, <2>8, <2>9 DEF Printed
  <2> QED BY <1>3, <1>4, <1>5, <2>10 DEF PumpInv
<1> QED BY <1>8, <1>9

\* main latches the framing of lines when no message has come.
LEMMA MainLatchesKeepsPumps ==
    ASSUME IInv, MainLatches
    PROVE  PumpInv'
<1>1. /\ input' = input /\ upc' = upc /\ forwarded' = forwarded /\ inq' = inq /\ got' = got
      /\ sent' = sent /\ rd' = rd /\ stdout' = stdout /\ stdoutOpen' = stdoutOpen
      /\ peer' = peer /\ aborted' = aborted /\ conn' = conn
      /\ mpc = "join up" /\ mpc' = "abort" /\ upc = "done" /\ LatchSet(NDJSON)
  BY DEF MainLatches, MainGoes, clientVars, connVars, peerVars
<1>2. PumpTypes /\ MainLast /\ Latched /\ Counted /\ Printed /\ input \in Inputs
  BY DEF IInv, PumpInv, ReaderInv, Window
<1>3. /\ dpc' = dpc \/ (dpc = "asleep" /\ dpc' = "latch")
      /\ latch' = IF latch = UNKNOWN THEN NDJSON ELSE latch
  BY <1>1, LatchSetWakes
<1>4. PumpTypes' /\ MainLast'
  BY <1>1, <1>2, <1>3 DEF PumpTypes, MainLast
<1>5. Latched'
  <2>1. latch = UNKNOWN => NDJSON \in ClientFramings
    BY <1>1, <1>2 DEF Latched
  <2>2. NDJSON # UNKNOWN
    BY DEF NDJSON, UNKNOWN
  <2>3. ClientFramings' = ClientFramings
    BY <1>1 DEF ClientFramings
  <2> QED BY <1>1, <1>2, <1>3, <2>1, <2>2, <2>3 DEF Latched
<1>6. Counted'
  BY <1>1, <1>2, <1>3, CountedStays
<1>7. Printed'
  <2>1. latch' = latch \/ stdout = <<>>
    BY <1>2, <1>3 DEF Latched
  <2> QED BY <1>1, <1>2, <1>3, <2>1, PrintedStays
<1> QED BY <1>4, <1>5, <1>6, <1>7 DEF PumpInv

\* main takes the connection down.
LEMMA MainEndsKeepsPumps ==
    ASSUME IInv, MainPoisons \/ MainCancels \/ MainCloses
    PROVE  PumpInv'
<1>1. /\ input' = input /\ latch' = latch /\ upc' = upc /\ forwarded' = forwarded /\ got' = got /\ inq' = inq
      /\ sent' = sent /\ dpc' = dpc /\ stdout' = stdout /\ stdoutOpen' = stdoutOpen /\ peer' = peer
  BY DEF MainPoisons, MainCancels, MainCloses, Poison, Cancel, mcp_conn_close, clientVars, peerVars
<1>2. PumpTypes /\ MainLast /\ Latched /\ Counted /\ Printed /\ input \in Inputs
  BY DEF IInv, PumpInv, ReaderInv, Window
<1>3. rd' = rd \/ (rd = "pending" /\ rd' = "failed")
  BY DEF MainPoisons, MainCancels, MainCloses, Poison, Cancel, mcp_conn_close
<1>4. PumpTypes' /\ MainLast'
  <2>1. CASE MainPoisons
    <3>1. mpc = "abort" /\ mpc' = "cancel" /\ aborted' = TRUE /\ conn' = conn
      BY <2>1 DEF MainPoisons, MainGoes, Poison
    <3> QED BY <1>1, <1>2, <1>3, <3>1 DEF PumpTypes, MainLast
  <2>2. CASE MainCancels
    <3>1. mpc = "cancel" /\ mpc' = "join down" /\ aborted' = aborted /\ conn' = conn
      BY <2>2 DEF MainCancels, MainGoes, Cancel
    <3> QED BY <1>1, <1>2, <1>3, <3>1 DEF PumpTypes, MainLast
  <2>3. CASE MainCloses
    <3>1. mpc = "join down" /\ mpc' = "done" /\ aborted' = TRUE /\ conn' = "freed" /\ dpc = "done"
      BY <2>3 DEF MainCloses, MainGoes, mcp_conn_close
    <3> QED BY <1>1, <1>2, <1>3, <3>1 DEF PumpTypes, MainLast
  <2> QED BY <2>1, <2>2, <2>3
<1>5. Latched'
  BY <1>1, <1>2, LatchedStays
<1>6. Counted'
  BY <1>1, <1>2, <1>3, CountedStays
<1>7. Printed'
  BY <1>1, <1>2, PrintedStays
<1> QED BY <1>4, <1>5, <1>6, <1>7 DEF PumpInv

\* The client closes stdin or stdout.
LEMMA ClientKeepsPumps ==
    ASSUME IInv, Client
    PROVE  PumpInv'
<1>1. /\ input' = input /\ latch' = latch /\ upc' = upc /\ forwarded' = forwarded /\ inq' = inq /\ got' = got
      /\ sent' = sent /\ dpc' = dpc /\ rd' = rd /\ stdout' = stdout
      /\ mpc' = mpc /\ peer' = peer /\ aborted' = aborted /\ conn' = conn
  BY DEF Client, ClientCloses, clientVars, connVars, pumpVars
<1>2. PumpTypes /\ MainLast /\ Latched /\ Counted /\ Printed /\ input \in Inputs
  BY DEF IInv, PumpInv, ReaderInv, Window
<1>3. stdoutOpen' = stdoutOpen \/ stdoutOpen' = FALSE
  BY Zenon DEF Client
<1>4. PumpTypes' /\ MainLast'
  BY <1>1, <1>2, ZenonT(60) DEF PumpTypes, MainLast
<1>5. Latched'
  BY <1>1, <1>2, LatchedStays
<1>6. Counted'
  BY <1>1, <1>2, CountedStays
<1>7. Printed'
  BY <1>1, <1>2, <1>3, PrintedStays
<1> QED BY <1>4, <1>5, <1>6, <1>7 DEF PumpInv

\* The server writes a part of a frame, hangs, or closes its end.
LEMMA ServerKeepsPumps ==
    ASSUME IInv, Server
    PROVE  PumpInv'
<1>1. /\ input' = input /\ latch' = latch /\ upc' = upc /\ forwarded' = forwarded /\ got' = got
      /\ dpc' = dpc /\ stdout' = stdout /\ stdoutOpen' = stdoutOpen /\ mpc' = mpc
  BY DEF Server, clientVars, pumpVars
<1>2. PumpTypes /\ MainLast /\ Latched /\ Counted /\ Printed /\ input \in Inputs
  BY DEF IInv, PumpInv, ReaderInv, Window
<1>3. aborted' = aborted /\ conn' = conn /\ rd' = rd /\ peer' \in {peer, "hung", "closed"}
  BY DEF Server, PeerWrites, PeerCloses, PeerHangs
<1>4. PumpTypes' /\ MainLast'
  BY <1>1, <1>2, <1>3, ZenonT(60) DEF PumpTypes, MainLast
<1>5. Latched'
  BY <1>1, <1>2, LatchedStays
<1>6. Counted'
  <2>1. CASE sent' = sent
    <3>1. inq' = inq
      BY <1>2, <2>1, RepliesAre DEF Server, PeerWrites, PeerCloses, PeerHangs, Counted
    <3> QED BY <1>1, <1>2, <1>3, <2>1, <3>1, CountedStays
  <2>2. CASE sent' # sent
    <3>1. sent < 2 * input.replies /\ sent' = sent + 1 /\ inq' = Append(inq, sent)
      BY <2>2 DEF Server, PeerWrites
    <3>2. PICK a \in Nat, b \in Nat : a = Half(dpc = "body") /\ b = Half(rd = "ok")
      BY DEF Half
    <3>3. PICK g \in Nat, s \in Nat, n \in Nat : g = got /\ s = sent /\ n = Len(inq) /\ (2 * g + a) + (b + n) <= s
                                                 /\ inq \in Seq(Nat) /\ input.replies \in Nat
      BY <1>2, <3>2, RepliesAre, SMTT(40) DEF Counted
    <3>4. inq' \in Seq(Nat) /\ Len(inq') = n + 1
      BY <3>1, <3>3, AppendProperties
    <3>5. (2 * g + a) + (b + (n + 1)) <= s + 1
      BY <3>3
    <3>6. (2 * got' + Half(dpc' = "body")) + (Half(rd' = "ok") + Len(inq')) <= sent'
      BY <1>1, <1>3, <3>1, <3>2, <3>3, <3>4, <3>5
    <3>7. sent' \in 0..(2 * input'.replies)
      BY <1>1, <3>1, <3>3
    <3> QED BY <1>1, <1>2, <3>4, <3>6, <3>7 DEF Counted
  <2> QED BY <2>1, <2>2
<1>7. Printed'
  BY <1>1, <1>2, PrintedStays
<1> QED BY <1>4, <1>5, <1>6, <1>7 DEF PumpInv

\* The adapter starts with all to do.
LEMMA InitHolds ==
    ASSUME Init
    PROVE  IInv
<1>1. input \in Inputs /\ closed = FALSE /\ eof = FALSE /\ framing = UNKNOWN /\ rpc = "idle" /\ upc = "next"
  BY DEF Init, ReaderInit
<1>2. given = 0 /\ pos = 0 /\ scan = 0
  BY DEF Init, ReaderInit
<1>3. header = NoHeader /\ body = NULL
  BY DEF Init, ReaderInit
<1>4. buf \in Seq(Bytes) /\ Len(buf) = 0
  <2>1. buf = <<>>
    BY DEF Init, ReaderInit
  <2> QED BY <2>1
<1>5. /\ peer = "up" /\ aborted = FALSE /\ conn = "open" /\ rd = "idle"
      /\ dpc = "header" /\ mpc = "join up" /\ latch = UNKNOWN
  BY DEF Init, ConnInit
<1>6. forwarded = <<>>
  BY DEF Init
<1>7. stdout = <<>> /\ stdout \in Seq(Bytes) /\ Len(stdout) = 0
  <2>1. stdout = <<>>
    BY DEF Init
  <2> QED BY <2>1
<1>8. got = 0 /\ sent = 0
  BY DEF Init
<1>9. inq \in Seq(Nat) /\ Len(inq) = 0
  <2>1. inq = <<>>
    BY DEF Init, ConnInit
  <2> QED BY <2>1
<1>10. input.bytes \in Seq(Bytes) /\ Len(input.bytes) \in Nat
  BY <1>1, InputIs
<1>11. ReaderTypes
  <2>1. body \in Seq(Bytes) /\ header \in Headers
    BY <1>3, NoHeaderType DEF NULL
  <2> QED BY <1>1, <1>2, <2>1 DEF ReaderTypes
<1>12. Window
  <2>1. given - Len(buf) = 0 /\ given \in 0..Len(input.bytes) /\ Len(buf) <= given
    BY <1>2, <1>4, <1>10
  <2>2. Piece(buf, input.bytes, 0, 0)
    BY <1>4, <1>10 DEF Piece
  <2>3. Piece(buf, input.bytes, given - Len(buf), given)
    BY <1>2, <2>1, <2>2
  <2>4. Len(buf) <= MAX_MESSAGE /\ pos \in 0..Len(buf)
    BY <1>2, <1>4, FramingAssumption
  <2> QED BY <1>1, <2>1, <2>3, <2>4 DEF Window
<1>13. EndSeen /\ Scanned
  BY <1>1 DEF EndSeen, Scanned
<1>14. At = 0
  BY <1>2, <1>4 DEF At
<1>15. Framed
  BY <1>1, <1>14 DEF Framed, InHand
<1>16. Forwarding
  <2>1. Todo = MessagesOf(input.bytes)
    BY <1>1, TodoFirst DEF Todo
  <2>2. Todo = input.msgs
    BY <1>1, <2>1, InputAssumption
  <2>3. Todo \in Seq(Seq(Bytes))
    <3>1. PICK p \in 0..Len(input.bytes) : p = 0
      BY <1>10
    <3> QED BY <1>10, <2>1, <3>1, MessagesType
  <2>4. forwarded \o Todo = Todo
    BY <1>6, <2>3, ConcatEmptySeq
  <2>5. forwarded \in Seq(Seq(Bytes))
    BY <1>6
  <2> QED BY <1>1, <2>2, <2>4, <2>5 DEF Forwarding, OnCourse
<1>17. PumpTypes /\ MainLast
  BY <1>5 DEF PumpTypes, MainLast
<1>18. Latched
  BY <1>1, <1>5, <1>6, <1>7 DEF Latched
<1>19. Counted
  <2>1. Half(dpc = "body") = 0 /\ Half(rd = "ok") = 0
    BY <1>5 DEF Half
  <2>2. input.replies \in Nat
    BY <1>1, RepliesAre
  <2>3. (2 * got + Half(dpc = "body")) + (Half(rd = "ok") + Len(inq)) <= sent
    <3>1. (2 * 0 + 0) + (0 + 0) <= 0
      OBVIOUS
    <3> QED BY <1>8, <1>9, <2>1, <3>1, Zenon
  <2>4. got \in Nat /\ sent \in 0..(2 * input.replies)
    <3>1. 0 \in Nat /\ 0 \in 0..(2 * input.replies)
      BY <2>2
    <3> QED BY <1>8, <3>1, Zenon
  <2>5. ~(dpc \in {"latch", "asleep"})
    BY <1>5
  <2> QED BY <1>9, <2>3, <2>4, <2>5, Zenon DEF Counted
<1>20. Printed
  <2>1. Decode(Spoken, stdout) = <<>>
    BY <1>7, DecodeAtEnd DEF Decode
  <2>2. Bodies(0) = <<>>
    BY DEF Bodies
  <2>3. Decode(Spoken, stdout) = Bodies(0)
    BY <2>1, <2>2
  <2>4. Shown(0)
    BY <1>5, <1>8, <2>3 DEF Shown
  <2>5. 0 \in 0..got
    BY <1>8
  <2> QED BY <1>7, <2>4, <2>5 DEF Printed
<1> QED BY <1>11, <1>12, <1>13, <1>15, <1>16, <1>17, <1>18, <1>19, <1>20 DEF IInv, ReaderInv, PumpInv

\* Every step keeps the inductive invariant.
LEMMA StepKeeps ==
    ASSUME IInv, [Next]_vars
    PROVE  IInv'
<1>1. ReaderInv /\ Forwarding /\ PumpTypes /\ MainLast /\ closed \in BOOLEAN
  BY DEF IInv, PumpInv, ReaderInv, ReaderTypes
<1>2. CASE UpReads
  BY <1>1, <1>2, ReadsKeep, ReadsKeepPumps DEF IInv
<1>3. CASE UpHasMessage
  BY <1>1, <1>3, MessageKeeps, MessageKeepsPumps DEF IInv
<1>4. CASE UpWrites
  BY <1>1, <1>4, WritesKeep, WritesKeepPumps DEF IInv
<1>5. CASE UpWriteFails
  BY <1>1, <1>5, WriteFailsKeeps, WritesKeepPumps DEF IInv
<1>6. CASE Down
  <2>1. UNCHANGED <<input, readerVars, upc, forwarded>> /\ closed' = closed /\ peer' = peer
    <3>1. CASE DownReads
      BY <3>1 DEF DownReads, clientVars, pumpVars, ReadBegin, mcp_conn_read, ReadCheck, ReadIssue, ReadData, ReadFails
    <3>2. CASE DownHasPart
      BY <3>2 DEF DownHasPart, clientVars
    <3>3. CASE DownWaits
      BY <3>3 DEF DownWaits, clientVars, connVars
    <3>4. CASE DownWrites
      BY <3>4 DEF DownWrites, clientVars, connVars
    <3> QED BY <1>6, <3>1, <3>2, <3>3, <3>4 DEF Down
  <2>2. ReaderInv' /\ Forwarding'
    BY <1>1, <2>1, OthersKeepReader
  <2>3. PumpInv'
    BY <1>6, DownReadsKeepsPumps, DownHasPartKeepsPumps, DownWaitsKeepsPumps, DownWritesKeepsPumps DEF Down
  <2> QED BY <2>2, <2>3 DEF IInv
<1>7. CASE Main
  <2>1. UNCHANGED <<input, readerVars, upc, forwarded>> /\ closed' = closed /\ peer' = peer
    <3>1. CASE MainLatches
      BY <3>1 DEF MainLatches, clientVars, connVars
    <3>2. CASE MainPoisons \/ MainCancels \/ MainCloses
      BY <3>2 DEF MainPoisons, MainCancels, MainCloses, clientVars, Poison, Cancel, mcp_conn_close
    <3> QED BY <1>7, <3>1, <3>2 DEF Main
  <2>2. ReaderInv' /\ Forwarding'
    BY <1>1, <2>1, OthersKeepReader
  <2>3. PumpInv'
    BY <1>7, MainLatchesKeepsPumps, MainEndsKeepsPumps DEF Main
  <2> QED BY <2>2, <2>3 DEF IInv
<1>8. CASE Client
  <2>1. UNCHANGED <<input, readerVars, upc, forwarded>> /\ peer' = peer
    BY <1>8 DEF Client, ClientCloses, clientVars, connVars, pumpVars
  <2>2. closed' = closed \/ closed' = TRUE
    BY <1>8, Zenon DEF Client, ClientCloses, clientVars
  <2>3. closed' \in BOOLEAN
    BY <1>1, <2>2
  <2>4. ReaderInv' /\ Forwarding'
    BY <1>1, <2>1, <2>3, OthersKeepReader
  <2> QED BY <1>8, <2>4, ClientKeepsPumps DEF IInv
<1>9. CASE Server
  <2>1. UNCHANGED <<input, readerVars, upc, forwarded>> /\ closed' = closed /\ (peer' = peer \/ peer = "up")
    BY <1>9 DEF Server, clientVars, pumpVars, PeerWrites, PeerCloses, PeerHangs
  <2>2. ReaderInv' /\ Forwarding'
    BY <1>1, <2>1, OthersKeepReader
  <2> QED BY <1>9, <2>2, ServerKeepsPumps DEF IInv
<1>10. CASE UNCHANGED vars
  <2>1. /\ UNCHANGED <<input, readerVars, upc, forwarded>> /\ closed' = closed /\ peer' = peer
        /\ input' = input /\ latch' = latch /\ upc' = upc /\ forwarded' = forwarded /\ inq' = inq /\ got' = got
        /\ sent' = sent /\ dpc' = dpc /\ rd' = rd /\ stdout' = stdout /\ stdoutOpen' = stdoutOpen
        /\ mpc' = mpc /\ aborted' = aborted /\ conn' = conn
    BY <1>10 DEF vars, clientVars, connVars, pumpVars, peerVars
  <2>2. ReaderInv' /\ Forwarding'
    BY <1>1, <2>1, OthersKeepReader
  <2>3. Latched /\ Counted /\ Printed /\ input \in Inputs
    BY DEF IInv, PumpInv, ReaderInv, Window
  <2>4. PumpTypes' /\ MainLast'
    BY <1>1, <2>1, ZenonT(60) DEF PumpTypes, MainLast
  <2>5. Latched'
    BY <2>1, <2>3, LatchedStays
  <2>6. Counted'
    BY <1>1, <2>1, <2>3, CountedStays
  <2>7. Printed'
    BY <2>1, <2>3, PrintedStays
  <2> QED BY <2>2, <2>4, <2>5, <2>6, <2>7 DEF IInv, PumpInv
<1> QED BY <1>2, <1>3, <1>4, <1>5, <1>6, <1>7, <1>8, <1>9, <1>10 DEF Next, Up

\* The invariant gives the types.
LEMMA TypesFollow ==
    ASSUME IInv
    PROVE  TypeOK
<1>1. ReaderTypes /\ Window /\ PumpTypes /\ Counted
  BY DEF IInv, PumpInv, ReaderInv
<1>2. header.length \in Nat /\ header.have \in BOOLEAN /\ header.any \in BOOLEAN
  BY <1>1, Zenon DEF ReaderTypes, Headers
<1>3. buf \in Seq(Bytes)
  BY <1>1 DEF Window, Piece
<1>4. got \in 0..Len(ServerBodies) /\ sent \in 0..(2 * Len(ServerBodies))
  <2>1. PICK a \in Nat, b \in Nat : a = Half(dpc = "body") /\ b = Half(rd = "ok")
    BY DEF Half
  <2>2. PICK r \in Nat, l \in Nat : r = input.replies /\ l = Len(ServerBodies) /\ r <= l
    BY <1>1, RepliesAre DEF Window
  <2>3. PICK g \in Nat, s \in Nat, n \in Nat :
            g = got /\ s = sent /\ n = Len(inq) /\ s <= 2 * r /\ (2 * g + a) + (b + n) <= s
    BY <1>1, <2>1, <2>2, SMTT(40) DEF Counted
  <2>4. g <= l /\ s <= 2 * l
    BY <2>2, <2>3
  <2> QED BY <2>2, <2>3, <2>4
<1>5. /\ given \in 0..Len(input.bytes) /\ Len(buf) <= MAX_MESSAGE /\ pos \in 0..Len(buf)
  BY <1>1 DEF Window
<1> QED BY <1>1, <1>2, <1>3, <1>4, <1>5, Zenon DEF TypeOK, ReaderTypes, PumpTypes

\* The invariant gives what the server gets.
LEMMA ForwardingFollows ==
    ASSUME IInv
    PROVE  ForwardsWhatWasWritten
<1>1. forwarded \in Seq(Seq(Bytes)) /\ (Astray \/ OnCourse) /\ ReaderInv
  BY DEF IInv, Forwarding
<1>2. PICK l : l = Len(input.msgs)
  OBVIOUS
<1>3. PICK k \in Nat : k = Len(forwarded)
  BY <1>1
<1>4. \A i : i \in Certain <=> i \in 1..l /\ \A j \in 1..i : input.msgs[j] # NULL
  BY <1>2 DEF Certain
<1>5. CASE Astray
  <2>1. PICK n \in 1..l : /\ input.msgs[n] = NULL /\ k >= n - 1
                         /\ \A i \in 1..(n - 1) : forwarded[i] = input.msgs[i]
    BY <1>2, <1>3, <1>5 DEF Astray
  <2>2. ASSUME NEW i \in Certain PROVE i \in 1..(n - 1) /\ i <= k
    <3>1. i \in 1..l /\ n \notin 1..i
      BY <1>4, <2>1
    <3>2. i < n
      BY <3>1
    <3> QED BY <2>1, <3>1, <3>2
  <2>3. n \notin Certain /\ n \in 1..l
    BY <2>2
  <2>4. Certain # 1..Len(input.msgs)
    BY <1>2, <2>3
  <2>5. \A i \in Certain : forwarded[i] = input.msgs[i] /\ i <= Len(forwarded)
    BY <1>3, <2>1, <2>2
  <2> QED BY <2>4, <2>5 DEF ForwardsWhatWasWritten
<1>6. CASE OnCourse
  <2>1. Prefix(forwarded, input.msgs) /\ (upc = "done" /\ peer # "closed" => forwarded = input.msgs)
    <3>1. CASE upc = "done"
      BY <1>6, <3>1 DEF OnCourse
    <3>2. CASE upc # "done"
      <4>1. forwarded \o Todo = input.msgs /\ Todo \in Seq(Seq(Bytes))
        BY <1>1, <1>6, <3>2, TodoType DEF OnCourse
      <4> QED BY <1>1, <3>2, <4>1, PrefixOfConcat
    <3> QED BY <3>1, <3>2
  <2>2. Len(forwarded) <= Len(input.msgs) /\ forwarded = SubSeq(input.msgs, 1, Len(forwarded))
    BY <2>1 DEF Prefix
  <2>3. input.msgs \in Seq(Seq(Bytes))
    <3>1. input.bytes \in Seq(Bytes) /\ input.msgs = MessagesOf(input.bytes)
      BY <1>1, InputIs DEF ReaderInv, Window
    <3>2. 0 \in 0..Len(input.bytes)
      BY <3>1
    <3> QED BY <3>1, <3>2, MessagesType
  <2>4. \A i \in 1..k : SubSeq(input.msgs, 1, k)[i] = input.msgs[i]
    BY <1>3, <2>2, <2>3
  <2>5. \A i \in Certain : i <= Len(forwarded) => forwarded[i] = input.msgs[i]
    <3>1. l \in Nat
      BY <1>2, <2>3
    <3> QED BY <1>3, <1>4, <2>2, <2>4, <3>1
  <2>6. forwarded = input.msgs => \A i \in Certain : i <= Len(forwarded)
    BY <1>2, <1>4
  <2> QED BY <2>1, <2>2, <2>5, <2>6 DEF ForwardsWhatWasWritten
<1> QED BY <1>1, <1>5, <1>6

\* The invariant gives what the client reads.
LEMMA OutputFollows ==
    ASSUME IInv
    PROVE  OutputDecodes
<1>1. Printed /\ PumpTypes /\ Latched /\ TypeOK
  BY TypesFollow DEF IInv, PumpInv
<1>2. PICK n \in 0..got : Shown(n)
  BY <1>1 DEF Printed
<1>3. PICK g \in 0..Len(ServerBodies) : g = got
  BY <1>1 DEF TypeOK
<1>4. n \in 0..Len(ServerBodies) /\ n <= g
  <2>1. Len(ServerBodies) \in Nat
    BY BridgeAssumption
  <2> QED BY <1>2, <1>3, <2>1
<1>5. PICK a \in Seq(Seq(Bytes)), b \in Seq(Seq(Bytes)) :
          /\ a = Bodies(n) /\ b = Bodies(g) /\ Len(a) = n /\ Len(b) = g
          /\ \A i \in 1..n : a[i] = Flat(ServerBodies[i])
          /\ \A i \in 1..g : b[i] = Flat(ServerBodies[i])
  BY <1>4, BodiesAre
<1>6. Prefix(a, b)
  <2>1. ASSUME NEW i \in 1..n PROVE b[i] = a[i]
    <3>1. i \in 1..g
      BY <1>4
    <3> QED BY <1>5, <3>1
  <2>2. /\ SubSeq(b, 1, n) \in Seq(Seq(Bytes)) /\ Len(SubSeq(b, 1, n)) = n
        /\ \A i \in 1..n : SubSeq(b, 1, n)[i] = b[i]
    <3>1. b \in Seq(Seq(Bytes)) /\ n \in 0..Len(b)
      BY <1>4, <1>5
    <3> QED BY <3>1
  <2>3. SubSeq(b, 1, n) = a
    BY <1>5, <2>1, <2>2, SeqEqual
  <2> QED BY <1>4, <1>5, <2>3 DEF Prefix
<1>7. Decode(Spoken, stdout) = a /\ Bodies(got) = b
  BY <1>2, <1>3, <1>5 DEF Shown
<1>8. stdoutOpen => Len(a) = Written
  <2>1. dpc \in {"header", "body", "latch", "asleep", "done"}
    BY <1>1 DEF PumpTypes
  <2>2. stdoutOpen => n = Written
    BY <1>2, <2>1 DEF Shown, Written
  <2> QED BY <1>5, <2>2
<1>9. Prefix(Decode(Spoken, stdout), Bodies(got)) /\ (stdoutOpen => Len(Decode(Spoken, stdout)) = Written)
  BY <1>6, <1>7, <1>8
<1>10. CASE latch # UNKNOWN
  <2>1. Spoken \in ClientFramings
    BY <1>1, <1>10 DEF Latched, Spoken
  <2> QED BY <1>9, <2>1 DEF OutputDecodes, Bodies
<1>11. CASE latch = UNKNOWN
  <2>1. stdout = <<>>
    BY <1>1, <1>11 DEF Latched
  <2>2. \A f : Decode(f, <<>>) = <<>>
    <3>1. <<>> \in Seq(Bytes) /\ Len(<<>>) = 0
      OBVIOUS
    <3> QED BY <3>1, DecodeAtEnd DEF Decode
  <2>3. ClientFramings # {}
    BY DEF ClientFramings
  <2>4. PICK f : f \in ClientFramings
    BY <2>3
  <2>5. Decode(f, stdout) = Decode(Spoken, stdout)
    BY <2>1, <2>2
  <2> QED BY <1>9, <2>4, <2>5 DEF OutputDecodes, Bodies
<1> QED BY <1>10, <1>11

\* Every variable keeps its type, and the buffer of the reader never outgrows
\* MAX_MESSAGE.
THEOREM TypesAreKept == Spec => []TypeOK
<1>1. Init => IInv
  BY InitHolds
<1>2. IInv /\ [Next]_vars => IInv'
  BY StepKeeps
<1>3. IInv => TypeOK
  BY TypesFollow
<1> QED BY <1>1, <1>2, <1>3, PTL DEF Spec

\* For every input, limit and cutting of stdin into pieces, and whatever memory
\* holds behind the buffer: the server gets the messages that the client wrote,
\* whole, unchanged and in order, and all of them once the up pump has come to the
\* end of stdin, unless the server closed its end; up to the first header line
\* that is overlong or gives a length without a value, where the pieces matter.
THEOREM ServerGetsWhatWasWritten == Spec => []ForwardsWhatWasWritten
<1>1. Init => IInv
  BY InitHolds
<1>2. IInv /\ [Next]_vars => IInv'
  BY StepKeeps
<1>3. IInv => ForwardsWhatWasWritten
  BY ForwardingFollows
<1> QED BY <1>1, <1>2, <1>3, PTL DEF Spec

\* For every sequence of replies, however they interleave with the client's
\* messages and the teardown: a client that speaks the framing of its own
\* messages reads on stdout the replies of the server, whole and in order.
THEOREM ClientReadsReplies == Spec => []OutputDecodes
<1>1. Init => IInv
  BY InitHolds
<1>2. IInv /\ [Next]_vars => IInv'
  BY StepKeeps
<1>3. IInv => OutputDecodes
  BY OutputFollows
<1> QED BY <1>1, <1>2, <1>3, PTL DEF Spec

\* main frees the connection only when neither pump is in a call on it, nor will
\* make another.
THEOREM NoCallOnFreedConnection == Spec => []NoIoAfterClose
<1>1. Init => IInv
  BY InitHolds
<1>2. IInv /\ [Next]_vars => IInv'
  BY StepKeeps
<1>3. IInv => NoIoAfterClose
  <2>1. SUFFICES ASSUME IInv PROVE NoIoAfterClose
    OBVIOUS
  <2>2. MainLast /\ PumpTypes
    BY <2>1 DEF IInv, PumpInv
  <2> QED BY <2>2 DEF MainLast, NoIoAfterClose
<1> QED BY <1>1, <1>2, <1>3, PTL DEF Spec

=============================================================================
