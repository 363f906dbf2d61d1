-------------------------- MODULE LogRing_proofs --------------------------
(***************************************************************************)
(* The log ring for every ring size: the window is intact, reads return    *)
(* what was logged, and reading through the ring implements LogStream.     *)
(***************************************************************************)
EXTENDS LogRing, SequenceTheorems, TLAPS

\* Two numbers less than N apart have different remainders: two entries of
\* one window never share a slot.
LEMMA ModDistinct ==
    ASSUME NEW N \in Nat \ {0}, NEW a \in Nat, NEW b \in Nat, a < b, b < a + N
    PROVE  a % N # b % N
<1>1. a = N * (a \div N) + (a % N) /\ a % N \in 0..N-1 /\ a \div N \in Nat
  BY SMT
<1>2. b = N * (b \div N) + (b % N) /\ b % N \in 0..N-1 /\ b \div N \in Nat
  BY SMT
<1>3. SUFFICES ASSUME a % N = b % N PROVE FALSE
  OBVIOUS
<1>4. b - a = N * (b \div N) - N * (a \div N)
  BY <1>1, <1>2, <1>3
<1> DEFINE k == (b \div N) - (a \div N)
<1>5. b - a = N * k /\ k \in Int
  BY <1>1, <1>2, <1>4
<1> HIDE DEF k
<1>6. CASE k <= 0
  <2>1. N * k <= 0
    BY <1>5, <1>6
  <2> QED BY <2>1, <1>5
<1>7. CASE k >= 1
  <2>1. N * k >= N
    BY <1>5, <1>7
  <2> QED BY <2>1, <1>5
<1> QED BY <1>5, <1>6, <1>7

\* A sequence number's slot is a slot of the ring.
LEMMA SlotInRing ==
    ASSUME NEW s \in Nat
    PROVE  SlotOf(s) \in 0..RING_SIZE - 1
BY RingAssumption DEF SlotOf

\* The window is never empty-headed: its oldest number is a valid one, and it
\* spans at most RING_SIZE numbers.
LEMMA OldestBounds ==
    ASSUME g_next_seq \in Nat, g_next_seq >= 1
    PROVE  /\ OldestInRing \in Nat
           /\ OldestInRing >= 1
           /\ OldestInRing <= g_next_seq
           /\ g_next_seq <= OldestInRing + RING_SIZE
BY RingAssumption DEF OldestInRing

\* A "max" is turned into a natural number.
LEMMA EffectiveMaxNat ==
    ASSUME NEW half \in HalfMaxes
    PROVE  EffectiveMax(half) \in Nat
BY RingAssumption DEF EffectiveMax

\* What mcp_log_ring_read returns, for any cursor a client can send.
LEMMA ReadFacts ==
    ASSUME TypeOK, WindowIntact,
           NEW since \in 0..SeqMod - 1, NEW max \in Nat
    PROVE  /\ ReadCount(since, max) \in Nat
           /\ ReadCount(since, max) <= max
           /\ ReadStart(since) \in Nat
           /\ ReadStart(since) >= OldestInRing
           /\ ReadStart(since) > 0
           /\ ReadCount(since, max) > 0 => ReadStart(since) + ReadCount(since, max) <= g_next_seq
           /\ RingRead(since, max).entries =
                [i \in 1..ReadCount(since, max) |->
                   [seq |-> ReadStart(since) + i - 1, text |-> log[ReadStart(since) + i - 1]]]
           /\ RingRead(since, max).cursor = ReadStart(since) + ReadCount(since, max) - 1
<1> DEFINE st == ReadStart(since)
           n  == ReadCount(since, max)
<1>1. g_next_seq \in Nat /\ g_next_seq >= 1
  BY RingAssumption DEF TypeOK
<1>2. /\ OldestInRing \in Nat /\ OldestInRing >= 1
      /\ OldestInRing <= g_next_seq
  BY <1>1, OldestBounds
<1>3. st \in Nat /\ st >= OldestInRing /\ st > 0
  BY <1>2, RingAssumption DEF ReadStart, Inc
<1>4. n \in Nat /\ n <= max /\ (n > 0 => st + n <= g_next_seq)
  BY <1>1, <1>3 DEF ReadCount
<1>5. \A i \in 1..n : g_ring[SlotOf(st + i - 1)] = [seq |-> st + i - 1, text |-> log[st + i - 1]]
  <2> SUFFICES ASSUME NEW i \in 1..n
               PROVE  g_ring[SlotOf(st + i - 1)] = [seq |-> st + i - 1, text |-> log[st + i - 1]]
    OBVIOUS
  <2>1. st + i - 1 \in OldestInRing..g_next_seq - 1
    BY <1>1, <1>2, <1>3, <1>4
  <2> QED BY <2>1 DEF WindowIntact
<1> QED
  <2>1. RingRead(since, max).entries = [i \in 1..n |-> g_ring[SlotOf(st + i - 1)]]
    BY DEF RingRead
  <2>2. RingRead(since, max).cursor = st + n - 1
    BY <1>3, <1>4 DEF RingRead
  <2> QED BY <1>3, <1>4, <1>5, <2>1, <2>2

\* What a read from the middle of the stream skips and where it starts.
LEMMA StreamingRead ==
    ASSUME TypeOK, WindowIntact,
           NEW since \in Nat, since <= Len(log), NEW max \in Nat
    PROVE  LET gap == IF since < Len(log) - RING_SIZE THEN Len(log) - RING_SIZE - since ELSE 0
               n   == ReadCount(since, max)
           IN  /\ since \in 0..SeqMod - 1
               /\ gap \in Nat
               /\ ReadStart(since) = since + gap + 1
               /\ RingRead(since, max).dropped = gap
               /\ n \in Nat
               /\ since + gap + n <= Len(log)
<1>1. /\ g_next_seq \in Nat /\ g_next_seq >= 1 /\ g_next_seq < SeqMod
      /\ Len(log) = g_next_seq - 1
  BY RingAssumption DEF TypeOK, WindowIntact
<1>2. Inc(since) = since + 1 /\ since \in 0..SeqMod - 1
  BY <1>1, RingAssumption DEF Inc
<1> DEFINE gap == IF since < Len(log) - RING_SIZE THEN Len(log) - RING_SIZE - since ELSE 0
<1>3. gap \in Nat /\ ReadStart(since) = since + gap + 1
  BY <1>1, <1>2, RingAssumption DEF ReadStart, OldestInRing
<1>4. RingRead(since, max).dropped = gap
  BY <1>1, <1>2, RingAssumption DEF RingRead, OldestInRing
<1>5. since + gap <= Len(log)
  BY <1>1, RingAssumption
<1>6. ReadCount(since, max) \in Nat /\ since + gap + ReadCount(since, max) <= Len(log)
  BY <1>1, <1>3, <1>5 DEF ReadCount
<1> QED BY <1>2, <1>3, <1>4, <1>6
-----------------------------------------------------------------------------
(***************************************************************************)
(* The inductive invariant.  NoSilentLoss bounds the cursors by the log,   *)
(* without which a read could run past the window.                         *)
(***************************************************************************)
IInv == TypeOK /\ WindowIntact /\ NoSilentLoss

\* An empty ring satisfies the invariant.
LEMMA InitIInv == Init => IInv
<1> SUFFICES ASSUME Init PROVE IInv
  OBVIOUS
<1>1. TypeOK
  <2>1. [seq |-> 0, text |-> NoLine] \in Entries
    BY DEF Entries
  <2>2. g_ring \in [0..RING_SIZE - 1 -> Entries]
    BY <2>1 DEF Init
  <2>3. received \in [Readers -> Seq(Entries)] /\ log \in Seq(Lines)
    BY DEF Init
  <2>4. cursor \in [Readers -> Nat] /\ dropped \in [Readers -> Nat]
    BY DEF Init
  <2>5. g_next_seq \in 1..SeqMod - 1
    BY RingAssumption DEF Init
  <2>6. g_started \in BOOLEAN
    BY DEF Init
  <2> QED BY <2>2, <2>3, <2>4, <2>5, <2>6 DEF TypeOK
<1>2. WindowIntact
  BY RingAssumption DEF Init, WindowIntact, OldestInRing
<1>3. NoSilentLoss
  BY DEF Init, NoSilentLoss
<1> QED BY <1>1, <1>2, <1>3 DEF IInv

\* mcp_log_ring_append_text preserves it: the slot it overwrites is the one
\* that leaves the window.
LEMMA AppendIInv ==
    ASSUME IInv, NEW line \in Lines, Append_text(line)
    PROVE  IInv'
<1> USE DEF IInv
<1>1. /\ g_next_seq \in Nat /\ g_next_seq >= 1
      /\ Len(log) = g_next_seq - 1 /\ log \in Seq(Lines)
  BY RingAssumption DEF TypeOK, WindowIntact
<1>2. SlotOf(g_next_seq) \in 0..RING_SIZE - 1
  BY <1>1, SlotInRing
<1>3. TypeOK'
  <2>1. [seq |-> g_next_seq, text |-> line] \in Entries
    BY <1>1 DEF Entries
  <2>2. g_ring' \in [0..RING_SIZE - 1 -> Entries]
    BY <1>2, <2>1 DEF TypeOK, Append_text
  <2>3. g_next_seq' \in 1..SeqMod - 1
    BY <1>1, RingAssumption DEF TypeOK, Append_text
  <2>4. log' \in Seq(Lines)
    BY <1>1 DEF Append_text
  <2> QED BY <2>2, <2>3, <2>4 DEF TypeOK, Append_text, readerVars
<1>4. WindowIntact'
  <2>1. /\ g_next_seq' = g_next_seq + 1
        /\ Len(log') = g_next_seq
        /\ \A s \in 1..g_next_seq - 1 : log'[s] = log[s]
        /\ log'[g_next_seq] = line
    BY <1>1 DEF Append_text
  <2>2. /\ OldestInRing' \in Nat /\ OldestInRing' >= 1
        /\ OldestInRing' >= OldestInRing
        /\ g_next_seq + 1 <= OldestInRing' + RING_SIZE
    BY <1>1, <2>1, RingAssumption DEF OldestInRing
  <2>3. ASSUME NEW s \in OldestInRing'..g_next_seq
        PROVE  g_ring'[SlotOf(s)] = [seq |-> s, text |-> log'[s]]
    <3>1. CASE s = g_next_seq
      BY <3>1, <1>2, <2>1 DEF TypeOK, Append_text
    <3>2. CASE s # g_next_seq
      <4>0. RING_SIZE \in Nat /\ s \in Int /\ s >= OldestInRing' /\ s <= g_next_seq
        BY <1>1, <2>2, RingAssumption
      <4>a. s \in Nat /\ s < g_next_seq
        BY <1>1, <2>2, <3>2, <4>0
      <4>b. g_next_seq < s + RING_SIZE
        <5>1. \A lo, g, x, N \in Int : g + 1 <= lo + N /\ x >= lo => g < x + N
          OBVIOUS
        <5>2. OldestInRing' \in Int /\ g_next_seq \in Int /\ RING_SIZE \in Int /\ s \in Int
          BY <1>1, <2>2, <4>0
        <5>3. g_next_seq + 1 <= OldestInRing' + RING_SIZE /\ s >= OldestInRing'
          BY <2>2, <4>0
        <5> QED BY <5>1, <5>2, <5>3
      <4>1. s \in Nat /\ s < g_next_seq /\ g_next_seq < s + RING_SIZE
        BY <4>a, <4>b
      <4>2. SlotOf(s) # SlotOf(g_next_seq)
        BY <1>1, <4>1, ModDistinct, RingAssumption DEF SlotOf
      <4>3. SlotOf(s) \in 0..RING_SIZE - 1
        BY <4>1, SlotInRing
      <4>4. g_ring'[SlotOf(s)] = g_ring[SlotOf(s)]
        BY <4>2, <4>3 DEF TypeOK, Append_text
      <4>5. s \in OldestInRing..g_next_seq - 1
        BY <1>1, <2>2, <4>1, OldestBounds
      <4>6. g_ring[SlotOf(s)] = [seq |-> s, text |-> log[s]]
        BY <4>5 DEF WindowIntact
      <4> QED BY <2>1, <2>2, <4>1, <4>4, <4>6
    <3> QED BY <3>1, <3>2
  <2>4. \A s \in OldestInRing'..g_next_seq' - 1 :
           g_ring'[SlotOf(s)] = [seq |-> s, text |-> log'[s]]
    BY <1>1, <2>1, <2>3
  <2>5. Len(log') = g_next_seq' - 1
    BY <1>1, <2>1
  <2>6. \A s : SlotOf(s)' = SlotOf(s)
    BY DEF SlotOf
  <2> QED BY <2>4, <2>5, <2>6 DEF WindowIntact
<1>5. NoSilentLoss'
  BY <1>1 DEF TypeOK, NoSilentLoss, Append_text, readerVars
<1> QED BY <1>3, <1>4, <1>5

\* A tail_log call preserves it: what it skips it counts.
LEMMA TailLogIInv ==
    ASSUME IInv, NEW r \in Readers, NEW half \in HalfMaxes, TailLog(r, half)
    PROVE  IInv'
<1> USE DEF IInv
<1> DEFINE since == cursor[r]
           max == EffectiveMax(half)
           res == RingRead(since, max)
           n   == ReadCount(since, max)
           gap == IF since < Len(log) - RING_SIZE THEN Len(log) - RING_SIZE - since ELSE 0
<1>1. since \in Nat /\ since <= Len(log) /\ max \in Nat
  BY EffectiveMaxNat DEF TypeOK, NoSilentLoss
<1> HIDE DEF since, max
<1>2. /\ since \in 0..SeqMod - 1
      /\ gap \in Nat
      /\ ReadStart(since) = since + gap + 1
      /\ res.dropped = gap
      /\ n \in Nat
      /\ since + gap + n <= Len(log)
  BY <1>1, StreamingRead
<1>3. /\ res.entries = [i \in 1..n |-> [seq |-> ReadStart(since) + i - 1,
                                        text |-> log[ReadStart(since) + i - 1]]]
      /\ res.cursor = ReadStart(since) + n - 1
  BY <1>1, <1>2, ReadFacts
<1> HIDE DEF res, n, gap
<1>4. res.cursor = since + gap + n /\ res.cursor \in Nat
  BY <1>1, <1>2, <1>3
<1>5. res.entries \in Seq(Entries) /\ Len(res.entries) = n
  <2>1. ASSUME NEW i \in 1..n
        PROVE  [seq |-> ReadStart(since) + i - 1, text |-> log[ReadStart(since) + i - 1]] \in Entries
    <3>1. ReadStart(since) + i - 1 \in 1..Len(log)
      BY <1>1, <1>2
    <3>2. log[ReadStart(since) + i - 1] \in Lines
      BY <3>1 DEF TypeOK
    <3> QED BY <3>1, <3>2 DEF Entries
  <2>2. res.entries \in [1..n -> Entries]
    BY <1>3, <2>1
  <2> QED BY <1>2, <2>2, SeqDef
<1>6. /\ cursor' = [cursor EXCEPT ![r] = res.cursor]
      /\ received' = [received EXCEPT ![r] = received[r] \o res.entries]
      /\ dropped' = [dropped EXCEPT ![r] = dropped[r] + res.dropped]
      /\ UNCHANGED ringVars
  BY DEF TailLog, res, since, max
<1>7. TypeOK'
  <2>1. received[r] \o res.entries \in Seq(Entries)
    BY <1>5 DEF TypeOK
  <2>2. dropped[r] + res.dropped \in Nat
    BY <1>2 DEF TypeOK
  <2> QED BY <1>4, <1>6, <2>1, <2>2 DEF TypeOK, ringVars
<1>8. WindowIntact'
  BY <1>6 DEF ringVars, WindowIntact, OldestInRing, SlotOf
<1>9. NoSilentLoss'
  <2>0. received[r] \in Seq(Entries) /\ Len(received[r]) \in Nat
    BY DEF TypeOK
  <2>1. Len(received[r] \o res.entries) = Len(received[r]) + n
    BY <1>5, <2>0, ConcatProperties
  <2>2. Len(received[r]) + dropped[r] = since
    BY DEF NoSilentLoss, since
  <2>3. Len(received'[r]) + dropped'[r] = cursor'[r] /\ cursor'[r] <= Len(log')
    <3>1. /\ cursor'[r] = since + gap + n
          /\ received'[r] = received[r] \o res.entries
          /\ dropped'[r] = dropped[r] + gap
          /\ log' = log /\ dropped[r] \in Nat
      BY <1>2, <1>4, <1>6 DEF TypeOK, ringVars
    <3>2. Len(received'[r]) = Len(received[r]) + n /\ Len(log') = Len(log)
      BY <2>1, <3>1
    <3>3. (Len(received[r]) + n) + (dropped[r] + gap) = since + gap + n
      <4>1. \A l, d, c, g, k \in Int : l + d = c => (l + k) + (d + g) = c + g + k
        OBVIOUS
      <4>2. /\ Len(received[r]) \in Int /\ dropped[r] \in Int
            /\ since \in Int /\ gap \in Int /\ n \in Int
        BY <1>1, <1>2, <2>0, <3>1
      <4> QED BY <2>2, <4>1, <4>2
    <3>4. Len(received'[r]) + dropped'[r] = cursor'[r]
      BY <3>1, <3>2, <3>3
    <3>5. cursor'[r] <= Len(log')
      BY <1>2, <3>1
    <3> QED BY <3>4, <3>5
  <2>4. ASSUME NEW q \in Readers, q # r
        PROVE  Len(received'[q]) + dropped'[q] = cursor'[q] /\ cursor'[q] <= Len(log')
    BY <1>6, <2>4 DEF TypeOK, NoSilentLoss, ringVars
  <2> QED BY <2>3, <2>4 DEF NoSilentLoss
<1> QED BY <1>7, <1>8, <1>9

\* Every step preserves the invariant.
LEMMA NextIInv == IInv /\ [Next]_vars => IInv'
<1> SUFFICES ASSUME IInv, [Next]_vars PROVE IInv'
  OBVIOUS
<1>1. CASE Start
  BY <1>1 DEF IInv, Start, TypeOK, WindowIntact, NoSilentLoss, OldestInRing, SlotOf, readerVars
<1>2. CASE Stop
  BY <1>2 DEF IInv, Stop, TypeOK, WindowIntact, NoSilentLoss, OldestInRing, SlotOf, readerVars
<1>3. CASE \E line \in Lines : Append_text(line)
  BY <1>3, AppendIInv
<1>4. CASE \E r \in Readers, half \in HalfMaxes : TailLog(r, half)
  BY <1>4, TailLogIInv
<1>5. CASE UNCHANGED vars
  BY <1>5 DEF IInv, vars, TypeOK, WindowIntact, NoSilentLoss, OldestInRing, SlotOf
<1> QED BY <1>1, <1>2, <1>3, <1>4, <1>5 DEF Next
-----------------------------------------------------------------------------
\* For every ring size: types, the intact window, and no line lost silently
\* by mcp_log_ring_append_text or tail_log.
THEOREM RingInvariant == Spec => []IInv
BY InitIInv, NextIInv, PTL DEF Spec

\* The sequence numbers of mcp_log_ring_append_text, and whatever cursor a client
\* holds, keep within their types for every ring size and reader.
THEOREM RingTypes == Spec => []TypeOK
<1>1. IInv => TypeOK
  BY DEF IInv
<1> QED BY <1>1, RingInvariant, PTL

\* mcp_log_ring_append_text keeps every line that mcp_log_ring_read may still
\* return in the slot the read looks in.
THEOREM RingWindow == Spec => []WindowIntact
<1>1. IInv => WindowIntact
  BY DEF IInv
<1> QED BY <1>1, RingInvariant, PTL

\* A tail_log client that passes its cursor back accounts for every line.
THEOREM RingNoSilentLoss == Spec => []NoSilentLoss
<1>1. IInv => NoSilentLoss
  BY DEF IInv
<1> QED BY <1>1, RingInvariant, PTL

\* mcp_log_ring_read returns logged lines for every cursor a client may send,
\* the wrapping one included.
THEOREM RingReads == Spec => []ReadMatchesLog
<1>1. IInv => ReadMatchesLog
  <2> SUFFICES ASSUME IInv, NEW since \in 0..SeqMod - 1, NEW half \in HalfMaxes
               PROVE  LET res == RingRead(since, EffectiveMax(half))
                          n   == Len(res.entries)
                      IN  /\ n <= EffectiveMax(half)
                          /\ \A i \in 1..n :
                                LET s == ReadStart(since) + i - 1
                                IN  /\ s \in 1..Len(log)
                                    /\ res.entries[i] = [seq |-> s, text |-> log[s]]
                          /\ n > 0 => res.cursor = res.entries[n].seq
    BY DEF ReadMatchesLog
  <2> DEFINE max == EffectiveMax(half)
             res == RingRead(since, max)
             k   == ReadCount(since, max)
             st  == ReadStart(since)
  <2>1. max \in Nat /\ TypeOK /\ WindowIntact
    BY EffectiveMaxNat DEF IInv
  <2> HIDE DEF max
  <2>2. /\ k \in Nat /\ k <= max /\ st \in Nat /\ st > 0
        /\ k > 0 => st + k <= g_next_seq
        /\ res.entries = [i \in 1..k |-> [seq |-> st + i - 1, text |-> log[st + i - 1]]]
        /\ res.cursor = st + k - 1
    BY <2>1, ReadFacts
  <2> HIDE DEF res, k, st
  <2>3. Len(res.entries) = k
    BY <2>2
  <2>4. Len(log) = g_next_seq - 1 /\ g_next_seq \in Nat
    BY <2>1, RingAssumption DEF WindowIntact, TypeOK
  <2>5. \A i \in 1..k : /\ st + i - 1 \in 1..Len(log)
                        /\ res.entries[i] = [seq |-> st + i - 1, text |-> log[st + i - 1]]
    BY <2>2, <2>4
  <2>6. k > 0 => res.cursor = res.entries[k].seq
    BY <2>2, <2>5
  <2> QED BY <2>2, <2>3, <2>5, <2>6 DEF res, max, st
<1> QED BY <1>1, RingInvariant, PTL
-----------------------------------------------------------------------------
\* The ring starts as the empty stream.
LEMMA InitStream == Init => Stream!Init
BY DEF Init, Stream!Init

\* A tail_log call is a fetch from the stream.
LEMMA TailLogStream ==
    ASSUME IInv, NEW r \in Readers, NEW half \in HalfMaxes, TailLog(r, half)
    PROVE  \E n \in 0..Len(log) : Stream!Fetch(r, n)
<1> DEFINE since == cursor[r]
           max == EffectiveMax(half)
           res == RingRead(since, max)
           n   == ReadCount(since, max)
           gap == IF since < Len(log) - RING_SIZE THEN Len(log) - RING_SIZE - since ELSE 0
<1>0. TypeOK /\ WindowIntact /\ NoSilentLoss
  BY DEF IInv
<1>1. since \in Nat /\ since <= Len(log) /\ max \in Nat /\ Len(log) \in Nat
  BY <1>0, EffectiveMaxNat DEF TypeOK, NoSilentLoss
<1>a. gap = Stream!Gap(r)
  BY DEF Stream!Gap
<1> HIDE DEF since, max
<1>2. /\ since \in 0..SeqMod - 1
      /\ gap \in Nat
      /\ ReadStart(since) = since + gap + 1
      /\ res.dropped = gap
      /\ n \in Nat
      /\ since + gap + n <= Len(log)
  BY <1>0, <1>1, StreamingRead
<1>3. /\ res.entries = [i \in 1..n |-> [seq |-> ReadStart(since) + i - 1,
                                        text |-> log[ReadStart(since) + i - 1]]]
      /\ res.cursor = ReadStart(since) + n - 1
  BY <1>0, <1>1, <1>2, ReadFacts
<1>6. /\ cursor' = [cursor EXCEPT ![r] = res.cursor]
      /\ received' = [received EXCEPT ![r] = received[r] \o res.entries]
      /\ dropped' = [dropped EXCEPT ![r] = dropped[r] + res.dropped]
      /\ log' = log
  BY DEF TailLog, res, since, max, ringVars
<1> HIDE DEF res, n, gap
<1>4. res.cursor = since + gap + n
  BY <1>1, <1>2, <1>3
<1>5. res.entries = [i \in 1..n |-> [seq |-> since + gap + i, text |-> log[since + gap + i]]]
  <2>1. \A i \in 1..n : ReadStart(since) + i - 1 = since + gap + i
    BY <1>1, <1>2
  <2> QED BY <1>3, <2>1
<1>7. n \in 0..Len(log)
  BY <1>1, <1>2
<1>8. Stream!Fetch(r, n)
  BY <1>2, <1>4, <1>5, <1>6, <1>a DEF Stream!Fetch, since
<1> QED BY <1>7, <1>8

\* Every step of the ring is a step of the stream or leaves it alone.
LEMMA NextStream == IInv /\ [Next]_vars => [Stream!Next]_(Stream!vars)
<1> SUFFICES ASSUME IInv, [Next]_vars PROVE [Stream!Next]_(Stream!vars)
  OBVIOUS
<1>1. CASE Start
  BY <1>1 DEF Start, readerVars, Stream!vars
<1>2. CASE Stop
  BY <1>2 DEF Stop, readerVars, Stream!vars
<1>3. CASE \E line \in Lines : Append_text(line)
  BY <1>3 DEF Append_text, readerVars, Stream!Next, Stream!Publish
<1>4. CASE \E r \in Readers, half \in HalfMaxes : TailLog(r, half)
  BY <1>4, TailLogStream DEF Stream!Next
<1>5. CASE UNCHANGED vars
  BY <1>5 DEF vars, Stream!vars
<1> QED BY <1>1, <1>2, <1>3, <1>4, <1>5 DEF Next

\* Reading through the ring with tail_log implements reading the log itself:
\* in order, unaltered, skipping only evicted lines and counting them.
THEOREM RingImplementsStream == Spec => ImplementsStream
BY InitStream, NextStream, RingInvariant, PTL DEF Spec, ImplementsStream, Stream!Spec
===========================================================================
