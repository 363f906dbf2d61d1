------------------------------ MODULE LogRing ------------------------------
(***************************************************************************)
(* The log ring of src/mcp_log_ring.c and its reader, the built-in         *)
(* tail_log tool of src/mcp_server.c.                                      *)
(*                                                                         *)
(* Embedder threads append lines, any number of tail_log clients read by   *)
(* cursor.  Every function of the module runs under the one mutex g_lock   *)
(* and blocks on nothing else while it holds it, so each call is one       *)
(* action.  A line's level and timestamp are carried, never looked at, by  *)
(* the ring; they are part of the abstract line in Lines.                  *)
(***************************************************************************)
EXTENDS Integers, Sequences

CONSTANTS
    RING_SIZE,   \* number of slots of g_ring
    SeqMod,      \* 2^64 in the code: cursors and sequence numbers wrap here
    Lines,       \* what an embedder may log
    Readers,     \* tail_log clients that stream by cursor
    HalfMaxes,   \* the "max" arguments readers pass, in halves (JSON numbers)
    DefaultMax,  \* 128: used when "max" is absent or out of range
    MaxMax       \* 1024: the largest "max" the tool honours

ASSUME RingAssumption ==
    /\ RING_SIZE \in Nat \ {0}
    /\ SeqMod \in Nat
    /\ SeqMod > RING_SIZE + 1
    /\ HalfMaxes \subseteq Int
    /\ MaxMax \in Nat \ {0}
    /\ DefaultMax \in 1..MaxMax

VARIABLES
    g_ring,      \* slot -> entry; seq 0 is a slot never written (static storage)
    g_next_seq,  \* the sequence number of the next line
    g_started,   \* appends are dropped while FALSE
    log,         \* history: log[s] is the line that got sequence number s
    cursor,      \* reader -> the cursor its last call returned
    received,    \* reader -> the entries its calls have returned so far
    dropped      \* reader -> sum of the "dropped" fields of its calls

vars == <<g_ring, g_next_seq, g_started, log, cursor, received, dropped>>
ringVars == <<g_ring, g_next_seq, g_started, log>>
readerVars == <<cursor, received, dropped>>

NoLine == "never written"
Entries == [seq : Nat, text : Lines \cup {NoLine}]

\* seq & (RING_SIZE - 1); the code insists that RING_SIZE is a power of two.
SlotOf(seq) == seq % RING_SIZE

\* Unsigned 64-bit increment.
Inc(n) == IF n + 1 = SeqMod THEN 0 ELSE n + 1

(***************************************************************************)
(* mcp_log_ring_read                                                       *)
(***************************************************************************)
\* Mutant of OldestInRing: a window that is one entry too long.
OldestInRingTooOld == IF g_next_seq > RING_SIZE THEN g_next_seq - RING_SIZE - 1 ELSE 1

OldestInRing == IF g_next_seq > RING_SIZE THEN g_next_seq - RING_SIZE ELSE 1

\* Mutant of ReadStart: evicted entries are not skipped.
ReadStartNoSkip(since) == Inc(since)

\* Where the copy loop starts, after the adjustment for evicted entries.
ReadStart(since) == IF Inc(since) < OldestInRing THEN OldestInRing ELSE Inc(since)

\* How many iterations the copy loop runs.
ReadCount(since, max) ==
    LET avail == g_next_seq - ReadStart(since)
    IN  IF avail <= 0 THEN 0 ELSE IF avail < max THEN avail ELSE max

\* Mutant of RingRead: evictions are skipped and not reported.
RingReadSilent(since, max) ==
    LET start == ReadStart(since)
        n     == ReadCount(since, max)
    IN  [entries |-> [i \in 1..n |-> g_ring[SlotOf(start + i - 1)]],
         cursor  |-> start + n - 1,
         dropped |-> 0]

\* The entries the call copies out and its out-parameters.
RingRead(since, max) ==
    LET start == ReadStart(since)
        n     == ReadCount(since, max)
        stop  == start + n
    IN  [entries |-> [i \in 1..n |-> g_ring[SlotOf(start + i - 1)]],
         cursor  |-> IF stop > 0 THEN stop - 1 ELSE 0,
         dropped |-> IF Inc(since) < OldestInRing THEN OldestInRing - Inc(since) ELSE 0]

\* tool_tail_log: a "max" outside (0, 1024] falls back to the default, one
\* inside is truncated to an integer, so that 0.5 asks for no entry at all.
EffectiveMax(half) ==
    IF half > 0 /\ half <= 2 * MaxMax THEN half \div 2 ELSE DefaultMax

-----------------------------------------------------------------------------
Init ==
    /\ g_ring = [i \in 0..RING_SIZE - 1 |-> [seq |-> 0, text |-> NoLine]]
    /\ g_next_seq = 1
    /\ g_started = FALSE
    /\ log = <<>>
    /\ cursor = [r \in Readers |-> 0]
    /\ received = [r \in Readers |-> <<>>]
    /\ dropped = [r \in Readers |-> 0]

\* mcp_log_ring_start, from register_builtins
Start ==
    /\ g_started' = TRUE
    /\ UNCHANGED <<g_ring, g_next_seq, log, readerVars>>

\* mcp_log_ring_stop, from mcp_server_stop
Stop ==
    /\ g_started' = FALSE
    /\ UNCHANGED <<g_ring, g_next_seq, log, readerVars>>

\* mcp_log_ring_append_text; a call while stopped returns without effect.
\* SeqMod is 2^64 in the code, so that running out of sequence numbers is
\* outside the model: the second guard names that bound.
Append_text(line) ==
    /\ g_started
    /\ g_next_seq + 1 < SeqMod
    /\ g_ring' = [g_ring EXCEPT ![SlotOf(g_next_seq)] = [seq |-> g_next_seq, text |-> line]]
    /\ g_next_seq' = g_next_seq + 1
    /\ log' = Append(log, line)
    /\ UNCHANGED <<g_started, readerVars>>

\* A tail_log call of a client that passes the cursor it was given last.
TailLog(r, half) ==
    LET res == RingRead(cursor[r], EffectiveMax(half))
    IN  /\ cursor' = [cursor EXCEPT ![r] = res.cursor]
        /\ received' = [received EXCEPT ![r] = @ \o res.entries]
        /\ dropped' = [dropped EXCEPT ![r] = @ + res.dropped]
        /\ UNCHANGED ringVars

Next ==
    \/ Start
    \/ Stop
    \/ \E line \in Lines : Append_text(line)
    \/ \E r \in Readers, half \in HalfMaxes : TailLog(r, half)

Spec == Init /\ [][Next]_vars

-----------------------------------------------------------------------------
\* Every variable keeps its type; the ring never grows and g_next_seq, which
\* mcp_log_ring_append_text increments, stays a valid sequence number.
TypeOK ==
    /\ g_ring \in [0..RING_SIZE - 1 -> Entries]
    /\ g_next_seq \in 1..SeqMod - 1
    /\ g_started \in BOOLEAN
    /\ log \in Seq(Lines)
    /\ cursor \in [Readers -> Nat]
    /\ received \in [Readers -> Seq(Entries)]
    /\ dropped \in [Readers -> Nat]

\* For every sequence number that has not been evicted, the slot that
\* mcp_log_ring_read will look in holds the line logged under that number: the
\* writer's and the reader's idea of the window agree on every wrap-around and
\* across stop and start.
WindowIntact ==
    /\ Len(log) = g_next_seq - 1
    /\ \A s \in OldestInRing..g_next_seq - 1 :
          g_ring[SlotOf(s)] = [seq |-> s, text |-> log[s]]

\* Every read, whatever cursor a client sends (a stale one, one from the
\* future, 2^64 - 1), returns consecutive logged lines with the text they were
\* logged with, never more than asked for, and the returned cursor is the last
\* line it covers.
ReadMatchesLog ==
    \A since \in 0..SeqMod - 1, half \in HalfMaxes :
        LET res == RingRead(since, EffectiveMax(half))
            n   == Len(res.entries)
        IN  /\ n <= EffectiveMax(half)
            /\ \A i \in 1..n :
                  LET s == ReadStart(since) + i - 1
                  IN  /\ s \in 1..Len(log)
                      /\ res.entries[i] = [seq |-> s, text |-> log[s]]
            /\ n > 0 => res.cursor = res.entries[n].seq

\* A client that streams by cursor accounts for every line: up to its cursor,
\* each line was either returned by one of its tail_log calls or counted in
\* "dropped".
NoSilentLoss ==
    \A r \in Readers :
        /\ cursor[r] <= Len(log)
        /\ Len(received[r]) + dropped[r] = cursor[r]

Stream == INSTANCE LogStream WITH Capacity <- RING_SIZE

\* Reading through the ring by cursor is reading the log itself: each tail_log
\* call returns the lines that follow the cursor, in order and unaltered, and
\* skips only lines that RING_SIZE younger ones have evicted.
ImplementsStream == Stream!Spec

\* The description of mcp_log_ring_stop in mcp_log_ring.h, "Drop the ring
\* buffer": once stopped, no entry is left to read.
StopDropsRing == ~g_started => RingRead(0, MaxMax).entries = <<>>

=============================================================================
