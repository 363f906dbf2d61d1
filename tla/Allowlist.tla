----------------------------- MODULE Allowlist -----------------------------
(***************************************************************************)
(* The allowlist of client ids, src/mcp_allowlist.c: read once from the    *)
(* environment, asked before every write tool.                             *)
(*                                                                         *)
(* The text of the variable is a sequence of items: a whole numeral is its *)
(* value, and the other items, the characters, are below zero.  The limits *)
(* of uint32_t and of long are constants, so that the two data models of   *)
(* the builds (long wider than uint32_t, or as wide) can be told apart     *)
(* with small numbers.                                                     *)
(***************************************************************************)
EXTENDS Integers, Sequences, FiniteSets

CONSTANTS
    UINT32_MAX,
    LONG_MAX,
    MAX_ENTRIES,
    Texts,         \* values that the variable may have
    Unset          \* no value: the variable is not set

LongIsWider == UINT32_MAX < LONG_MAX
LongIsAsWide == UINT32_MAX = 2 * LONG_MAX + 1

ASSUME AllowAssumption ==
    /\ UINT32_MAX \in Nat /\ LONG_MAX \in Nat /\ (LongIsWider \/ LongIsAsWide)
    /\ MAX_ENTRIES \in Nat /\ Texts \subseteq Seq(Int) /\ Unset \notin Texts

Ids == 0..UINT32_MAX
Numeral(item) == item >= 0

Space == -1
Comma == -2
Minus == -3
Plus == -4
Letter == -5   \* any other character
End == -6      \* the terminating zero

Separators == {Space, Comma}

VARIABLES
    env,        \* DISPLAYXR_MCP_ALLOW
    policy,     \* g_state: initialized, has_policy, entries
    read        \* the value that the first mcp_allowlist_init found

allowVars == <<env, policy, read>>

AllowInit ==
    /\ env \in Texts \cup {Unset}
    /\ policy = [initialized |-> FALSE, has_policy |-> FALSE, entries |-> <<>>]
    /\ read = Unset

\* The conversion (long)v of an unsigned value.
ToLong(v) == IF v > LONG_MAX THEN v - 2 * (LONG_MAX + 1) ELSE v

ItemAt(text, i) == IF i <= Len(text) THEN text[i] ELSE End

\* strtol at position i: the value, cut to the range of long, and the position
\* behind the number, which is i itself when there is no number.
Strtol(text, i) ==
    LET d == IF ItemAt(text, i) \in {Minus, Plus} THEN i + 1 ELSE i
        cut == IF ItemAt(text, d) > LONG_MAX THEN LONG_MAX ELSE text[d]
    IN  IF ~Numeral(ItemAt(text, d)) THEN [v |-> 0, after |-> i]
        ELSE [v |-> IF text[i] = Minus THEN -cut ELSE cut, after |-> d + 1]

\* Mutant of Listable: no test of the range, and the cast wraps.
ListableAny(v) == TRUE

\* Mutant of Listable: the largest id is refused.
ListableBelow(v) == v >= 0 /\ v < ToLong(UINT32_MAX)

Listable(v) == v >= 0 /\ v <= ToLong(UINT32_MAX)

\* What the parse loop adds to entries at position i, and where it goes on: one
\* further at a separator or where there is no number, else behind the number.
EntryAt(text, i) ==
    LET num == Strtol(text, i)
    IN  IF num.after # i /\ Listable(num.v) THEN <<num.v % (UINT32_MAX + 1)>> ELSE <<>>

NextAt(text, i) == IF Strtol(text, i).after = i THEN i + 1 ELSE Strtol(text, i).after

\* The parse loop: what goes to entries, without the bound.
ParsedFrom(text) ==
    LET from[i \in 1..(Len(text) + 1)] ==
            IF i > Len(text) THEN <<>> ELSE EntryAt(text, i) \o from[NextAt(text, i)]
    IN  from[1]

Bounded(seq) == SubSeq(seq, 1, IF Len(seq) < MAX_ENTRIES THEN Len(seq) ELSE MAX_ENTRIES)

mcp_allowlist_init ==
    /\ ~policy.initialized
    /\ policy' = IF env = Unset
                 THEN [initialized |-> TRUE, has_policy |-> FALSE, entries |-> <<>>]
                 ELSE [initialized |-> TRUE, has_policy |-> TRUE,
                       entries |-> Bounded(ParsedFrom(env))]
    /\ read' = env
    /\ UNCHANGED env

\* The embedder changes its environment.
SetEnv ==
    /\ env' \in {Unset, <<>>} /\ env' # env
    /\ UNCHANGED <<policy, read>>

AllowNext == mcp_allowlist_init \/ SetEnv

AllowSpec == AllowInit /\ [][AllowNext]_allowVars

mcp_allowlist_has_policy == policy.initialized /\ policy.has_policy

mcp_allowlist_allows(id) ==
    \/ ~mcp_allowlist_has_policy
    \/ \E i \in 1..Len(policy.entries) : policy.entries[i] = id

-----------------------------------------------------------------------------
\* Where a list has its numerals, when it is one: only numerals and separators.
WellFormed(text) == \A i \in 1..Len(text) : Numeral(text[i]) \/ text[i] \in Separators
Listed(text) == {i \in 1..Len(text) : Numeral(text[i])}

\* A list of at most MAX_ENTRIES ids lets in exactly the ids that it lists, and
\* an empty list none; an id that has no 32 bits is not another id
\* (mcp_allowlist_init, mcp_allowlist_allows).  This is so where long is wider
\* than uint32_t; MCHostAllow.cfg refutes it for a long of 32 bits.
AllowsListed ==
    (/\ policy.initialized /\ read # Unset
     /\ WellFormed(read) /\ Cardinality(Listed(read)) <= MAX_ENTRIES) =>
        \A id \in Ids :
            mcp_allowlist_allows(id) <=> \E i \in 1..Len(read) : read[i] = id

\* Whatever the text, an id that is let in stands in it as a numeral, and
\* behind no minus sign: nothing wraps around (the casts of mcp_allowlist_init).
NothingInvented ==
    (policy.initialized /\ read # Unset) =>
        \A id \in Ids : mcp_allowlist_allows(id) =>
            \E i \in 1..Len(read) :
                read[i] = id /\ (i > 1 /\ id # 0 => read[i - 1] # Minus)

=============================================================================
