--------------------------- MODULE PrefixRegistry ---------------------------
(***************************************************************************)
(* The sticky tool-name prefixes of adapter/workspace_aggregator.c.        *)
(*                                                                         *)
(* Everything here runs under g.lock, so each operation is one action.     *)
(* A prefix is a base and its numeric suffixes: "foo-2" is base "foo" with *)
(* suffix 2, whether an app declared it or a collision produced it.        *)
(***************************************************************************)
EXTENDS Integers, Sequences

CONSTANTS
    Apps,          \* app processes
    Bases,         \* what names are made of, other than suffixes
    Idents,        \* app ids that apps declare, and basenames of executables
    Slug,          \* what slugify makes of them; not one to one
    MAX_PREFIXES,  \* room in used_prefixes
    SuffixLimit,   \* 100: suffixes 2 .. SuffixLimit - 1 are tried
    MaxTakes       \* bound: prefixes assigned

Names == [base : Bases, suffix : Seq(Nat)]

NoIdent == "none"
NoName == [base |-> "", suffix |-> <<>>]
ShellName == [base |-> "shell", suffix |-> <<>>]

ASSUME PrefixAssumption ==
    /\ "" \in Bases
    /\ NoIdent \notin Idents
    /\ Slug \in [Idents -> Names]
    /\ \A ident \in Idents : Slug[ident].base # ""
    /\ MAX_PREFIXES \in Nat
    /\ SuffixLimit \in Nat
    /\ MaxTakes \in Nat

VARIABLES
    used_prefixes,  \* every name recorded as handed out, in order
    prefix,         \* app -> its current prefix, or NoName
    app_id,         \* app -> the id it has declared, or NoIdent
    shell,          \* is the shell a member?
    owners,         \* history: <<name, app>> for every name an app has had
    takes,          \* history: how often a prefix was assigned
    unrecorded      \* history: was a name ever handed out unrecorded?

vars == <<used_prefixes, prefix, app_id, shell, owners, takes, unrecorded>>

\* The name "want-n"; 0 stands for the "x" of the last resort.
Suffixed(want, n) == [want EXCEPT !.suffix = Append(@, n)]

\* Mutant of prefix_in_use: only the members of the moment are looked at.
prefix_in_useNow(p) == \E a \in Apps : prefix[a] = p

prefix_in_use(p) == \E i \in 1..Len(used_prefixes) : used_prefixes[i] = p

\* A full table records nothing.
reserve_prefix(p) ==
    IF Len(used_prefixes) < MAX_PREFIXES THEN Append(used_prefixes, p) ELSE used_prefixes

\* The suffixes that would make an unused name.
FreeSuffixes(want) == {n \in 2..SuffixLimit - 1 : ~prefix_in_use(Suffixed(want, n))}
FirstSuffix(want) == CHOOSE n \in FreeSuffixes(want) : \A m \in FreeSuffixes(want) : n <= m

\* Mutant of assign_prefix: a taken name is suffixed without looking whether
\* the result is free.
assign_prefixBlind(want) ==
    IF ~prefix_in_use(want) THEN [name |-> want, used |-> reserve_prefix(want)]
    ELSE [name |-> Suffixed(want, 2), used |-> reserve_prefix(Suffixed(want, 2))]

\* assign_prefix: the bare name, then -2, -3, ...; "-x", unrecorded, when the
\* suffixes run out.
assign_prefix(want) ==
    IF ~prefix_in_use(want) THEN [name |-> want, used |-> reserve_prefix(want)]
    ELSE IF FreeSuffixes(want) # {}
         THEN LET p == Suffixed(want, FirstSuffix(want))
              IN  [name |-> p, used |-> reserve_prefix(p)]
         ELSE [name |-> Suffixed(want, 0), used |-> used_prefixes]

Init ==
    /\ used_prefixes = <<>>
    /\ prefix = [a \in Apps |-> NoName]
    /\ app_id = [a \in Apps |-> NoIdent]
    /\ shell = FALSE
    /\ owners = {}
    /\ takes = 0
    /\ unrecorded = FALSE

Take(a, ident) ==
    LET given == assign_prefix(Slug[ident])
    IN  /\ takes < MaxTakes /\ takes' = takes + 1
        /\ used_prefixes' = given.used
        /\ prefix' = [prefix EXCEPT ![a] = given.name]
        /\ owners' = owners \cup {<<given.name, a>>}
        /\ unrecorded' = (unrecorded \/ given.used = used_prefixes)

\* backend_setup registers an app under the slug of the id it declared, or,
\* without one, of its executable; an app may come back.
Join(a, ident, declared) ==
    /\ prefix[a] = NoName
    /\ app_id' = [app_id EXCEPT ![a] = IF declared THEN ident ELSE NoIdent]
    /\ Take(a, ident)
    /\ UNCHANGED shell

\* apply_tools_result: the app reports another id and is given a new prefix,
\* even when the slug is the one it has.
Reprefix(a, ident) ==
    /\ prefix[a] # NoName /\ ident # app_id[a]
    /\ app_id' = [app_id EXCEPT ![a] = ident]
    /\ Take(a, ident)
    /\ UNCHANGED shell

\* backend_teardown_locked clears the slot; the name stays reserved.
Leave(a) ==
    /\ prefix[a] # NoName
    /\ prefix' = [prefix EXCEPT ![a] = NoName]
    /\ app_id' = [app_id EXCEPT ![a] = NoIdent]
    /\ UNCHANGED <<used_prefixes, shell, owners, takes, unrecorded>>

\* The shell's prefix is fixed and goes through neither check.
ShellJoin ==
    /\ ~shell /\ shell' = TRUE
    /\ UNCHANGED <<used_prefixes, prefix, app_id, owners, takes, unrecorded>>
ShellLeave ==
    /\ shell /\ shell' = FALSE
    /\ UNCHANGED <<used_prefixes, prefix, app_id, owners, takes, unrecorded>>

Next ==
    \/ \E a \in Apps, ident \in Idents :
          Reprefix(a, ident) \/ \E declared \in BOOLEAN : Join(a, ident, declared)
    \/ \E a \in Apps : Leave(a)
    \/ ShellJoin \/ ShellLeave

Spec == Init /\ [][Next]_vars

-----------------------------------------------------------------------------
\* Every variable keeps its type; used_prefixes never outgrows its array.
TypeOK ==
    /\ used_prefixes \in Seq(Names) /\ Len(used_prefixes) <= MAX_PREFIXES
    /\ prefix \in [Apps -> Names]
    /\ app_id \in [Apps -> Idents \cup {NoIdent}]
    /\ shell \in BOOLEAN
    /\ owners \subseteq Names \X Apps
    /\ takes \in 0..MaxTakes
    /\ unrecorded \in BOOLEAN

\* While every name could be recorded, no two apps of the workspace share a
\* prefix, so that handle_tools_call cannot send a call to the wrong one.
PrefixUnique ==
    ~unrecorded => \A a, b \in Apps : a # b /\ prefix[a] # NoName => prefix[a] # prefix[b]

\* While every name could be recorded, a name that an agent has seen for one
\* app never comes to mean another, also after the first has exited.
NeverReused == ~unrecorded => \A o, p \in owners : o[1] = p[1] => o[2] = p[2]

\* assign_prefix leaves a name unrecorded only once the table is full or some
\* name has had all of its suffixes.
RecordedWhileRoom ==
    unrecorded => takes > MAX_PREFIXES \/ takes >= SuffixLimit

\* The comment on used_prefixes: "names are never reused for the lifetime of
\* the aggregator", without any condition.
NamesNeverReused == \A o, p \in owners : o[1] = p[1] => o[2] = p[2]

\* docs/mcp-spec.md 10.5: "The shell's prefix is fixed shell. Collisions get
\* sticky suffixes": an app never shares the shell's prefix.
ShellPrefixUnique == shell => \A a \in Apps : prefix[a] # ShellName

=============================================================================
