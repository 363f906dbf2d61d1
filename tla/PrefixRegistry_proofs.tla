----------------------- MODULE PrefixRegistry_proofs -----------------------
(***************************************************************************)
(* Proofs about module PrefixRegistry.  The inductive invariant is that,   *)
(* while every name could be recorded, used_prefixes holds every name that *)
(* any app ever had: a name that is not in use is therefore nobody's.      *)
(***************************************************************************)
EXTENDS PrefixRegistry, TLAPS, FiniteSetTheorems, WellFoundedInduction

\* What an app has now, it has had.
Held == \A a \in Apps : prefix[a] # NoName => <<prefix[a], a>> \in owners

\* While no name went unrecorded, the table holds every name ever given.
AllRecorded == ~unrecorded => \A o \in owners : prefix_in_use(o[1])

IInv == TypeOK /\ Held /\ AllRecorded /\ NeverReused

-----------------------------------------------------------------------------
\* The numbers among the constants.
LEMMA Bounds == MAX_PREFIXES \in Nat /\ SuffixLimit \in Nat /\ MaxTakes \in Nat
  BY PrefixAssumption, Zenon

\* The loop of assign_prefix finds a suffix whenever there is a free one.
LEMMA FirstSuffixFree ==
    ASSUME NEW want \in Names, FreeSuffixes(want) # {}
    PROVE  FirstSuffix(want) \in FreeSuffixes(want)
<1>1. FreeSuffixes(want) \subseteq Nat
  <2>1. 2..SuffixLimit - 1 \subseteq Nat
    BY Bounds
  <2> QED
    BY <2>1, Zenon DEF FreeSuffixes
<1>2. \E n \in FreeSuffixes(want) : \A m \in FreeSuffixes(want) : <<m, n>> \notin OpToRel(<, Nat)
  BY <1>1, NatLessThanWellFounded, WFMin, Zenon
<1>3. \A m, n \in Nat : m < n => <<m, n>> \in OpToRel(<, Nat)
  BY DEF OpToRel
<1>4. \E n \in FreeSuffixes(want) : \A m \in FreeSuffixes(want) : n <= m
  <2>1. PICK n \in FreeSuffixes(want) : \A m \in FreeSuffixes(want) : <<m, n>> \notin OpToRel(<, Nat)
    BY <1>2, Zenon
  <2>2. \A m \in FreeSuffixes(want) : ~(m < n)
    BY <1>1, <1>3, <2>1, Zenon
  <2>3. \A m \in FreeSuffixes(want) : n <= m
    BY <1>1, <2>2
  <2> QED
    BY <2>3, Zenon
<1> QED
  BY <1>4, Zenon DEF FirstSuffix

\* The absence of a name has the type of one.
LEMMA NoNameIsName == NoName \in Names
<1>1. <<>> \in Seq(Nat)
  OBVIOUS
<1>2. "" \in Bases
  BY PrefixAssumption, Zenon
<1> QED
  BY <1>1, <1>2 DEF NoName, Names

\* A suffixed name is a name.
LEMMA SuffixedName ==
    ASSUME NEW want \in Names, NEW n \in Nat
    PROVE  Suffixed(want, n) \in Names
  BY DEF Suffixed, Names

\* assign_prefix gives a name, keeps the table a bounded sequence of names,
\* and if it records anything it records the name, which was not in use.
LEMMA AssignFacts ==
    ASSUME TypeOK, NEW want \in Names
    PROVE  LET given == assign_prefix(want)
           IN  /\ given.name \in Names
               /\ given.used \in Seq(Names) /\ Len(given.used) <= MAX_PREFIXES
               /\ given.used # used_prefixes =>
                     /\ ~prefix_in_use(given.name)
                     /\ given.used = Append(used_prefixes, given.name)
<1>1. used_prefixes \in Seq(Names) /\ Len(used_prefixes) <= MAX_PREFIXES /\ MAX_PREFIXES \in Nat
  BY Bounds DEF TypeOK
<1>2. ASSUME NEW p \in Names
      PROVE  /\ reserve_prefix(p) \in Seq(Names) /\ Len(reserve_prefix(p)) <= MAX_PREFIXES
             /\ reserve_prefix(p) # used_prefixes => reserve_prefix(p) = Append(used_prefixes, p)
  BY <1>1, <1>2 DEF reserve_prefix
<1>3. CASE ~prefix_in_use(want)
  BY <1>2, <1>3 DEF assign_prefix
<1>4. CASE prefix_in_use(want) /\ FreeSuffixes(want) # {}
  <2>1. FirstSuffix(want) \in FreeSuffixes(want)
    BY <1>4, FirstSuffixFree
  <2>2. FirstSuffix(want) \in 2..SuffixLimit - 1 /\ ~prefix_in_use(Suffixed(want, FirstSuffix(want)))
    BY <2>1, Zenon DEF FreeSuffixes
  <2>3. Suffixed(want, FirstSuffix(want)) \in Names
    <3>1. FirstSuffix(want) \in Nat
      BY <2>2, Bounds
    <3> QED
      BY <3>1, SuffixedName
  <2> QED
    BY <1>2, <1>4, <2>2, <2>3 DEF assign_prefix
<1>5. CASE prefix_in_use(want) /\ FreeSuffixes(want) = {}
  <2>1. Suffixed(want, 0) \in Names
    BY SuffixedName
  <2> QED
    BY <1>1, <1>5, <2>1 DEF assign_prefix
<1> QED
  BY <1>3, <1>4, <1>5

\* A name stays in use when another is recorded, and the new one is in use.
LEMMA AppendInUse ==
    ASSUME used_prefixes \in Seq(Names), NEW p \in Names,
           used_prefixes' = Append(used_prefixes, p)
    PROVE  /\ \A q : prefix_in_use(q) => prefix_in_use(q)'
           /\ prefix_in_use(p)'
<1>1. /\ Len(used_prefixes') = Len(used_prefixes) + 1
      /\ \A i \in 1..Len(used_prefixes) : used_prefixes'[i] = used_prefixes[i]
      /\ used_prefixes'[Len(used_prefixes) + 1] = p
      /\ Len(used_prefixes) \in Nat
  OBVIOUS
<1>2. ASSUME NEW q, prefix_in_use(q) PROVE prefix_in_use(q)'
  BY <1>1, <1>2 DEF prefix_in_use
<1>3. prefix_in_use(p)'
  BY <1>1 DEF prefix_in_use
<1> QED
  BY <1>2, <1>3

-----------------------------------------------------------------------------
\* The invariant holds before the first app joins.
LEMMA InitIInv == Init => IInv
<1> SUFFICES ASSUME Init PROVE IInv
  OBVIOUS
<1>1. TypeOK
  <2>1. prefix \in [Apps -> Names]
    BY NoNameIsName DEF Init
  <2>2. used_prefixes \in Seq(Names) /\ Len(used_prefixes) <= MAX_PREFIXES
    BY Bounds DEF Init
  <2>3. takes \in 0..MaxTakes /\ owners \subseteq Names \X Apps
    BY Bounds DEF Init
  <2> QED
    BY <2>1, <2>2, <2>3 DEF Init, TypeOK
<1>2. Held /\ AllRecorded /\ NeverReused
  BY DEF Init, Held, AllRecorded, NeverReused
<1> QED
  BY <1>1, <1>2 DEF IInv

\* Assigning a prefix, for backend_setup and for apply_tools_result alike,
\* preserves the invariant.
LEMMA TakeIInv ==
    ASSUME IInv, NEW a \in Apps, NEW ident \in Idents, Take(a, ident),
           app_id' \in [Apps -> Idents \cup {NoIdent}], UNCHANGED shell
    PROVE  IInv'
<1> DEFINE given == assign_prefix(Slug[ident])
<1>1. TypeOK /\ Held /\ AllRecorded /\ NeverReused
  BY DEF IInv
<1>2. Slug[ident] \in Names
  BY PrefixAssumption, Zenon
<1>3. /\ given.name \in Names
      /\ given.used \in Seq(Names) /\ Len(given.used) <= MAX_PREFIXES
      /\ given.used # used_prefixes =>
            /\ ~prefix_in_use(given.name)
            /\ given.used = Append(used_prefixes, given.name)
  BY <1>1, <1>2, AssignFacts
<1> HIDE DEF given
<1>4. /\ takes < MaxTakes /\ takes' = takes + 1
      /\ used_prefixes' = given.used
      /\ prefix' = [prefix EXCEPT ![a] = given.name]
      /\ owners' = owners \cup {<<given.name, a>>}
      /\ unrecorded' = (unrecorded \/ given.used = used_prefixes)
  BY DEF Take, given
<1>5. TypeOK'
  BY <1>1, <1>3, <1>4, Bounds DEF TypeOK
<1>6. Held'
  BY <1>1, <1>4 DEF Held, TypeOK
<1>7. CASE unrecorded'
  BY <1>5, <1>6, <1>7 DEF IInv, AllRecorded, NeverReused
<1>8. CASE ~unrecorded'
  <2>1. /\ ~unrecorded
        /\ ~prefix_in_use(given.name)
        /\ used_prefixes' = Append(used_prefixes, given.name)
    BY <1>1, <1>3, <1>4, <1>8 DEF TypeOK
  <2>2. \A o \in owners : prefix_in_use(o[1])
    BY <1>1, <2>1 DEF AllRecorded
  <2>3. AllRecorded'
    <3>0. used_prefixes \in Seq(Names)
      BY <1>1 DEF TypeOK
    <3>1. /\ \A q : prefix_in_use(q) => prefix_in_use(q)'
          /\ \A p : p = given.name => prefix_in_use(p)'
      <4>1. ASSUME NEW p \in Names, used_prefixes' = Append(used_prefixes, p)
            PROVE  /\ \A q : prefix_in_use(q) => prefix_in_use(q)'
                   /\ prefix_in_use(p)'
        BY <3>0, <4>1, AppendInUse
      <4> QED
        BY <1>3, <2>1, <4>1
    <3>3. ASSUME NEW o \in owners' PROVE prefix_in_use(o[1])'
      <4>1. CASE o \in owners
        BY <2>2, <3>1, <4>1, Zenon
      <4>2. CASE o = <<given.name, a>>
        <5>1. o[1] = given.name
          BY <4>2
        <5> QED
          BY <3>1, <5>1, Zenon
      <4> QED
        BY <1>4, <4>1, <4>2
    <3> QED
      BY <3>3 DEF AllRecorded
  <2>4. \A o \in owners : o[1] # given.name
    BY <2>1, <2>2
  <2>5. NeverReused'
    BY <1>1, <1>4, <2>1, <2>4 DEF NeverReused
  <2> QED
    BY <1>5, <1>6, <2>3, <2>5 DEF IInv
<1> QED
  BY <1>7, <1>8

\* Every step preserves the invariant.
LEMMA NextIInv == IInv /\ [Next]_vars => IInv'
<1> SUFFICES ASSUME IInv, [Next]_vars PROVE IInv'
  OBVIOUS
<1>0. TypeOK /\ Held /\ AllRecorded /\ NeverReused
  BY DEF IInv
<1>1. ASSUME NEW a \in Apps, NEW ident \in Idents, NEW declared \in BOOLEAN,
             Join(a, ident, declared)
      PROVE  IInv'
  <2>1. app_id' \in [Apps -> Idents \cup {NoIdent}]
    BY <1>0, <1>1 DEF Join, TypeOK
  <2> QED
    BY <1>1, <2>1, TakeIInv DEF Join
<1>2. ASSUME NEW a \in Apps, NEW ident \in Idents, Reprefix(a, ident)
      PROVE  IInv'
  <2>1. app_id' \in [Apps -> Idents \cup {NoIdent}]
    BY <1>0, <1>2 DEF Reprefix, TypeOK
  <2> QED
    BY <1>2, <2>1, TakeIInv DEF Reprefix
<1>3. ASSUME NEW a \in Apps, Leave(a)
      PROVE  IInv'
  <2>1. TypeOK'
    BY <1>0, <1>3, NoNameIsName DEF Leave, TypeOK
  <2>2. Held' /\ NeverReused'
    BY <1>0, <1>3 DEF Leave, Held, NeverReused, TypeOK
  <2>3. AllRecorded'
    BY <1>0, <1>3 DEF Leave, AllRecorded, prefix_in_use
  <2> QED
    BY <2>1, <2>2, <2>3 DEF IInv
<1>4. CASE ShellJoin \/ ShellLeave
  <2>1. TypeOK'
    BY <1>0, <1>4 DEF ShellJoin, ShellLeave, TypeOK
  <2>2. Held' /\ NeverReused' /\ AllRecorded'
    BY <1>0, <1>4 DEF ShellJoin, ShellLeave, Held, NeverReused, AllRecorded, prefix_in_use
  <2> QED
    BY <2>1, <2>2 DEF IInv
<1>5. CASE UNCHANGED vars
  <2>1. TypeOK'
    BY <1>0, <1>5 DEF vars, TypeOK
  <2>2. Held' /\ NeverReused' /\ AllRecorded'
    BY <1>0, <1>5 DEF vars, Held, NeverReused, AllRecorded, prefix_in_use
  <2> QED
    BY <2>1, <2>2 DEF IInv
<1> QED
  BY <1>1, <1>2, <1>3, <1>4, <1>5 DEF Next

\* The registry keeps its invariant, and with it its types, for any number of
\* apps and names and any table size.
THEOREM RegistryInvariant == Spec => []IInv
  BY InitIInv, NextIInv, PTL DEF Spec

\* A name given to one app never comes to mean another while every name could
\* be recorded.
THEOREM NamesAreSticky == Spec => []NeverReused
<1>1. IInv => NeverReused
  BY DEF IInv
<1> QED
  BY <1>1, RegistryInvariant, PTL

\* No two members share a prefix while every name could be recorded.
THEOREM PrefixesAreUnique == Spec => []PrefixUnique
<1>1. IInv => PrefixUnique
  BY DEF IInv, Held, NeverReused, PrefixUnique
<1> QED
  BY <1>1, RegistryInvariant, PTL

\* used_prefixes never outgrows its array (reserve_prefix), for any size of it.
THEOREM RegistryTypes == Spec => []TypeOK
<1>1. IInv => TypeOK
  BY DEF IInv
<1> QED
  BY <1>1, RegistryInvariant, PTL

-----------------------------------------------------------------------------
\* Different suffixes make different names, none of them the bare one.
LEMMA SuffixesDiffer ==
    ASSUME NEW want \in Names, NEW m \in Nat, NEW n \in Nat
    PROVE  /\ Suffixed(want, n) # want
           /\ m # n => Suffixed(want, m) # Suffixed(want, n)
<1>1. want.suffix \in Seq(Nat)
  BY DEF Names
<1>2. /\ Append(want.suffix, n) # want.suffix
      /\ m # n => Append(want.suffix, m) # Append(want.suffix, n)
  <2>1. /\ Len(Append(want.suffix, n)) = Len(want.suffix) + 1
        /\ Append(want.suffix, n)[Len(want.suffix) + 1] = n
        /\ Append(want.suffix, m)[Len(want.suffix) + 1] = m
        /\ Len(want.suffix) \in Nat
    BY <1>1
  <2> QED
    BY <2>1
<1>3. \A k \in Nat : Suffixed(want, k).suffix = Append(want.suffix, k)
  BY DEF Suffixed, Names
<1> QED
  BY <1>2, <1>3

\* When the suffixes of a name have run out, the table holds the bare name and
\* every suffixed one: SuffixLimit - 1 different names.
LEMMA SuffixesRunOut ==
    ASSUME TypeOK, NEW want \in Names, prefix_in_use(want), FreeSuffixes(want) = {}
    PROVE  SuffixLimit - 1 <= Len(used_prefixes)
<1> DEFINE K == 1..SuffixLimit - 1
           I == 1..Len(used_prefixes)
           named == [k \in K |-> IF k = 1 THEN want ELSE Suffixed(want, k)]
           place == [k \in K |-> CHOOSE i \in I : used_prefixes[i] = named[k]]
<1>0. SuffixLimit \in Nat /\ Len(used_prefixes) \in Nat
  BY Bounds DEF TypeOK
<1>1. ASSUME NEW k \in K PROVE prefix_in_use(named[k])
  <2>1. CASE k = 1
    BY <2>1
  <2>2. CASE k # 1
    <3>1. k \in 2..SuffixLimit - 1
      BY <1>0, <2>2
    <3>2. prefix_in_use(Suffixed(want, k))
      BY <3>1, Zenon DEF FreeSuffixes
    <3> QED
      BY <2>2, <3>2
  <2> QED
    BY <2>1, <2>2
<1>2. ASSUME NEW k \in K, NEW l \in K, k # l PROVE named[k] # named[l]
  <2>1. k \in Nat /\ l \in Nat
    BY <1>0
  <2> QED
    BY <1>2, <2>1, SuffixesDiffer
<1> HIDE DEF named
<1>3. ASSUME NEW k \in K PROVE place[k] \in I /\ used_prefixes[place[k]] = named[k]
  <2>1. \E i \in I : used_prefixes[i] = named[k]
    BY <1>1 DEF prefix_in_use
  <2> QED
    BY <2>1
<1> HIDE DEF place
<1>4. place \in Injection(K, I)
  <2>1. place \in [K -> I]
    BY <1>3 DEF place
  <2>2. \A k, l \in K : place[k] = place[l] => k = l
    BY <1>2, <1>3
  <2> QED
    BY <2>1, <2>2 DEF Injection, IsInjective
<1>5. /\ IsFiniteSet(K) /\ IsFiniteSet(I)
      /\ Cardinality(I) = Len(used_prefixes)
      /\ SuffixLimit - 1 >= 1 => Cardinality(K) = SuffixLimit - 1
  <2>1. ASSUME NEW n \in Int
        PROVE  IsFiniteSet(1..n) /\ Cardinality(1..n) = IF 1 > n THEN 0 ELSE n
    BY FS_Interval, n - 1 + 1 = n
  <2>2. Len(used_prefixes) \in Int /\ SuffixLimit - 1 \in Int
    BY <1>0
  <2> QED
    BY <1>0, <2>1, <2>2
<1>6. Cardinality(K) <= Cardinality(I)
  BY <1>4, <1>5, FS_Injection
<1> QED
  BY <1>0, <1>5, <1>6

\* The table has no more names than were assigned.
Counted == Len(used_prefixes) <= takes /\ RecordedWhileRoom

\* A name is assigned.
LEMMA TakeCounted ==
    ASSUME TypeOK, Counted, NEW a \in Apps, NEW ident \in Idents, Take(a, ident)
    PROVE  Counted'
<1> DEFINE want == Slug[ident]
           given == assign_prefix(want)
<1>0. /\ used_prefixes \in Seq(Names) /\ Len(used_prefixes) \in Nat /\ takes \in Nat
      /\ MAX_PREFIXES \in Nat /\ SuffixLimit \in Nat /\ unrecorded \in BOOLEAN
      /\ Len(used_prefixes) <= takes
  BY Bounds DEF TypeOK, Counted
<1>1. want \in Names
  BY PrefixAssumption, Zenon
<1>2. /\ given.used \in Seq(Names)
      /\ given.used # used_prefixes => given.used = Append(used_prefixes, given.name)
      /\ given.name \in Names
  BY <1>1, AssignFacts
<1>3. given.used = used_prefixes =>
          Len(used_prefixes) >= MAX_PREFIXES \/ SuffixLimit - 1 <= Len(used_prefixes)
  <2> SUFFICES ASSUME given.used = used_prefixes, Len(used_prefixes) < MAX_PREFIXES
               PROVE  SuffixLimit - 1 <= Len(used_prefixes)
    BY <1>0
  <2>1. \A p : reserve_prefix(p) # used_prefixes
    <3>1. \A p : Append(used_prefixes, p) # used_prefixes
      <4> SUFFICES ASSUME NEW p, Append(used_prefixes, p) = used_prefixes PROVE FALSE
        OBVIOUS
      <4>1. Len(Append(used_prefixes, p)) = Len(used_prefixes) + 1
        BY <1>0
      <4> QED
        BY <1>0, <4>1
    <3> QED
      BY <3>1 DEF reserve_prefix
  <2>2. prefix_in_use(want) /\ FreeSuffixes(want) = {}
    BY <2>1 DEF assign_prefix
  <2> QED
    BY <1>1, <2>2, SuffixesRunOut
<1> HIDE DEF given
<1>4. /\ takes' = takes + 1 /\ used_prefixes' = given.used
      /\ unrecorded' = (unrecorded \/ given.used = used_prefixes)
  BY DEF Take, given
<1>5. Len(given.used) <= takes + 1
  BY <1>0, <1>2
<1>6. unrecorded' => takes' > MAX_PREFIXES \/ takes' >= SuffixLimit
  <2>1. CASE unrecorded
    BY <1>0, <1>4, <2>1 DEF Counted, RecordedWhileRoom
  <2>2. CASE given.used = used_prefixes
    BY <1>0, <1>3, <1>4, <2>2
  <2> QED
    BY <1>4, <2>1, <2>2
<1> QED
  BY <1>4, <1>5, <1>6 DEF Counted, RecordedWhileRoom

\* assign_prefix hands out a name without recording it only when the table is
\* full or a name has had all of its suffixes, whatever the sizes are.
THEOREM RecordedAlways == Spec => []RecordedWhileRoom
<1>1. Init => Counted
  BY DEF Init, Counted, RecordedWhileRoom
<1>2. IInv /\ Counted /\ [Next]_vars => Counted'
  <2> SUFFICES ASSUME TypeOK, Counted, [Next]_vars PROVE Counted'
    BY DEF IInv
  <2>1. ASSUME NEW a \in Apps, NEW ident \in Idents, Take(a, ident) PROVE Counted'
    BY <2>1, TakeCounted
  <2>2. CASE UNCHANGED <<used_prefixes, takes, unrecorded>>
    BY <2>2 DEF Counted, RecordedWhileRoom
  <2> QED
    BY <2>1, <2>2 DEF Next, Join, Reprefix, Leave, ShellJoin, ShellLeave, vars
<1>3. Counted => RecordedWhileRoom
  BY DEF Counted
<1> QED
  BY <1>1, <1>2, <1>3, RegistryInvariant, PTL DEF Spec

=============================================================================
