--------------------- MODULE WorkspaceAggregator_proofs ---------------------
(***************************************************************************)
(* Proofs about the workspace aggregator, for any apps, slots, in-flight   *)
(* table, connection capacity, and agent.                                  *)
(*                                                                         *)
(* The invariant is a conjunction of parts: who is a member, who has the   *)
(* lock, what the in-flight table and the frames under way agree on, where *)
(* the answer to each call is, and what the agent has been told.           *)
(***************************************************************************)
EXTENDS WorkspaceAggregator, FiniteSetTheorems, WellFoundedInduction, TLAPS

Elems(q) == {q[i] : i \in 1..Len(q)}

\* What is under way on the connection of app a.
Riding(a) == {serving[a]} \cup Elems(toApp[a]) \cup Elems(fromApp[a])

Requests ==
    {[type |-> "initialize"], [type |-> "tools/list"]}
        \cup [type : {"call"}, id : AgentIds, target : Apps \cup {Workspace}]

\* The types of what TypeOK leaves out.
AgentTypes ==
    /\ IsFiniteSet(inflight)
    /\ stdin \in Seq(Requests)
    /\ answers \in [AgentIds -> Seq({Error, AppsList} \cup {Reply(id) : id \in AgentIds \cup {0}})]

\* Membership: a connection belongs to a candidate in its handshake or to the
\* backend of a slot, and never to both or to two slots.
MemberInv ==
    /\ \A a \in Apps : a \in connecting <=> setup[a] # "none"
    /\ \A s \in Members : setup[backends[s]] \in {"none", "joined"}
    /\ NoDuplicateBackend
    /\ \A s \in Slots : reader[s] = "none" <=> backends[s] = NoApp
    /\ \A a \in Apps : link[a] # "none" <=> setup[a] = "list" \/ \E s \in Slots : backends[s] = a
    /\ \A a \in Apps : link[a] = "none" => toApp[a] = <<>> /\ fromApp[a] = <<>> /\ serving[a] = NoMsg

\* The in-flight table: ids are fresh and unique, and entries are for members.
TableInv ==
    /\ \A fl \in inflight : fl.lid \in 1..next_local_id /\ backends[fl.slot] = fl.of
    /\ \A fl \in inflight : fl.orig \in AgentIds <=> fl.kind = "agent"
    /\ \A fl, gl \in inflight : fl.lid = gl.lid => fl = gl

\* g.lock is held over a write of the newest entry.
LockInv ==
    /\ main = "write" <=> lock = <<"main">>
    /\ \A s \in Slots : reader[s] = "write" <=> lock = <<"reader", s>>
    /\ main = "write" =>
          \E fl \in inflight : /\ fl.lid = next_local_id /\ fl.kind = "agent"
                               /\ fl.orig = Head(stdin).id /\ fl.of = Head(stdin).target
    /\ \A s \in Slots : reader[s] = "write" =>
          \E fl \in inflight : fl.lid = next_local_id /\ fl.kind = "refresh" /\ fl.slot = s
    /\ main = "write" => stdin # <<>> /\ Head(stdin).type = "call"
    /\ main = "list" => stdin # <<>> /\ Head(stdin).type = "tools/list"

\* A request for the tool list, or the reply to one.
IsList(m) == m.type \in {"list", "reply"} /\ m.id = 0

\* A frame that app a has or sends, if its id is in the table, is about the
\* call of that entry; while the newest entry is being written none has its id.
Matches(m, a) == \A fl \in inflight : fl.lid = m.lid => fl.orig = m.id /\ fl.of = a
FrameOf(m, a) ==
    /\ m.lid <= next_local_id /\ Matches(m, a)
    /\ ~Unlocked => m.lid # next_local_id
    /\ m.type = "changed" => m.lid = 0
    /\ m.type = "call" => m.id # 0
    /\ m.type = "list" => m.id = 0

Framed(m, a, types) == FrameOf(m, a) /\ m.type \in types

LinkInv ==
    \A a \in Apps :
        /\ Framed(serving[a], a, {"none", "call", "list"})
        /\ \A m \in Elems(toApp[a]) : Framed(m, a, {"call", "list"})
        /\ \A m \in Elems(fromApp[a]) : Framed(m, a, {"reply", "changed"})

\* What a reader has in hand.
HeldOf(s) ==
    /\ reader[s] = "lookup" => Framed(held[s].msg, backends[s], {"reply"})
    /\ reader[s] = "relay" => held[s].orig \in AgentIds /\ held[s].orig = held[s].msg.id
    /\ reader[s] = "apply" => IsList(held[s].msg)
HeldInv == \A s \in Slots : HeldOf(s)

\* A call is in one of the places of Queued, Entered and Relayed once.
UniqueCall(id) == \A i, j \in 1..Len(stdin) : Call(i, id) /\ Call(j, id) => i = j
UniqueEntry(id) == \A fl, gl \in inflight : fl.orig = id /\ gl.orig = id => fl = gl
UniqueRelay(id) == \A s, t \in Slots : Relays(s, id) /\ Relays(t, id) => s = t

\* A call is queued, entered in the table, in the hands of a reader, or
\* answered, and only one of these.
OnceOf(id) ==
    /\ Queued(id) => ~Entered(id) /\ ~Relayed(id) /\ answers[id] = <<>>
    /\ Entered(id) => ~Relayed(id) /\ answers[id] = <<>>
    /\ Relayed(id) => answers[id] = <<>>
    /\ Queued(id) \/ Entered(id) \/ Relayed(id) \/ answers[id] # <<>> => id \in sent
    /\ UniqueCall(id) /\ UniqueEntry(id) /\ UniqueRelay(id)

\* What call id is answered, once.
AnswerOf(id) ==
    /\ Len(answers[id]) <= 1
    /\ \A i \in 1..Len(answers[id]) : answers[id][i] \in {Error, AppsList, Reply(id)}

OnceInv == \A id \in AgentIds : OnceOf(id) /\ AnswerOf(id)

\* Only an initialized agent lists.
ListInv ==
    \/ agent_initialized
    \/ view = NoView /\ main # "list" /\ \A i \in 1..Len(stdin) : stdin[i].type = "initialize"

RouteInv ==
    /\ TypeOK /\ AgentTypes /\ MemberInv /\ TableInv /\ LockInv /\ LinkInv /\ HeldInv
    /\ OnceInv /\ InflightExplained /\ ListInv /\ AgentTold

-----------------------------------------------------------------------------
\* The steps of an app, and of the agent.
AppStep(a) ==
    AppWorks(a) \/ AppStart(a) \/ AppHang(a) \/ AppDies(a) \/ AppHangsUp(a) \/ AppChanges(a)
AgentStep ==
    AgentLists \/ \E id \in AgentIds, target \in Apps \cup {Workspace} : AgentCalls(id, target)

\* The constants that are numbers.
LEMMA AggregatorNumbers ==
    /\ MAX_BACKENDS \in Nat /\ MAX_INFLIGHT \in Nat /\ Cap \in Nat /\ Cap > 0
    /\ MaxLists \in Nat /\ MaxChanges \in Nat /\ MaxHangups \in Nat
    /\ AgentIds \subseteq Nat /\ 0 \notin AgentIds
  BY AggregatorAssumption

\* What a queue of frames or requests holds as it grows and shrinks.
LEMMA QueueFacts ==
    ASSUME NEW S, NEW q \in Seq(S)
    PROVE  /\ \A x \in S : /\ Append(q, x) \in Seq(S) /\ Len(Append(q, x)) = Len(q) + 1
                           /\ Elems(Append(q, x)) = Elems(q) \cup {x}
           /\ q # <<>> => /\ Head(q) \in S /\ Tail(q) \in Seq(S) /\ Len(Tail(q)) = Len(q) - 1
                          /\ Elems(q) = {Head(q)} \cup Elems(Tail(q))
           /\ Elems(q) \subseteq S /\ Len(q) \in Nat
<1>1. ASSUME NEW x \in S
      PROVE  Elems(Append(q, x)) = Elems(q) \cup {x}
  BY DEF Elems
<1>2. ASSUME q # <<>>
      PROVE  Elems(q) = {Head(q)} \cup Elems(Tail(q))
  <2>1. Len(q) \in Nat \ {0} /\ Len(Tail(q)) = Len(q) - 1 /\ q[1] = Head(q)
    BY <1>2
  <2>2. \A i \in 1..Len(Tail(q)) : Tail(q)[i] = q[i + 1]
    BY <1>2
  <2>3. ASSUME NEW m \in Elems(q)
        PROVE  m \in {Head(q)} \cup Elems(Tail(q))
    <3>1. PICK i \in 1..Len(q) : q[i] = m
      BY DEF Elems
    <3>2. CASE i = 1
      BY <2>1, <3>1, <3>2
    <3>3. CASE i # 1
      <4>1. i - 1 \in 1..Len(Tail(q)) /\ Tail(q)[i - 1] = m
        BY <2>1, <2>2, <3>1, <3>3
      <4> QED
        BY <4>1 DEF Elems
    <3> QED
      BY <3>2, <3>3
  <2>4. ASSUME NEW m \in Elems(Tail(q))
        PROVE  m \in Elems(q)
    <3>1. PICK i \in 1..Len(Tail(q)) : Tail(q)[i] = m
      BY DEF Elems
    <3>2. i + 1 \in 1..Len(q) /\ q[i + 1] = m
      BY <2>1, <2>2, <3>1
    <3> QED
      BY <3>2 DEF Elems
  <2>5. Head(q) \in Elems(q)
    BY <2>1 DEF Elems
  <2> QED
    BY <2>3, <2>4, <2>5
<1>3. Elems(q) \subseteq S /\ Len(q) \in Nat
  BY DEF Elems
<1>4. \A x \in S : Append(q, x) \in Seq(S) /\ Len(Append(q, x)) = Len(q) + 1
  OBVIOUS
<1>5. q # <<>> => Head(q) \in S /\ Tail(q) \in Seq(S) /\ Len(Tail(q)) = Len(q) - 1
  OBVIOUS
<1> QED
  BY <1>1, <1>2, <1>3, <1>4, <1>5

\* An empty queue holds nothing.
LEMMA EmptyQueue == Elems(<<>>) = {} /\ Len(<<>>) = 0
  BY DEF Elems

(***************************************************************************)
(* What the threads leave alone                                            *)
(***************************************************************************)
\* The main thread changes no member, no reader and no app.
LEMMA MainFrame ==
    ASSUME Main
    PROVE  UNCHANGED <<app, version, hangups, link, fromApp, serving, backends, cache, connecting,
                       setup, reader, held, emitters, missed, told, lists, sent>>
  BY DEF Main, HandleInitialize, HandleToolsList, WriteToolsList, CallAnsweredHere, CallAlloc,
         CallWrite, CallWriteFails, linkVars, appVars, memberVars, readerVars, agentVars, historyVars

\* A setup thread touches neither the table nor the agent.
LEMMA SetupFrame ==
    ASSUME NEW a \in Apps, backend_setup(a)
    PROVE  UNCHANGED <<app, version, hangups, held, inflight, next_local_id, lock, main,
                       agent_initialized, built, stdin, answers, view, told, lists, sent>>
  BY DEF backend_setup, SetupConnect, SetupSkip, SetupFails, SetupRegister, SetupNoSlot,
         connecting_remove, appVars, readerVars, tableVars, mainVars, agentVars

\* The poll thread only adds candidates.
LEMMA PollFrame ==
    ASSUME poll_thread
    PROVE  UNCHANGED <<app, version, hangups, link, toApp, fromApp, serving, backends, cache,
                       reader, held, inflight, next_local_id, lock, main, agent_initialized, built,
                       stdin, answers, view, told, lists, sent, emitters, missed>>
  BY DEF poll_thread, linkVars, appVars, readerVars, tableVars, mainVars, agentVars, historyVars

\* A reader changes neither the candidates nor the requests of the agent.
LEMMA ReaderFrame ==
    ASSUME NEW s \in Slots, Reader(s)
    PROVE  UNCHANGED <<app, version, hangups, connecting, setup, main, agent_initialized, built,
                       stdin, view, lists, sent>>
<1> USE DEF appVars, memberVars, mainVars, agentVars
<1>1. CASE ReaderTop(s) \/ ReaderRead(s) \/ ReaderEOF(s)
  BY <1>1 DEF ReaderTop, ReaderRead, ReaderEOF
<1>2. CASE ReaderLookup(s) \/ ReaderRelay(s) \/ ReaderApply(s) \/ ReaderEmit(s)
  BY <1>2 DEF ReaderLookup, ReaderRelay, ReaderApply, ReaderEmit
<1>3. CASE RefreshLost(s) \/ RefreshAlloc(s) \/ RefreshWrite(s) \/ RefreshWriteFails(s)
  BY <1>3 DEF RefreshLost, RefreshAlloc, RefreshWrite, RefreshWriteFails
<1>4. CASE backend_teardown_locked(s)
  BY <1>4 DEF backend_teardown_locked, FreeSlot
<1> QED
  BY <1>1, <1>2, <1>3, <1>4, Zenon DEF Reader

\* An emitter only emits.
LEMMA EmitFrame ==
    ASSUME emit_list_changed_upstream
    PROVE  UNCHANGED <<app, version, hangups, link, toApp, fromApp, serving, backends, cache,
                       connecting, setup, reader, held, inflight, next_local_id, lock, main,
                       agent_initialized, built, stdin, answers, view, lists, sent, missed>>
  BY DEF emit_list_changed_upstream, linkVars, appVars, memberVars, readerVars, tableVars, mainVars

\* An app touches its own connection.
LEMMA AppFrame ==
    ASSUME NEW a \in Apps, AppStep(a)
    PROVE  UNCHANGED <<backends, cache, connecting, setup, reader, held, inflight, next_local_id,
                       lock, main, agent_initialized, built, stdin, answers, view, told, lists,
                       sent, emitters>>
  BY DEF AppStep, AppWorks, AppServes, AppReplies, AppStart, AppHang, AppDies, AppHangsUp, Closed,
         AppChanges, memberVars, readerVars, tableVars, mainVars, agentVars, historyVars

\* The agent queues requests.
LEMMA AgentFrame ==
    ASSUME AgentStep
    PROVE  UNCHANGED <<app, version, hangups, link, toApp, fromApp, serving, backends, cache,
                       connecting, setup, reader, held, inflight, next_local_id, lock, main,
                       agent_initialized, built, answers, view, emitters, missed>>
  BY DEF AgentStep, AgentLists, AgentCalls, linkVars, appVars, memberVars, readerVars, tableVars,
         mainVars, historyVars

\* Every step is one of these threads', of an app or of the agent.
LEMMA AggregatorSteps ==
    ASSUME Next
    PROVE  \/ Main \/ poll_thread \/ emit_list_changed_upstream \/ AgentStep
           \/ \E s \in Slots : Reader(s)
           \/ \E a \in Apps : backend_setup(a)
           \/ \E a \in Apps : AppStep(a)
  BY Zenon DEF Next, AppStep, AgentStep

(***************************************************************************)
(* Types                                                                   *)
(***************************************************************************)
\* The first of some slots is one of them.
LEMMA FirstIsMember ==
    ASSUME NEW F \in SUBSET Slots, F # {}
    PROVE  Min(F) \in F
<1>1. F \subseteq Nat
  BY AggregatorNumbers DEF Slots
<1>2. \E n \in F : \A m \in F : <<m, n>> \notin OpToRel(<, Nat)
  BY <1>1, NatLessThanWellFounded, WFMin, Zenon
<1>3. \A m, n \in Nat : m < n => <<m, n>> \in OpToRel(<, Nat)
  BY DEF OpToRel
<1>4. PICK n \in F : \A m \in F : <<m, n>> \notin OpToRel(<, Nat)
  BY <1>2, Zenon
<1>5. \A m \in F : ~(m < n)
  BY <1>1, <1>3, <1>4, Zenon
<1>6. \A m \in F : n <= m
  BY <1>1, <1>5
<1> QED
  BY <1>6, Zenon DEF Min

Entries == [lid : Nat, slot : Slots, kind : {"agent", "refresh"}, orig : AgentIds \cup {0}, of : Apps]

\* The types in parts.
LinkTypes ==
    /\ serving \in [Apps -> Frames] /\ link \in [Apps -> {"none", "open", "closed"}]
    /\ toApp \in [Apps -> Seq(Frames)] /\ \A a \in Apps : Len(toApp[a]) <= Cap
    /\ fromApp \in [Apps -> Seq(Frames)] /\ \A a \in Apps : Len(fromApp[a]) <= Cap
AppTypes ==
    /\ app \in [Apps -> {"absent", "up", "hung", "dead"}]
    /\ version \in [Apps -> 0..MaxChanges] /\ hangups \in 0..MaxHangups
MemberTypes ==
    /\ backends \in [Slots -> Apps \cup {NoApp}] /\ cache \in [Slots -> 0..MaxChanges]
    /\ connecting \subseteq Apps
    /\ setup \in [Apps -> {"none", "connect", "list", "joined", "failed"}]
ReaderTypes ==
    /\ reader \in [Slots -> {"none", "top", "read", "lookup", "relay", "apply", "emit", "refresh",
                             "write", "teardown"}]
    /\ held \in [Slots -> [msg : Frames, orig : AgentIds \cup {0}]]
TableTypes ==
    /\ inflight \subseteq Entries /\ IsFiniteSet(inflight) /\ Cardinality(inflight) <= MAX_INFLIGHT
    /\ next_local_id \in Nat
MainTypes ==
    /\ lock \in {<<>>, <<"main">>} \cup ({"reader"} \X Slots)
    /\ main \in {"idle", "list", "write"}
    /\ agent_initialized \in BOOLEAN /\ told \in BOOLEAN
    /\ emitters \in Nat /\ lists \in 0..MaxLists
    /\ sent \subseteq AgentIds /\ missed \subseteq Apps
    /\ stdin \in Seq(Requests)
    /\ answers \in [AgentIds -> Seq({Error, AppsList} \cup {Reply(id) : id \in AgentIds \cup {0}})]

\* The parts make up TypeOK and AgentTypes.
LEMMA TypeParts ==
    TypeOK /\ AgentTypes <=>
        LinkTypes /\ AppTypes /\ MemberTypes /\ ReaderTypes /\ TableTypes /\ MainTypes
  BY DEF TypeOK, AgentTypes, LinkTypes, AppTypes, MemberTypes, ReaderTypes, TableTypes, MainTypes, Entries

\* ... in the next state as well.
LEMMA TypePartsNext ==
    (LinkTypes /\ AppTypes /\ MemberTypes /\ ReaderTypes /\ TableTypes /\ MainTypes)'
        => TypeOK' /\ AgentTypes'
  BY DEF TypeOK, AgentTypes, LinkTypes, AppTypes, MemberTypes, ReaderTypes, TableTypes, MainTypes, Entries

\* A part whose variables do not change is kept.
LEMMA TypesKept ==
    /\ LinkTypes /\ UNCHANGED linkVars => LinkTypes'
    /\ AppTypes /\ UNCHANGED appVars => AppTypes'
    /\ MemberTypes /\ UNCHANGED memberVars => MemberTypes'
    /\ ReaderTypes /\ UNCHANGED readerVars => ReaderTypes'
    /\ TableTypes /\ UNCHANGED tableVars => TableTypes'
    /\ MainTypes /\ UNCHANGED <<lock, main, agent_initialized, told, emitters, lists, sent, missed,
                                stdin, answers>> => MainTypes'
<1>1. LinkTypes /\ UNCHANGED linkVars => LinkTypes'
  BY DEF LinkTypes, linkVars
<1>2. AppTypes /\ UNCHANGED appVars => AppTypes'
  BY DEF AppTypes, appVars
<1>3. MemberTypes /\ UNCHANGED memberVars => MemberTypes'
  BY DEF MemberTypes, memberVars
<1>4. ReaderTypes /\ UNCHANGED readerVars => ReaderTypes'
  BY DEF ReaderTypes, readerVars
<1>5. TableTypes /\ UNCHANGED tableVars => TableTypes'
  BY DEF TableTypes, tableVars
<1>6. MainTypes /\ UNCHANGED <<lock, main, agent_initialized, told, emitters, lists, sent, missed,
                               stdin, answers>> => MainTypes'
  BY DEF MainTypes
<1> QED
  BY <1>1, <1>2, <1>3, <1>4, <1>5, <1>6, Zenon

\* inflight_alloc adds one entry, with the next id.
LEMMA TableGrows ==
    ASSUME TableTypes, MemberTypes, HasRoom,
           NEW s \in Members, NEW kind \in {"agent", "refresh"}, NEW orig \in AgentIds \cup {0},
           inflight_alloc(s, kind, orig)
    PROVE  TableTypes'
<1> DEFINE e == [lid |-> next_local_id + 1, slot |-> s, kind |-> kind, orig |-> orig, of |-> backends[s]]
<1>1. inflight' = inflight \cup {e} /\ next_local_id' = next_local_id + 1
  BY DEF inflight_alloc
<1>2. e \in Entries /\ next_local_id' \in Nat
  BY <1>1 DEF Entries, TableTypes, MemberTypes, Members
<1> HIDE DEF e
<1>3. IsFiniteSet(inflight') /\ Cardinality(inflight') <= Cardinality(inflight) + 1
  <2>1. IsFiniteSet(inflight)
    BY DEF TableTypes
  <2>2. Cardinality(inflight) \in Nat
    BY <2>1, FS_CardinalityType
  <2> QED
    BY <1>1, <2>1, <2>2, FS_AddElement
<1>4. Cardinality(inflight) \in Nat /\ Cardinality(inflight') \in Nat
  BY <1>3, FS_CardinalityType DEF TableTypes
<1>5. Cardinality(inflight') <= MAX_INFLIGHT
  BY <1>3, <1>4, AggregatorNumbers DEF HasRoom
<1>6. inflight' \subseteq Entries
  BY <1>1, <1>2 DEF TableTypes
<1> QED
  BY <1>2, <1>3, <1>5, <1>6 DEF TableTypes

\* Entries may be taken out of the table.
LEMMA TableShrinks ==
    ASSUME TableTypes, inflight' \subseteq inflight, next_local_id' = next_local_id
    PROVE  TableTypes'
<1>1. IsFiniteSet(inflight') /\ Cardinality(inflight') <= Cardinality(inflight)
  BY FS_Subset DEF TableTypes
<1>2. Cardinality(inflight) \in Nat /\ Cardinality(inflight') \in Nat
  BY <1>1, FS_CardinalityType DEF TableTypes
<1>3. Cardinality(inflight') <= MAX_INFLIGHT
  BY <1>1, <1>2, AggregatorNumbers DEF TableTypes
<1> QED
  BY <1>1, <1>3 DEF TableTypes

\* Requests of the agent and what it is answered.
LEMMA AnswerTypes ==
    ASSUME MainTypes
    PROVE  /\ stdin # <<>> => Tail(stdin) \in Seq(Requests) /\ Head(stdin) \in Requests
           /\ \A id \in AgentIds, what \in {Error, AppsList} \cup {Reply(n) : n \in AgentIds \cup {0}} :
                 Answer(answers, id, what)
                     \in [AgentIds -> Seq({Error, AppsList} \cup {Reply(n) : n \in AgentIds \cup {0}})]
<1> DEFINE A == {Error, AppsList} \cup {Reply(n) : n \in AgentIds \cup {0}}
<1>1. stdin # <<>> => Tail(stdin) \in Seq(Requests) /\ Head(stdin) \in Requests
  <2>1. stdin \in Seq(Requests)
    BY DEF MainTypes
  <2> QED
    BY <2>1, QueueFacts
<1>2. answers \in [AgentIds -> Seq(A)]
  BY DEF MainTypes
<1> HIDE DEF A
<1>3. \A id \in AgentIds, what \in A : Answer(answers, id, what) \in [AgentIds -> Seq(A)]
  BY <1>2 DEF Answer
<1> QED
  BY <1>1, <1>3 DEF A

\* A request to call names an id and a target.
LEMMA CallType ==
    ASSUME NEW m \in Requests, m.type = "call"
    PROVE  m.id \in AgentIds /\ m.target \in Apps \cup {Workspace}
<1>1. m # [type |-> "initialize"] /\ m # [type |-> "tools/list"]
  OBVIOUS
<1> QED
  BY <1>1 DEF Requests

\* The frames that the model makes.
LEMMA FrameTypes ==
    ASSUME LinkTypes, AppTypes
    PROVE  /\ NoMsg \in Frames
           /\ \A type \in {"call", "list", "changed"}, lid \in Nat, id \in AgentIds \cup {0} :
                 Msg(type, lid, id, 0) \in Frames
           /\ \A a \in Apps : /\ serving[a] \in Frames
                              /\ [serving[a] EXCEPT !.type = "reply"] \in Frames
           /\ \A a \in Apps : toApp[a] # <<>> =>
                 /\ Head(toApp[a]) \in Frames
                 /\ [Head(toApp[a]) EXCEPT !.ver = version[a]] \in Frames
<1> USE AggregatorNumbers
<1>1. \A a \in Apps : toApp[a] # <<>> => Head(toApp[a]) \in Frames
  <2>1. \A a \in Apps : toApp[a] \in Seq(Frames)
    BY DEF LinkTypes
  <2> QED
    BY <2>1, QueueFacts
<1>2. /\ NoMsg \in Frames
      /\ \A type \in {"call", "list", "changed"}, lid \in Nat, id \in AgentIds \cup {0} :
            Msg(type, lid, id, 0) \in Frames
  BY DEF NoMsg, Msg, Frames
<1>3. \A a \in Apps : serving[a] \in Frames /\ version[a] \in 0..MaxChanges
  BY DEF LinkTypes, AppTypes
<1>4. \A m \in Frames, v \in 0..MaxChanges :
         [m EXCEPT !.type = "reply"] \in Frames /\ [m EXCEPT !.ver = v] \in Frames
  BY DEF Frames
<1> QED
  BY <1>1, <1>2, <1>3, <1>4

\* A queue of frames within its capacity stays so when its head is taken, when
\* it is emptied, and when there is room for one more.
LEMMA QueueTypes ==
    ASSUME NEW f \in [Apps -> Seq(Frames)], \A a \in Apps : Len(f[a]) <= Cap,
           NEW a \in Apps, NEW g,
           \/ f[a] # <<>> /\ g = [f EXCEPT ![a] = Tail(@)]
           \/ g = [f EXCEPT ![a] = <<>>]
           \/ \E m \in Frames : g = [f EXCEPT ![a] = <<m>>]
           \/ \E m \in Frames : Len(f[a]) < Cap /\ g = [f EXCEPT ![a] = Append(@, m)]
    PROVE  g \in [Apps -> Seq(Frames)] /\ \A b \in Apps : Len(g[b]) <= Cap
<1>0. PICK q : g = [f EXCEPT ![a] = q] /\ q \in Seq(Frames) /\ Len(q) <= Cap
  <2>0. f[a] \in Seq(Frames) /\ Len(f[a]) <= Cap
    OBVIOUS
  <2>1. CASE f[a] # <<>> /\ g = [f EXCEPT ![a] = Tail(@)]
    <3>1. Tail(f[a]) \in Seq(Frames) /\ Len(Tail(f[a])) <= Cap
      BY <2>0, <2>1, AggregatorNumbers
    <3> QED
      BY <2>1, <3>1
  <2>2. CASE g = [f EXCEPT ![a] = <<>>]
    <3> DEFINE e == <<>>
    <3>1. e \in Seq(Frames) /\ Len(e) <= Cap
      BY AggregatorNumbers
    <3>2. g = [f EXCEPT ![a] = e]
      BY <2>2
    <3> QED
      BY <3>1, <3>2
  <2>3. CASE \E m \in Frames : g = [f EXCEPT ![a] = <<m>>]
    <3>1. PICK m \in Frames : g = [f EXCEPT ![a] = <<m>>]
      BY <2>3
    <3>2. <<m>> \in Seq(Frames) /\ Len(<<m>>) = 1
      OBVIOUS
    <3>3. <<m>> \in Seq(Frames) /\ Len(<<m>>) <= Cap
      BY <3>2, AggregatorNumbers
    <3> QED
      BY <3>1, <3>3
  <2>4. CASE \E m \in Frames : Len(f[a]) < Cap /\ g = [f EXCEPT ![a] = Append(@, m)]
    <3>1. PICK m \in Frames : Len(f[a]) < Cap /\ g = [f EXCEPT ![a] = Append(@, m)]
      BY <2>4
    <3>2. Append(f[a], m) \in Seq(Frames) /\ Len(Append(f[a], m)) <= Cap
      BY <2>0, <3>1, AggregatorNumbers
    <3> QED
      BY <3>1, <3>2
  <2> QED
    BY <2>1, <2>2, <2>3, <2>4
<1> QED
  BY <1>0

AllTypes == LinkTypes /\ AppTypes /\ MemberTypes /\ ReaderTypes /\ TableTypes /\ MainTypes

\* The main thread keeps the types.
LEMMA TypesMain ==
    ASSUME AllTypes, LockInv, Main
    PROVE  AllTypes'
<1>0. LinkTypes /\ AppTypes /\ MemberTypes /\ ReaderTypes /\ TableTypes /\ MainTypes
  BY DEF AllTypes
<1>1. AppTypes' /\ MemberTypes' /\ ReaderTypes'
  BY <1>0, MainFrame, TypesKept DEF appVars, memberVars, readerVars
<1>2. UNCHANGED <<link, fromApp, serving, told, emitters, lists, sent, missed>>
  BY MainFrame
<1> USE <1>0
<1>3. SUFFICES LinkTypes' /\ TableTypes' /\ MainTypes'
  BY <1>1 DEF AllTypes
<1>4. Requested("call") => Head(stdin).id \in AgentIds /\ Head(stdin) \in Requests
  BY AnswerTypes, CallType DEF Requested
<1>5. main = "write" => /\ stdin # <<>> /\ Head(stdin).id \in AgentIds
                        /\ Head(stdin).target \in Apps
  <2>1. main = "write" => stdin # <<>> /\ Head(stdin).type = "call"
    BY DEF LockInv
  <2>2. main = "write" => \E fl \in inflight : fl.of = Head(stdin).target
    BY DEF LockInv
  <2>3. \A fl \in inflight : fl.of \in Apps
    BY DEF TableTypes, Entries
  <2> QED
    BY <2>1, <2>2, <2>3, AnswerTypes, CallType
<1>6. main = "list" => stdin # <<>>
  BY DEF LockInv
<1>7. CASE HandleInitialize
  <2>1. stdin' \in Seq(Requests)
    BY <1>7, AnswerTypes DEF HandleInitialize, Requested
  <2> QED
    BY <1>2, <1>7, <2>1, TypesKept DEF HandleInitialize, MainTypes
<1>8. CASE HandleToolsList
  BY <1>2, <1>8, TypesKept DEF HandleToolsList, MainTypes, agentVars
<1>9. CASE WriteToolsList
  <2>1. stdin' \in Seq(Requests)
    BY <1>6, <1>9, AnswerTypes DEF WriteToolsList
  <2> QED
    BY <1>2, <1>9, <2>1, TypesKept DEF WriteToolsList, MainTypes
<1>10. CASE CallAnsweredHere
  <2>1. stdin' \in Seq(Requests)
    BY <1>10, AnswerTypes DEF CallAnsweredHere, Requested
  <2>2. answers' \in [AgentIds -> Seq({Error, AppsList} \cup {Reply(n) : n \in AgentIds \cup {0}})]
    BY <1>4, <1>10, AnswerTypes DEF CallAnsweredHere
  <2> QED
    BY <1>2, <1>10, <2>1, <2>2, TypesKept DEF CallAnsweredHere, MainTypes, mainVars
<1>11. CASE CallAlloc
  <2>1. Min(Target) \in Members
    <3>1. Target \in SUBSET Slots /\ Target \subseteq Members
      BY DEF Target, Members
    <3>2. Target # {}
      BY <1>11 DEF CallAlloc
    <3> QED
      BY <3>1, <3>2, FirstIsMember
  <2>2. /\ inflight_alloc(Min(Target), "agent", Head(stdin).id) /\ HasRoom
        /\ Head(stdin).id \in AgentIds
    BY <1>4, <1>11 DEF CallAlloc
  <2>3. TableTypes'
    BY <2>1, <2>2, TableGrows
  <2>4. LinkTypes'
    BY <1>11, TypesKept DEF CallAlloc
  <2> QED
    BY <1>2, <1>11, <2>3, <2>4 DEF CallAlloc, MainTypes, agentVars
<1>12. CASE CallWrite
  <2> DEFINE a == Head(stdin).target
             m == Msg("call", next_local_id, Head(stdin).id, 0)
  <2>1. a \in Apps /\ m \in Frames
    BY <1>5, <1>12, FrameTypes DEF CallWrite, TableTypes
  <2>2. Len(toApp[a]) < Cap /\ toApp' = [toApp EXCEPT ![a] = Append(@, m)]
    BY <1>12 DEF CallWrite
  <2> HIDE DEF a, m
  <2>3. toApp' \in [Apps -> Seq(Frames)] /\ \A b \in Apps : Len(toApp'[b]) <= Cap
    <3>1. toApp \in [Apps -> Seq(Frames)] /\ \A b \in Apps : Len(toApp[b]) <= Cap
      BY DEF LinkTypes
    <3> QED
      BY <2>1, <2>2, <3>1, QueueTypes
  <2>4. LinkTypes'
    BY <1>2, <2>3 DEF LinkTypes
  <2>5. stdin' \in Seq(Requests)
    BY <1>5, <1>12, AnswerTypes DEF CallWrite
  <2> QED
    BY <1>2, <1>12, <2>4, <2>5, TypesKept DEF CallWrite, MainTypes
<1>13. CASE CallWriteFails
  <2>1. stdin' \in Seq(Requests)
    BY <1>5, <1>13, AnswerTypes DEF CallWriteFails
  <2>2. answers' \in [AgentIds -> Seq({Error, AppsList} \cup {Reply(n) : n \in AgentIds \cup {0}})]
    BY <1>5, <1>13, AnswerTypes DEF CallWriteFails
  <2>3. TableTypes'
    BY <1>13, TableShrinks DEF CallWriteFails
  <2>4. LinkTypes'
    BY <1>13, TypesKept DEF CallWriteFails
  <2> QED
    BY <1>2, <1>13, <2>1, <2>2, <2>3, <2>4 DEF CallWriteFails, MainTypes
<1> QED
  BY <1>7, <1>8, <1>9, <1>10, <1>11, <1>12, <1>13, Zenon DEF Main

\* So do the setup threads.
LEMMA TypesSetup ==
    ASSUME AllTypes, NEW a \in Apps, backend_setup(a)
    PROVE  AllTypes'
<1>0. LinkTypes /\ AppTypes /\ MemberTypes /\ ReaderTypes /\ TableTypes /\ MainTypes
  BY DEF AllTypes
<1>1. AppTypes' /\ TableTypes'
  BY <1>0, SetupFrame, TypesKept DEF appVars, tableVars
<1>2. UNCHANGED <<held, lock, main, agent_initialized, stdin, answers, told, lists, sent>>
  BY SetupFrame
<1> USE <1>0
<1>3. SUFFICES LinkTypes' /\ MemberTypes' /\ ReaderTypes' /\ MainTypes'
  BY <1>1 DEF AllTypes
<1>4. fromApp[a] # <<>> => Head(fromApp[a]) \in Frames /\ Head(fromApp[a]).ver \in 0..MaxChanges
  <2>1. fromApp[a] \in Seq(Frames)
    BY DEF LinkTypes
  <2>2. fromApp[a] # <<>> => Head(fromApp[a]) \in Frames
    BY <2>1, QueueFacts
  <2> QED
    BY <2>2 DEF Frames
<1>5. NoMsg \in Frames /\ Msg("list", HandshakeId, 0, 0) \in Frames
  BY FrameTypes DEF HandshakeId
<1>6. /\ toApp \in [Apps -> Seq(Frames)] /\ \A b \in Apps : Len(toApp[b]) <= Cap
      /\ fromApp \in [Apps -> Seq(Frames)] /\ \A b \in Apps : Len(fromApp[b]) <= Cap
  BY DEF LinkTypes
<1>7. CASE SetupConnect(a)
  <2>1. toApp' \in [Apps -> Seq(Frames)] /\ \A b \in Apps : Len(toApp'[b]) <= Cap
    BY <1>5, <1>6, <1>7, QueueTypes DEF SetupConnect
  <2>2. LinkTypes'
    BY <1>7, <2>1 DEF SetupConnect, LinkTypes
  <2>3. MemberTypes'
    BY <1>7 DEF SetupConnect, MemberTypes
  <2>4. ReaderTypes'
    BY <1>7, TypesKept DEF SetupConnect
  <2> QED
    BY <1>2, <1>7, <2>2, <2>3, <2>4 DEF SetupConnect, MainTypes
<1>8. CASE SetupSkip(a)
  <2>1. fromApp' \in [Apps -> Seq(Frames)] /\ \A b \in Apps : Len(fromApp'[b]) <= Cap
    BY <1>6, <1>8, QueueTypes DEF SetupSkip
  <2>2. LinkTypes'
    BY <1>8, <2>1 DEF SetupSkip, LinkTypes
  <2>3. ReaderTypes' /\ MemberTypes'
    BY <1>8, TypesKept DEF SetupSkip
  <2> QED
    BY <1>2, <1>8, <2>2, <2>3 DEF SetupSkip, MainTypes
<1>9. CASE SetupFails(a) \/ SetupNoSlot(a)
  <2>0. /\ toApp' = [toApp EXCEPT ![a] = <<>>] /\ fromApp' = [fromApp EXCEPT ![a] = <<>>]
        /\ serving' = [serving EXCEPT ![a] = NoMsg] /\ link' = [link EXCEPT ![a] = "none"]
        /\ setup' = [setup EXCEPT ![a] = "failed"]
        /\ UNCHANGED <<backends, cache, connecting, readerVars, historyVars>>
    BY <1>9 DEF SetupFails, SetupNoSlot
  <2>1. /\ toApp' \in [Apps -> Seq(Frames)] /\ \A b \in Apps : Len(toApp'[b]) <= Cap
        /\ fromApp' \in [Apps -> Seq(Frames)] /\ \A b \in Apps : Len(fromApp'[b]) <= Cap
    BY <1>6, <2>0, QueueTypes
  <2>2. LinkTypes'
    BY <1>5, <2>0, <2>1 DEF LinkTypes
  <2>3. MemberTypes'
    BY <2>0 DEF MemberTypes
  <2>4. ReaderTypes'
    BY <2>0, TypesKept
  <2> QED
    BY <1>2, <2>0, <2>2, <2>3, <2>4 DEF MainTypes, historyVars
<1>10. CASE SetupRegister(a)
  <2> DEFINE s == Min(FreeSlots)
  <2>1. s \in Slots
    <3>1. FreeSlots \in SUBSET Slots /\ FreeSlots # {}
      BY <1>10 DEF FreeSlots, SetupRegister
    <3> QED
      BY <3>1, FirstIsMember
  <2>2. /\ backends' = [backends EXCEPT ![s] = a]
        /\ cache' = [cache EXCEPT ![s] = Head(fromApp[a]).ver]
        /\ reader' = [reader EXCEPT ![s] = "top"]
        /\ fromApp[a] # <<>> /\ fromApp' = [fromApp EXCEPT ![a] = Tail(@)]
        /\ setup' = [setup EXCEPT ![a] = "joined"]
        /\ UNCHANGED <<serving, link, toApp, connecting, emitters, missed>>
    BY <1>10 DEF SetupRegister, historyVars
  <2> HIDE DEF s
  <2>3. fromApp' \in [Apps -> Seq(Frames)] /\ \A b \in Apps : Len(fromApp'[b]) <= Cap
    BY <1>6, <2>2, QueueTypes
  <2>4. LinkTypes'
    BY <2>2, <2>3 DEF LinkTypes
  <2>5. MemberTypes'
    BY <1>4, <2>1, <2>2 DEF MemberTypes
  <2>6. ReaderTypes'
    BY <1>2, <2>1, <2>2 DEF ReaderTypes
  <2> QED
    BY <1>2, <2>2, <2>4, <2>5, <2>6 DEF MainTypes
<1>11. CASE connecting_remove(a)
  <2>1. LinkTypes' /\ ReaderTypes'
    BY <1>11, TypesKept DEF connecting_remove
  <2>2. MemberTypes'
    BY <1>11 DEF connecting_remove, MemberTypes
  <2>3. emitters' \in Nat
    BY <1>11 DEF connecting_remove, MainTypes
  <2> QED
    BY <1>2, <1>11, <2>1, <2>2, <2>3 DEF connecting_remove, MainTypes
<1> QED
  BY <1>7, <1>8, <1>9, <1>10, <1>11, Zenon DEF backend_setup

\* So do the readers.
LEMMA TypesReader ==
    ASSUME AllTypes, MemberInv, HeldInv, NEW s \in Slots, Reader(s)
    PROVE  AllTypes'
<1>0. LinkTypes /\ AppTypes /\ MemberTypes /\ ReaderTypes /\ TableTypes /\ MainTypes
  BY DEF AllTypes
<1>1. AppTypes'
  BY <1>0, ReaderFrame, TypesKept DEF appVars
<1>2. UNCHANGED <<connecting, setup, main, agent_initialized, stdin, lists, sent>>
  BY ReaderFrame
<1> USE <1>0
<1>3. SUFFICES LinkTypes' /\ MemberTypes' /\ ReaderTypes' /\ TableTypes' /\ MainTypes'
  BY <1>1 DEF AllTypes
<1>4. NoMsg \in Frames /\ NoHold \in [msg : Frames, orig : AgentIds \cup {0}]
  BY FrameTypes DEF NoHold
<1>5. reader[s] # "none" => backends[s] \in Apps
  BY DEF MemberInv, MemberTypes
<1>6. /\ toApp \in [Apps -> Seq(Frames)] /\ \A b \in Apps : Len(toApp[b]) <= Cap
      /\ fromApp \in [Apps -> Seq(Frames)] /\ \A b \in Apps : Len(fromApp[b]) <= Cap
  BY DEF LinkTypes
<1>7. CASE ReaderTop(s) \/ ReaderEOF(s)
  <2>1. /\ reader' \in {[reader EXCEPT ![s] = "read"], [reader EXCEPT ![s] = "teardown"]}
        /\ UNCHANGED <<held, lock, linkVars, memberVars, tableVars, agentVars, historyVars>>
    BY <1>7 DEF ReaderTop, ReaderEOF
  <2>2. ReaderTypes'
    BY <2>1 DEF ReaderTypes
  <2> QED
    BY <1>2, <2>1, <2>2, TypesKept DEF agentVars, historyVars
<1>8. CASE ReaderRead(s)
  <2> DEFINE a == backends[s]
  <2>1. a \in Apps /\ fromApp[a] # <<>> /\ Head(fromApp[a]) \in Frames
    <3>1. a \in Apps /\ fromApp[a] # <<>>
      BY <1>5, <1>8 DEF ReaderRead
    <3>2. fromApp[a] \in Seq(Frames)
      BY <1>6, <3>1
    <3> QED
      BY <3>1, <3>2, QueueFacts
  <2>2. /\ fromApp' = [fromApp EXCEPT ![a] = Tail(@)]
        /\ held' = [held EXCEPT ![s] = [msg |-> Head(fromApp[a]), orig |-> 0]]
        /\ reader' \in {[reader EXCEPT ![s] = "refresh"], [reader EXCEPT ![s] = "lookup"]}
        /\ UNCHANGED <<serving, link, toApp, lock, memberVars, tableVars, agentVars, historyVars>>
    BY <1>8 DEF ReaderRead
  <2> HIDE DEF a
  <2>3. fromApp' \in [Apps -> Seq(Frames)] /\ \A b \in Apps : Len(fromApp'[b]) <= Cap
    BY <1>6, <2>1, <2>2, QueueTypes
  <2>4. LinkTypes'
    BY <2>2, <2>3 DEF LinkTypes
  <2>5. ReaderTypes'
    BY <2>1, <2>2 DEF ReaderTypes
  <2> QED
    BY <1>2, <2>2, <2>4, <2>5, TypesKept DEF agentVars, historyVars
<1>9. CASE ReaderLookup(s)
  <2>1. inflight' \subseteq inflight /\ UNCHANGED <<next_local_id, lock, linkVars, memberVars, agentVars, historyVars>>
    BY <1>9 DEF ReaderLookup, inflight_find
  <2>2. TableTypes'
    BY <2>1, TableShrinks
  <2>3. ReaderTypes'
    <3>1. CASE /\ reader' = [reader EXCEPT ![s] = "top"]
               /\ held' = [held EXCEPT ![s] = NoHold]
      BY <1>4, <3>1 DEF ReaderTypes
    <3>2. ASSUME NEW fl \in inflight,
                 /\ reader' = [reader EXCEPT ![s] = IF fl.slot # s THEN "top"
                                                      ELSE IF fl.kind = "refresh" THEN "apply" ELSE "relay"]
                 /\ held' = [held EXCEPT ![s] = IF fl.slot # s THEN NoHold ELSE [@ EXCEPT !.orig = fl.orig]]
          PROVE  ReaderTypes'
      <4>1. fl.orig \in AgentIds \cup {0}
        BY DEF TableTypes, Entries
      <4>2. [held[s] EXCEPT !.orig = fl.orig] \in [msg : Frames, orig : AgentIds \cup {0}]
        BY <4>1 DEF ReaderTypes
      <4>3. held' \in [Slots -> [msg : Frames, orig : AgentIds \cup {0}]]
        BY <1>4, <3>2, <4>2 DEF ReaderTypes
      <4>4. reader' \in {[reader EXCEPT ![s] = "top"], [reader EXCEPT ![s] = "apply"],
                         [reader EXCEPT ![s] = "relay"]}
        BY <3>2
      <4> QED
        BY <4>3, <4>4 DEF ReaderTypes
    <3> QED
      BY <1>9, <3>1, <3>2 DEF ReaderLookup, inflight_find
  <2> QED
    BY <1>2, <2>1, <2>2, <2>3, TypesKept DEF agentVars, historyVars
<1>10. CASE ReaderRelay(s)
  <2>1. held[s].orig \in AgentIds /\ held[s].msg.id \in AgentIds \cup {0}
    BY <1>10 DEF ReaderRelay, HeldInv, HeldOf, ReaderTypes, Frames
  <2>2. answers' \in [AgentIds -> Seq({Error, AppsList} \cup {Reply(n) : n \in AgentIds \cup {0}})]
    BY <1>10, <2>1, AnswerTypes DEF ReaderRelay
  <2>3. ReaderTypes'
    BY <1>4, <1>10 DEF ReaderRelay, ReaderTypes
  <2>4. LinkTypes' /\ MemberTypes' /\ TableTypes'
    BY <1>10, TypesKept DEF ReaderRelay
  <2> QED
    BY <1>2, <1>10, <2>2, <2>3, <2>4 DEF ReaderRelay, MainTypes, historyVars
<1>11. CASE ReaderApply(s)
  <2>1. ReaderTypes'
    BY <1>4, <1>11 DEF ReaderApply, ReaderTypes
  <2>2. held[s].msg.ver \in 0..MaxChanges
    BY DEF ReaderTypes, Frames
  <2>3. MemberTypes'
    BY <1>11, <2>2 DEF ReaderApply, MemberTypes
  <2> QED
    BY <1>2, <1>11, <2>1, <2>3, TypesKept DEF ReaderApply, agentVars, historyVars
<1>12. CASE ReaderEmit(s)
  <2>1. ReaderTypes'
    BY <1>12 DEF ReaderEmit, ReaderTypes
  <2>2. LinkTypes' /\ MemberTypes' /\ TableTypes'
    BY <1>12, TypesKept DEF ReaderEmit
  <2> QED
    BY <1>2, <1>12, <2>1, <2>2 DEF ReaderEmit, MainTypes, historyVars
<1>13. CASE RefreshLost(s)
  <2>1. ReaderTypes'
    BY <1>4, <1>13 DEF RefreshLost, ReaderTypes
  <2>2. LinkTypes' /\ MemberTypes' /\ TableTypes'
    BY <1>13, TypesKept DEF RefreshLost
  <2>3. missed' \subseteq Apps
    BY <1>5, <1>13 DEF RefreshLost, MainTypes
  <2> QED
    BY <1>2, <1>13, <2>1, <2>2, <2>3 DEF RefreshLost, MainTypes, agentVars
<1>14. CASE RefreshAlloc(s)
  <2>1. ReaderTypes'
    BY <1>4, <1>14 DEF RefreshAlloc, ReaderTypes
  <2>2. LinkTypes' /\ MemberTypes'
    BY <1>14, TypesKept DEF RefreshAlloc
  <2>3. s \in Members /\ HasRoom /\ inflight_alloc(s, "refresh", 0)
    BY <1>5, <1>14, AggregatorAssumption DEF RefreshAlloc, Members
  <2>4. TableTypes'
    BY <2>3, TableGrows
  <2>5. lock' \in {"reader"} \X Slots
    BY <1>14 DEF RefreshAlloc
  <2> QED
    BY <1>2, <1>14, <2>1, <2>2, <2>4, <2>5 DEF RefreshAlloc, MainTypes, agentVars, historyVars
<1>15. CASE RefreshWrite(s)
  <2> DEFINE a == backends[s]
             m == Msg("list", next_local_id, 0, 0)
  <2>1. a \in Apps /\ m \in Frames
    BY <1>5, <1>15, FrameTypes DEF RefreshWrite, TableTypes
  <2>2. Len(toApp[a]) < Cap /\ toApp' = [toApp EXCEPT ![a] = Append(@, m)]
    BY <1>15 DEF RefreshWrite
  <2> HIDE DEF a, m
  <2>3. toApp' \in [Apps -> Seq(Frames)] /\ \A b \in Apps : Len(toApp'[b]) <= Cap
    BY <1>6, <2>1, <2>2, QueueTypes
  <2>4. LinkTypes'
    BY <1>15, <2>3 DEF LinkTypes, RefreshWrite
  <2>5. ReaderTypes'
    BY <1>15 DEF RefreshWrite, ReaderTypes
  <2>6. MemberTypes' /\ TableTypes'
    BY <1>15, TypesKept DEF RefreshWrite
  <2> QED
    BY <1>2, <1>15, <2>4, <2>5, <2>6 DEF RefreshWrite, MainTypes, agentVars, historyVars
<1>16. CASE RefreshWriteFails(s)
  <2>1. TableTypes'
    BY <1>16, TableShrinks DEF RefreshWriteFails
  <2>2. ReaderTypes'
    BY <1>16 DEF RefreshWriteFails, ReaderTypes
  <2>3. LinkTypes' /\ MemberTypes'
    BY <1>16, TypesKept DEF RefreshWriteFails
  <2> QED
    BY <1>2, <1>16, <2>1, <2>2, <2>3 DEF RefreshWriteFails, MainTypes, agentVars, historyVars
<1>17. CASE backend_teardown_locked(s)
  <2> DEFINE a == backends[s]
             A == {Error, AppsList} \cup {Reply(n) : n \in AgentIds \cup {0}}
  <2>1. TableTypes'
    BY <1>17, TableShrinks DEF backend_teardown_locked, FreeSlot
  <2>2. answers' \in [AgentIds -> Seq(A)]
    <3>1. answers \in [AgentIds -> Seq(A)] /\ Error \in A
      BY DEF MainTypes
    <3>2. answers' = [id \in AgentIds |->
                         IF \E fl \in Outstanding(s) : fl.orig = id THEN Append(answers[id], Error)
                                                                    ELSE answers[id]]
      BY <1>17 DEF backend_teardown_locked
    <3> HIDE DEF A
    <3>3. \A id \in AgentIds : answers[id] \in Seq(A) /\ Append(answers[id], Error) \in Seq(A)
      BY <3>1
    <3> QED
      BY <3>2, <3>3
  <2>3. /\ a \in Apps /\ toApp' = [toApp EXCEPT ![a] = <<>>] /\ fromApp' = [fromApp EXCEPT ![a] = <<>>]
        /\ serving' = [serving EXCEPT ![a] = NoMsg] /\ link' = [link EXCEPT ![a] = "none"]
    BY <1>5, <1>17 DEF backend_teardown_locked, FreeSlot
  <2>4. /\ backends' = [backends EXCEPT ![s] = NoApp] /\ cache' = [cache EXCEPT ![s] = 0]
        /\ reader' = [reader EXCEPT ![s] = "none"] /\ emitters' = emitters + 1
        /\ UNCHANGED <<held, lock, told, missed>>
    BY <1>17 DEF backend_teardown_locked, FreeSlot
  <2> HIDE DEF a
  <2>5. /\ toApp' \in [Apps -> Seq(Frames)] /\ \A b \in Apps : Len(toApp'[b]) <= Cap
        /\ fromApp' \in [Apps -> Seq(Frames)] /\ \A b \in Apps : Len(fromApp'[b]) <= Cap
    BY <1>6, <2>3, QueueTypes
  <2>6. LinkTypes'
    BY <1>4, <2>3, <2>5 DEF LinkTypes
  <2>7. MemberTypes' /\ ReaderTypes'
    BY <1>2, <2>4, AggregatorNumbers DEF MemberTypes, ReaderTypes
  <2> QED
    BY <1>2, <2>1, <2>2, <2>4, <2>6, <2>7 DEF MainTypes
<1> QED
  BY <1>7, <1>8, <1>9, <1>10, <1>11, <1>12, <1>13, <1>14, <1>15, <1>16, <1>17, Zenon DEF Reader

\* So do the apps, the agent, the poll thread and the emitters.
LEMMA TypesApp ==
    ASSUME AllTypes, NEW a \in Apps, AppStep(a)
    PROVE  AllTypes'
<1>0. LinkTypes /\ AppTypes /\ MemberTypes /\ ReaderTypes /\ TableTypes /\ MainTypes
  BY DEF AllTypes
<1>1. MemberTypes' /\ ReaderTypes' /\ TableTypes'
  BY <1>0, AppFrame, TypesKept DEF memberVars, readerVars, tableVars
<1>2. UNCHANGED <<lock, main, agent_initialized, told, emitters, lists, sent, stdin, answers>>
  BY AppFrame
<1> USE <1>0
<1>3. SUFFICES LinkTypes' /\ AppTypes' /\ missed' \subseteq Apps
  BY <1>1, <1>2 DEF AllTypes, MainTypes
<1>4. /\ toApp \in [Apps -> Seq(Frames)] /\ \A b \in Apps : Len(toApp[b]) <= Cap
      /\ fromApp \in [Apps -> Seq(Frames)] /\ \A b \in Apps : Len(fromApp[b]) <= Cap
      /\ missed \subseteq Apps
  BY DEF LinkTypes, MainTypes
<1>5. CASE AppStart(a) \/ AppHang(a)
  BY <1>5, TypesKept DEF AppStart, AppHang, AppTypes, MainTypes, historyVars
<1>6. CASE AppDies(a) \/ AppHangsUp(a)
  <2>1. /\ AppTypes' /\ toApp' = [toApp EXCEPT ![a] = <<>>] /\ serving' = [serving EXCEPT ![a] = NoMsg]
        /\ link' = [link EXCEPT ![a] = IF @ = "open" THEN "closed" ELSE @]
        /\ UNCHANGED <<fromApp, missed>>
    <3>1. AppTypes'
      <4>1. CASE AppDies(a)
        BY <4>1 DEF AppDies, Closed, AppTypes
      <4>2. CASE AppHangsUp(a)
        BY <4>2, AggregatorNumbers DEF AppHangsUp, Closed, AppTypes
      <4> QED
        BY <1>6, <4>1, <4>2
    <3> QED
      BY <1>6, <3>1 DEF AppDies, AppHangsUp, Closed, historyVars
  <2>2. toApp' \in [Apps -> Seq(Frames)] /\ \A b \in Apps : Len(toApp'[b]) <= Cap
    BY <1>4, <2>1, QueueTypes
  <2>3. LinkTypes'
    BY <2>1, <2>2, FrameTypes DEF LinkTypes
  <2> QED
    BY <1>4, <2>1, <2>3
<1>7. CASE AppServes(a)
  <2>1. /\ toApp[a] # <<>> /\ toApp' = [toApp EXCEPT ![a] = Tail(@)]
        /\ serving' = [serving EXCEPT ![a] = [Head(toApp[a]) EXCEPT !.ver = version[a]]]
        /\ UNCHANGED <<link, fromApp, appVars, missed>>
    BY <1>7 DEF AppServes, historyVars
  <2>2. toApp' \in [Apps -> Seq(Frames)] /\ \A b \in Apps : Len(toApp'[b]) <= Cap
    BY <1>4, <2>1, QueueTypes
  <2>3. [Head(toApp[a]) EXCEPT !.ver = version[a]] \in Frames
    BY <2>1, FrameTypes
  <2>4. LinkTypes'
    BY <2>1, <2>2, <2>3 DEF LinkTypes
  <2> QED
    BY <1>4, <2>1, <2>4, TypesKept
<1>8. CASE AppReplies(a)
  <2> DEFINE m == [serving[a] EXCEPT !.type = "reply"]
  <2>1. /\ Len(fromApp[a]) < Cap /\ fromApp' = [fromApp EXCEPT ![a] = Append(@, m)]
        /\ serving' = [serving EXCEPT ![a] = NoMsg]
        /\ UNCHANGED <<link, toApp, appVars, missed>>
    BY <1>8 DEF AppReplies, historyVars
  <2>2. m \in Frames /\ NoMsg \in Frames
    BY FrameTypes
  <2> HIDE DEF m
  <2>3. fromApp' \in [Apps -> Seq(Frames)] /\ \A b \in Apps : Len(fromApp'[b]) <= Cap
    BY <1>4, <2>1, <2>2, QueueTypes
  <2>4. LinkTypes'
    BY <2>1, <2>2, <2>3 DEF LinkTypes
  <2> QED
    BY <1>4, <2>1, <2>4, TypesKept
<1>9. CASE AppChanges(a)
  <2> DEFINE m == Msg("changed", 0, 0, 0)
  <2>1. \/ fromApp' = fromApp
        \/ Len(fromApp[a]) < Cap /\ fromApp' = [fromApp EXCEPT ![a] = Append(@, m)]
    BY <1>9 DEF AppChanges
  <2>2. m \in Frames
    BY FrameTypes
  <2> HIDE DEF m
  <2>3. fromApp' \in [Apps -> Seq(Frames)] /\ \A b \in Apps : Len(fromApp'[b]) <= Cap
    BY <1>4, <2>1, <2>2, QueueTypes
  <2>4. LinkTypes'
    BY <1>9, <2>3 DEF AppChanges, LinkTypes
  <2>5. version[a] \in 0..MaxChanges /\ version[a] < MaxChanges
    BY <1>9 DEF AppChanges, AppTypes
  <2>6. AppTypes'
    BY <1>9, <2>5, AggregatorNumbers DEF AppChanges, AppTypes
  <2>7. missed' \subseteq Apps
    BY <1>4, <1>9 DEF AppChanges
  <2> QED
    BY <2>4, <2>6, <2>7
<1> QED
  BY <1>5, <1>6, <1>7, <1>8, <1>9, Zenon DEF AppStep, AppWorks

\* The poll thread, the emitters and the agent keep the types.
LEMMA TypesRest ==
    ASSUME AllTypes, poll_thread \/ emit_list_changed_upstream \/ AgentStep
    PROVE  AllTypes'
<1>0. LinkTypes /\ AppTypes /\ MemberTypes /\ ReaderTypes /\ TableTypes /\ MainTypes
  BY DEF AllTypes
<1> USE <1>0
<1>1. CASE poll_thread
  <2>1. MemberTypes'
    <3>1. PICK taken \in SUBSET Apps : /\ connecting' = connecting \cup taken
                                       /\ setup' = [a \in Apps |-> IF a \in taken THEN "connect" ELSE setup[a]]
      BY <1>1 DEF poll_thread
    <3> QED
      BY <1>1, <3>1, PollFrame DEF MemberTypes
  <2> QED
    BY <1>1, <2>1, PollFrame, TypesKept DEF AllTypes, linkVars, appVars, readerVars, tableVars
<1>2. CASE emit_list_changed_upstream
  <2>1. emitters' \in Nat /\ told' \in BOOLEAN /\ UNCHANGED <<lists, sent>>
    BY <1>2 DEF emit_list_changed_upstream, MainTypes
  <2>2. MainTypes'
    BY <1>2, <2>1, EmitFrame DEF MainTypes
  <2> QED
    BY <1>2, <2>2, EmitFrame, TypesKept DEF AllTypes, linkVars, appVars, memberVars, readerVars, tableVars
<1>3. CASE AgentStep
  <2>1. \A m \in Requests : Append(stdin, m) \in Seq(Requests)
    BY DEF MainTypes
  <2>2. MainTypes'
    <3>1. CASE AgentLists
      <4>0. [type |-> "tools/list"] \in Requests
        BY DEF Requests
      <4>1. stdin' \in Seq(Requests)
        BY <2>1, <3>1, <4>0 DEF AgentLists
      <4>2. lists' \in 0..MaxLists /\ told' = FALSE /\ sent' = sent
        <5>1. lists \in 0..MaxLists /\ lists < MaxLists /\ lists' = lists + 1 /\ told' = FALSE /\ sent' = sent
          BY <3>1 DEF AgentLists, MainTypes
        <5> QED
          BY <5>1, AggregatorNumbers
      <4> QED
        BY <1>3, <4>1, <4>2, AgentFrame DEF MainTypes
    <3>2. ASSUME NEW id \in AgentIds, NEW target \in Apps \cup {Workspace}, AgentCalls(id, target)
          PROVE  MainTypes'
      <4>1. [type |-> "call", id |-> id, target |-> target] \in Requests
        BY DEF Requests
      <4>2. stdin' \in Seq(Requests)
        BY <2>1, <3>2, <4>1 DEF AgentCalls
      <4>3. UNCHANGED <<lists, told>> /\ sent' \subseteq AgentIds
        BY <3>2 DEF AgentCalls, MainTypes
      <4> QED
        BY <1>3, <4>2, <4>3, AgentFrame DEF MainTypes
    <3> QED
      BY <1>3, <3>1, <3>2 DEF AgentStep
  <2> QED
    BY <1>3, <2>2, AgentFrame, TypesKept DEF AllTypes, linkVars, appVars, memberVars, readerVars, tableVars
<1> QED
  BY <1>1, <1>2, <1>3

(***************************************************************************)
(* Membership                                                              *)
(***************************************************************************)
\* No step but those of discovery and teardown changes who is a member.
LEMMA MemberKept ==
    ASSUME MemberInv, UNCHANGED <<connecting, setup, backends>>,
           \A s \in Slots : reader'[s] = "none" <=> reader[s] = "none",
           \A a \in Apps : link'[a] = "none" <=> link[a] = "none",
           \A a \in Apps : link[a] = "none" =>
               /\ toApp'[a] \in {toApp[a], <<>>} /\ fromApp'[a] = fromApp[a]
               /\ serving'[a] \in {serving[a], NoMsg}
    PROVE  MemberInv'
  BY DEF MemberInv, Members, NoDuplicateBackend, NoMsg, Msg

\* Candidates are not members, and their connections are only up after the handshake began.
LEMMA Candidate ==
    ASSUME MemberInv, NEW a \in Apps, setup[a] \in {"connect", "list", "failed"}
    PROVE  /\ \A s \in Slots : backends[s] # a
           /\ setup[a] # "list" => link[a] = "none"
<1>1. \A s \in Slots : backends[s] # a
  BY AggregatorAssumption DEF MemberInv, Members
<1> QED
  BY <1>1 DEF MemberInv

\* Discovery keeps membership.
LEMMA MemberSetup ==
    ASSUME AllTypes, MemberInv, NEW a \in Apps, backend_setup(a)
    PROVE  MemberInv'
<1>0. LinkTypes /\ MemberTypes /\ ReaderTypes
  BY DEF AllTypes
<1>1. CASE SetupConnect(a)
  <2>1. /\ setup[a] = "connect" /\ setup'[a] = "list" /\ link'[a] = "open"
        /\ \A b \in Apps \ {a} : /\ setup'[b] = setup[b] /\ link'[b] = link[b] /\ toApp'[b] = toApp[b]
        /\ UNCHANGED <<serving, fromApp, backends, connecting, reader>>
    BY <1>0, <1>1 DEF SetupConnect, LinkTypes, MemberTypes, readerVars
  <2>2. \A s \in Slots : backends[s] # a
    BY <2>1, Candidate
  <2>3. (\A s \in Members : setup[backends[s]] \in {"none", "joined"})'
    <3>1. Members' = Members /\ \A s \in Members : backends[s] \in Apps
      BY <1>0, <2>1 DEF Members, MemberTypes
    <3> QED
      BY <2>1, <2>2, <3>1 DEF MemberInv, Members
  <2> QED
    BY <2>1, <2>2, <2>3 DEF MemberInv, Members, NoDuplicateBackend
<1>2. CASE SetupSkip(a)
  <2>1. /\ setup[a] = "list" /\ UNCHANGED <<setup, link, toApp, serving, backends, connecting, reader>>
        /\ \A b \in Apps \ {a} : fromApp'[b] = fromApp[b]
    BY <1>0, <1>2 DEF SetupSkip, LinkTypes, readerVars, memberVars
  <2>2. link[a] # "none"
    BY <2>1 DEF MemberInv
  <2> QED
    BY <2>1, <2>2, MemberKept
<1>3. CASE SetupFails(a) \/ SetupNoSlot(a)
  <2>1. /\ setup[a] \in {"connect", "list"} /\ setup'[a] = "failed" /\ link'[a] = "none"
        /\ toApp'[a] = <<>> /\ fromApp'[a] = <<>> /\ serving'[a] = NoMsg
        /\ \A b \in Apps \ {a} :
              /\ setup'[b] = setup[b] /\ link'[b] = link[b] /\ toApp'[b] = toApp[b]
              /\ fromApp'[b] = fromApp[b] /\ serving'[b] = serving[b]
        /\ UNCHANGED <<backends, connecting, reader>>
    BY <1>0, <1>3 DEF SetupFails, SetupNoSlot, LinkTypes, MemberTypes, readerVars
  <2>2. \A s \in Slots : backends[s] # a
    BY <2>1, Candidate
  <2>3. (\A s \in Members : setup[backends[s]] \in {"none", "joined"})'
    <3>1. Members' = Members /\ \A s \in Members : backends[s] \in Apps
      BY <1>0, <2>1 DEF Members, MemberTypes
    <3> QED
      BY <2>1, <2>2, <3>1 DEF MemberInv, Members
  <2> QED
    BY <2>1, <2>2, <2>3 DEF MemberInv, Members, NoDuplicateBackend
<1>4. CASE SetupRegister(a)
  <2> DEFINE s == Min(FreeSlots)
  <2>1. s \in Slots /\ backends[s] = NoApp
    <3>1. FreeSlots \in SUBSET Slots /\ FreeSlots # {}
      BY <1>4 DEF FreeSlots, SetupRegister
    <3>2. s \in FreeSlots
      BY <3>1, FirstIsMember
    <3> QED
      BY <3>2 DEF FreeSlots, Members
  <2>2. /\ backends' = [backends EXCEPT ![s] = a] /\ reader' = [reader EXCEPT ![s] = "top"]
    BY <1>4 DEF SetupRegister
  <2> HIDE DEF s
  <2>3. /\ backends'[s] = a /\ reader'[s] = "top"
        /\ \A t \in Slots \ {s} : backends'[t] = backends[t] /\ reader'[t] = reader[t]
    BY <1>0, <2>1, <2>2 DEF MemberTypes, ReaderTypes
  <2>4. /\ setup[a] = "list" /\ setup'[a] = "joined"
        /\ \A b \in Apps \ {a} : setup'[b] = setup[b] /\ fromApp'[b] = fromApp[b]
        /\ UNCHANGED <<serving, link, toApp, connecting>>
    BY <1>0, <1>4 DEF SetupRegister, LinkTypes, MemberTypes
  <2>5. link[a] # "none" /\ \A t \in Slots : backends[t] # a
    BY <2>4, Candidate DEF MemberInv
  <2>6. a # NoApp
    BY AggregatorAssumption
  <2>7. (\A b \in Apps : b \in connecting <=> setup[b] # "none")'
    BY <2>4 DEF MemberInv
  <2>8. (\A t \in Members : setup[backends[t]] \in {"none", "joined"})'
    BY <1>0, <2>1, <2>3, <2>4, <2>5 DEF MemberInv, Members, MemberTypes
  <2>9. NoDuplicateBackend'
    BY <2>1, <2>3, <2>5 DEF MemberInv, NoDuplicateBackend, Members
  <2>10. (\A t \in Slots : reader[t] = "none" <=> backends[t] = NoApp)'
    BY <2>1, <2>3, <2>6 DEF MemberInv
  <2>11. (\A b \in Apps : link[b] # "none" <=> setup[b] = "list" \/ \E t \in Slots : backends[t] = b)'
    BY <2>1, <2>3, <2>4, <2>5, AggregatorAssumption DEF MemberInv
  <2> QED
    BY <2>4, <2>5, <2>7, <2>8, <2>9, <2>10, <2>11 DEF MemberInv
<1>5. CASE connecting_remove(a)
  <2>1. /\ setup[a] \in {"joined", "failed"} /\ setup'[a] = "none" /\ connecting' = connecting \ {a}
        /\ \A b \in Apps \ {a} : setup'[b] = setup[b]
        /\ UNCHANGED <<backends, link, toApp, fromApp, serving, reader>>
    BY <1>0, <1>5 DEF connecting_remove, MemberTypes, linkVars, readerVars
  <2>2. (\A s \in Members : setup[backends[s]] \in {"none", "joined"})'
    <3>1. Members' = Members /\ \A s \in Members : backends[s] \in Apps
      BY <1>0, <2>1 DEF Members, MemberTypes
    <3> QED
      BY <2>1, <3>1 DEF MemberInv, Members
  <2> QED
    BY <2>1, <2>2 DEF MemberInv, Members, NoDuplicateBackend
<1> QED
  BY <1>1, <1>2, <1>3, <1>4, <1>5, Zenon DEF backend_setup

\* What a teardown does to the slot and to the connection.
LEMMA TeardownFacts ==
    ASSUME AllTypes, MemberInv, NEW s \in Slots, backend_teardown_locked(s)
    PROVE  /\ backends[s] \in Apps /\ reader[s] = "teardown" /\ lock = <<>>
           /\ backends'[s] = NoApp /\ reader'[s] = "none" /\ link'[backends[s]] = "none"
           /\ toApp'[backends[s]] = <<>> /\ fromApp'[backends[s]] = <<>>
           /\ serving'[backends[s]] = NoMsg
           /\ \A t \in Slots \ {s} : backends'[t] = backends[t] /\ reader'[t] = reader[t]
           /\ \A b \in Apps \ {backends[s]} :
                 /\ link'[b] = link[b] /\ toApp'[b] = toApp[b]
                 /\ fromApp'[b] = fromApp[b] /\ serving'[b] = serving[b]
           /\ inflight' = {fl \in inflight : fl.slot # s}
           /\ UNCHANGED <<held, next_local_id, lock, stdin, main, setup, connecting>>
<1>1. backends[s] \in Apps
  BY DEF backend_teardown_locked, AllTypes, MemberInv, MemberTypes
<1> QED
  BY <1>1 DEF backend_teardown_locked, FreeSlot, AllTypes, LinkTypes, MemberTypes, ReaderTypes, Unlocked,
              mainVars

\* A reader only leaves its slot in the teardown.
LEMMA MemberReader ==
    ASSUME AllTypes, MemberInv, NEW s \in Slots, Reader(s)
    PROVE  MemberInv'
<1>0. LinkTypes /\ MemberTypes /\ ReaderTypes
  BY DEF AllTypes
<1>1. UNCHANGED <<connecting, setup>>
  BY ReaderFrame
<1>2. CASE ReaderTop(s) \/ ReaderEOF(s) \/ ReaderLookup(s) \/ ReaderRelay(s) \/ ReaderApply(s) \/ ReaderEmit(s)
  <2>1. UNCHANGED <<backends, link, toApp, fromApp, serving>>
    BY <1>2 DEF ReaderTop, ReaderEOF, ReaderLookup, ReaderRelay, ReaderApply, ReaderEmit, linkVars, memberVars
  <2>2. reader[s] # "none" /\ reader'[s] # "none" /\ \A t \in Slots \ {s} : reader'[t] = reader[t]
    BY <1>0, <1>2 DEF ReaderTop, ReaderEOF, ReaderLookup, ReaderRelay, ReaderApply, ReaderEmit, ReaderTypes
  <2> QED
    BY <1>1, <2>1, <2>2, MemberKept
<1>3. CASE RefreshLost(s) \/ RefreshAlloc(s) \/ RefreshWriteFails(s)
  <2>1. UNCHANGED <<backends, link, toApp, fromApp, serving>>
    BY <1>3 DEF RefreshLost, RefreshAlloc, RefreshWriteFails, linkVars, memberVars
  <2>2. reader[s] # "none" /\ reader'[s] # "none" /\ \A t \in Slots \ {s} : reader'[t] = reader[t]
    BY <1>0, <1>3 DEF RefreshLost, RefreshAlloc, RefreshWriteFails, ReaderTypes
  <2> QED
    BY <1>1, <2>1, <2>2, MemberKept
<1>4. CASE ReaderRead(s) \/ RefreshWrite(s)
  <2>1. UNCHANGED <<backends, link, serving>>
    BY <1>4 DEF ReaderRead, RefreshWrite, memberVars
  <2>2. reader[s] # "none" /\ reader'[s] # "none" /\ \A t \in Slots \ {s} : reader'[t] = reader[t]
    BY <1>0, <1>4 DEF ReaderRead, RefreshWrite, ReaderTypes
  <2>3. backends[s] \in Apps /\ link[backends[s]] # "none"
    BY <1>0, <2>2 DEF MemberInv, MemberTypes
  <2>4. \A b \in Apps \ {backends[s]} : toApp'[b] = toApp[b] /\ fromApp'[b] = fromApp[b]
    BY <1>0, <1>4, <2>3 DEF ReaderRead, RefreshWrite, LinkTypes
  <2> QED
    BY <1>1, <2>1, <2>2, <2>3, <2>4, MemberKept
<1>5. CASE backend_teardown_locked(s)
  <2>1. \A t \in Slots \ {s} : backends[t] # backends[s]
    BY <1>5, TeardownFacts, AggregatorAssumption DEF MemberInv, NoDuplicateBackend, Members
  <2>2. setup[backends[s]] \in {"none", "joined"}
    BY <1>5, TeardownFacts, AggregatorAssumption DEF MemberInv, Members
  <2>3. (\A t \in Members : setup[backends[t]] \in {"none", "joined"})'
    BY <1>5, TeardownFacts, AggregatorAssumption DEF MemberInv, Members
  <2>4. NoDuplicateBackend'
    BY <1>5, TeardownFacts DEF MemberInv, NoDuplicateBackend, Members
  <2>5. (\A t \in Slots : reader[t] = "none" <=> backends[t] = NoApp)'
    BY <1>5, TeardownFacts DEF MemberInv
  <2>6. (\A b \in Apps : link[b] # "none" <=> setup[b] = "list" \/ \E t \in Slots : backends[t] = b)'
    BY <1>5, <2>1, <2>2, TeardownFacts, AggregatorAssumption DEF MemberInv
  <2>7. (\A b \in Apps : b \in connecting <=> setup[b] # "none")'
    BY <1>1 DEF MemberInv
  <2>8. (\A b \in Apps : link[b] = "none" => toApp[b] = <<>> /\ fromApp[b] = <<>> /\ serving[b] = NoMsg)'
    BY <1>5, TeardownFacts DEF MemberInv, NoMsg, Msg
  <2> QED
    BY <2>3, <2>4, <2>5, <2>6, <2>7, <2>8 DEF MemberInv
<1> QED
  BY <1>2, <1>3, <1>4, <1>5, Zenon DEF Reader

\* Every step keeps membership: an app has one slot at most.
LEMMA MemberStep ==
    ASSUME AllTypes, MemberInv, LockInv, TableInv, Next
    PROVE  MemberInv'
<1>0. LinkTypes /\ MemberTypes /\ ReaderTypes
  BY DEF AllTypes
<1>1. CASE Main
  <2>1. UNCHANGED <<connecting, setup, backends, reader, link, fromApp, serving>>
    BY <1>1, MainFrame
  <2>2. \A a \in Apps : link[a] = "none" => toApp'[a] = toApp[a]
    <3>1. CASE CallWrite
      <4> DEFINE b == Head(stdin).target
      <4>1. link[b] = "open" /\ toApp' = [toApp EXCEPT ![b] = Append(@, Msg("call", next_local_id, Head(stdin).id, 0))]
        BY <3>1 DEF CallWrite
      <4> HIDE DEF b
      <4> QED
        BY <1>0, <4>1 DEF LinkTypes
    <3>2. CASE ~CallWrite
      BY <1>1, <3>2 DEF Main, HandleInitialize, HandleToolsList, WriteToolsList, CallAnsweredHere,
                        CallAlloc, CallWriteFails, linkVars
    <3> QED
      BY <3>1, <3>2
  <2> QED
    BY <2>1, <2>2, MemberKept
<1>2. CASE poll_thread
  <2>1. PICK taken \in SUBSET {a \in Apps : ~backend_known(a)} :
             /\ connecting' = connecting \cup taken
             /\ setup' = [a \in Apps |-> IF a \in taken THEN "connect" ELSE setup[a]]
    BY <1>2 DEF poll_thread
  <2>2. \A a \in taken : a \in Apps /\ setup[a] = "none" /\ \A s \in Slots : backends[s] # a
    BY <2>1 DEF backend_known, MemberInv
  <2>3. UNCHANGED <<backends, reader, link, toApp, fromApp, serving>>
    BY <1>2, PollFrame
  <2>4. /\ \A a \in taken : setup'[a] = "connect"
        /\ \A a \in Apps \ taken : setup'[a] = setup[a]
    BY <2>1
  <2>5. (\A s \in Members : setup[backends[s]] \in {"none", "joined"})'
    <3>1. \A s \in Members : backends[s] \in Apps \ taken
      BY <1>0, <2>2 DEF Members, MemberTypes
    <3> QED
      BY <2>3, <2>4, <3>1 DEF MemberInv, Members
  <2> QED
    BY <2>1, <2>2, <2>3, <2>4, <2>5 DEF MemberInv, Members, NoDuplicateBackend
<1>3. CASE emit_list_changed_upstream
  BY <1>3, EmitFrame, MemberKept
<1>4. CASE AgentStep
  BY <1>4, AgentFrame, MemberKept
<1>5. ASSUME NEW a \in Apps, AppStep(a)
      PROVE  MemberInv'
  <2>1. UNCHANGED <<connecting, setup, backends, reader>>
    BY <1>5, AppFrame
  <2>2. CASE AppStart(a) \/ AppHang(a)
    BY <2>1, <2>2, MemberKept DEF AppStart, AppHang, linkVars
  <2>3. CASE AppDies(a) \/ AppHangsUp(a)
    <3>1. /\ toApp'[a] = <<>> /\ serving'[a] = NoMsg /\ link'[a] = IF link[a] = "open" THEN "closed" ELSE link[a]
          /\ \A b \in Apps \ {a} : toApp'[b] = toApp[b] /\ serving'[b] = serving[b] /\ link'[b] = link[b]
          /\ UNCHANGED fromApp
      BY <1>0, <2>3 DEF AppDies, AppHangsUp, Closed, LinkTypes
    <3> QED
      BY <2>1, <3>1, MemberKept
  <2>4. CASE AppServes(a) \/ AppReplies(a)
    <3>1. link[a] # "none" /\ link' = link
      BY <2>4 DEF AppServes, AppReplies, MemberInv
    <3>2. \A b \in Apps \ {a} : toApp'[b] = toApp[b] /\ serving'[b] = serving[b] /\ fromApp'[b] = fromApp[b]
      BY <1>0, <2>4 DEF AppServes, AppReplies, LinkTypes
    <3> QED
      BY <2>1, <3>1, <3>2, MemberKept
  <2>5. CASE AppChanges(a)
    <3>1. UNCHANGED <<link, toApp, serving>> /\ \A b \in Apps : link[b] = "none" => fromApp'[b] = fromApp[b]
      BY <1>0, <2>5 DEF AppChanges, LinkTypes
    <3> QED
      BY <2>1, <3>1, MemberKept
  <2> QED
    BY <1>5, <2>2, <2>3, <2>4, <2>5, Zenon DEF AppStep, AppWorks
<1> QED
  BY <1>1, <1>2, <1>3, <1>4, <1>5, AggregatorSteps, MemberSetup, MemberReader

(***************************************************************************)
(* The in-flight table and the lock                                        *)
(***************************************************************************)
\* The table may lose entries, or its backends stay.
LEMMA TableKept ==
    ASSUME TableInv, TableTypes, inflight' \subseteq inflight, next_local_id' = next_local_id,
           \A fl \in inflight' : backends'[fl.slot] = backends[fl.slot]
    PROVE  TableInv'
  BY DEF TableInv

\* A new entry has a new id.
LEMMA TableEntered ==
    ASSUME TableInv, AllTypes, NEW s \in Members, NEW kind \in {"agent", "refresh"},
           NEW orig \in AgentIds \cup {0}, orig \in AgentIds <=> kind = "agent",
           inflight_alloc(s, kind, orig), backends' = backends
    PROVE  TableInv'
<1> DEFINE e == [lid |-> next_local_id + 1, slot |-> s, kind |-> kind, orig |-> orig, of |-> backends[s]]
<1>1. inflight' = inflight \cup {e} /\ next_local_id' = next_local_id + 1 /\ next_local_id \in Nat
  BY DEF inflight_alloc, AllTypes, TableTypes
<1>2. e.lid = next_local_id + 1 /\ e.slot = s /\ e.kind = kind /\ e.orig = orig /\ e.of = backends[s]
  OBVIOUS
<1> HIDE DEF e
<1>3. \A fl \in inflight : fl.lid \in 1..next_local_id /\ backends[fl.slot] = fl.of
  BY DEF TableInv
<1> QED
  BY <1>1, <1>2, <1>3 DEF TableInv

\* What a call that is entered adds to the table.
LEMMA CallEntered ==
    ASSUME AllTypes, CallAlloc
    PROVE  /\ Min(Target) \in Members /\ backends[Min(Target)] = Head(stdin).target
           /\ Head(stdin).id \in AgentIds /\ inflight_alloc(Min(Target), "agent", Head(stdin).id)
           /\ stdin # <<>> /\ Head(stdin).type = "call" /\ lock = <<>> /\ lock' = <<"main">>
           /\ main = "idle" /\ main' = "write"
           /\ UNCHANGED <<linkVars, memberVars, readerVars, agentVars>>
<1>1. Target \in SUBSET Slots /\ Target # {}
  BY DEF CallAlloc, Target, Members
<1>2. Min(Target) \in Target
  BY <1>1, FirstIsMember
<1>3. stdin # <<>> /\ Head(stdin).type = "call"
  BY DEF CallAlloc, Requested
<1>4. Head(stdin).id \in AgentIds
  BY <1>3, AnswerTypes, CallType DEF AllTypes
<1> QED
  BY <1>2, <1>3, <1>4 DEF CallAlloc, Target, Requested, Unlocked

\* What a refresh that is entered adds.
LEMMA RefreshEntered ==
    ASSUME AllTypes, MemberInv, NEW s \in Slots, RefreshAlloc(s)
    PROVE  /\ s \in Members /\ inflight_alloc(s, "refresh", 0) /\ lock = <<>> /\ lock' = <<"reader", s>>
           /\ reader[s] = "refresh" /\ reader'[s] = "write" /\ held'[s] = NoHold
           /\ \A t \in Slots \ {s} : reader'[t] = reader[t] /\ held'[t] = held[t]
           /\ UNCHANGED <<linkVars, memberVars, mainVars, agentVars>>
  BY AggregatorAssumption
     DEF RefreshAlloc, AllTypes, ReaderTypes, MemberInv, Members, Unlocked

\* Every step keeps the table.
LEMMA TableStep ==
    ASSUME AllTypes, MemberInv, TableInv, Next
    PROVE  TableInv'
<1>0. TableTypes /\ MemberTypes
  BY DEF AllTypes
<1>1. CASE CallAlloc
  BY <1>1, CallEntered, TableEntered DEF memberVars
<1>2. ASSUME NEW s \in Slots, RefreshAlloc(s)
      PROVE  TableInv'
  BY <1>2, RefreshEntered, TableEntered, AggregatorNumbers DEF memberVars
<1>3. CASE Main /\ ~CallAlloc
  <2>1. inflight' \subseteq inflight /\ next_local_id' = next_local_id
    BY <1>3 DEF Main, HandleInitialize, HandleToolsList, WriteToolsList, CallAnsweredHere, CallWrite,
                CallWriteFails, tableVars
  <2> QED
    BY <1>0, <1>3, <2>1, MainFrame, TableKept
<1>4. ASSUME NEW s \in Slots, Reader(s), ~RefreshAlloc(s)
      PROVE  TableInv'
  <2>1. CASE backend_teardown_locked(s)
    <3>1. \A fl \in inflight : fl.slot \in Slots
      BY <1>0 DEF TableTypes, Entries
    <3> QED
      BY <1>0, <2>1, <3>1, TeardownFacts, TableKept
  <2>2. CASE ~backend_teardown_locked(s)
    <3>1. inflight' \subseteq inflight /\ UNCHANGED <<next_local_id, backends>>
      BY <1>4, <2>2 DEF Reader, ReaderTop, ReaderRead, ReaderEOF, ReaderLookup, ReaderRelay, ReaderApply,
                        ReaderEmit, RefreshLost, RefreshWrite, RefreshWriteFails, tableVars, memberVars
    <3> QED
      BY <1>0, <3>1, TableKept
  <2> QED
    BY <2>1, <2>2
<1>5. ASSUME NEW a \in Apps, backend_setup(a)
      PROVE  TableInv'
  <2>1. UNCHANGED <<inflight, next_local_id>>
    BY <1>5, SetupFrame
  <2>2. \A s \in Slots : backends[s] # NoApp => backends'[s] = backends[s]
    <3>1. CASE SetupRegister(a)
      <4>1. FreeSlots \in SUBSET Slots /\ FreeSlots # {}
        BY <3>1 DEF FreeSlots, SetupRegister
      <4>2. Min(FreeSlots) \in FreeSlots
        BY <4>1, FirstIsMember
      <4> QED
        BY <1>0, <3>1, <4>2 DEF SetupRegister, FreeSlots, Members, MemberTypes
    <3>2. CASE ~SetupRegister(a)
      BY <1>5, <3>2 DEF backend_setup, SetupConnect, SetupSkip, SetupFails, SetupNoSlot, connecting_remove,
                        memberVars
    <3> QED
      BY <3>1, <3>2
  <2>3. \A fl \in inflight : fl.slot \in Slots /\ backends[fl.slot] # NoApp
    BY <1>0, AggregatorAssumption DEF TableTypes, Entries, TableInv
  <2> QED
    BY <1>0, <2>1, <2>2, <2>3, TableKept
<1>6. CASE poll_thread
  BY <1>0, <1>6, PollFrame, TableKept
<1>7. CASE emit_list_changed_upstream
  BY <1>0, <1>7, EmitFrame, TableKept
<1>8. CASE AgentStep
  BY <1>0, <1>8, AgentFrame, TableKept
<1>9. ASSUME NEW a \in Apps, AppStep(a)
      PROVE  TableInv'
  BY <1>0, <1>9, AppFrame, TableKept
<1> QED
  BY <1>1, <1>2, <1>3, <1>4, <1>5, <1>6, <1>7, <1>8, <1>9, AggregatorSteps

\* Away from the lock, the table, main and the head of stdin, all is kept.
LEMMA LockKept ==
    ASSUME LockInv, UNCHANGED <<lock, inflight, next_local_id, main>>,
           \A s \in Slots : reader'[s] = "write" <=> reader[s] = "write",
           stdin # <<>> => stdin' # <<>> /\ Head(stdin') = Head(stdin)
    PROVE  LockInv'
  BY DEF LockInv

\* So it is when nobody holds the lock, before and after.
LEMMA LockFree ==
    ASSUME lock' = <<>>, main' # "write", \A s \in Slots : reader'[s] # "write",
           main' = "list" => stdin' # <<>> /\ Head(stdin').type = "tools/list"
    PROVE  LockInv'
  BY DEF LockInv

\* A lock that is held is not free.
LEMMA LockTaken == <<"main">> # <<>> /\ \A s : <<"reader", s>> # <<>>
<1>1. Len(<<"main">>) = 1 /\ Len(<<>>) = 0 /\ \A s : Len(<<"reader", s>>) = 2
  OBVIOUS
<1> QED
  BY <1>1

\* The holder of the lock is the one thread that writes.
LEMMA LockHolder ==
    ASSUME LockInv
    PROVE  /\ lock = <<>> => main # "write" /\ \A s \in Slots : reader[s] # "write"
           /\ main = "write" => lock = <<"main">> /\ \A s \in Slots : reader[s] # "write"
           /\ \A s \in Slots : reader[s] = "write" =>
                 /\ lock = <<"reader", s>> /\ main # "write"
                 /\ \A t \in Slots \ {s} : reader[t] # "write"
  BY DEF LockInv

\* The main thread keeps the discipline of the lock.
LEMMA LockMain ==
    ASSUME AllTypes, LockInv, Main
    PROVE  LockInv'
<1>0. reader' = reader
  BY MainFrame
<1>1. CASE HandleInitialize \/ HandleToolsList \/ CallAnsweredHere
  BY <1>0, <1>1, LockHolder, LockFree
     DEF HandleInitialize, HandleToolsList, CallAnsweredHere, Requested, Unlocked, mainVars, agentVars
<1>2. CASE WriteToolsList
  <2>1. /\ main = "list" /\ main' = "idle" /\ UNCHANGED <<lock, inflight, next_local_id>>
    BY <1>2 DEF WriteToolsList, tableVars
  <2> QED
    BY <1>0, <2>1 DEF LockInv
<1>3. CASE CallAlloc
  <2> DEFINE e == [lid |-> next_local_id + 1, slot |-> Min(Target), kind |-> "agent",
                   orig |-> Head(stdin).id, of |-> backends[Min(Target)]]
  <2>1. e \in inflight' /\ next_local_id' = next_local_id + 1
    BY <1>3, CallEntered DEF inflight_alloc
  <2>2. /\ e.lid = next_local_id' /\ e.kind = "agent" /\ e.orig = Head(stdin).id
        /\ e.of = Head(stdin).target
    BY <1>3, <2>1, CallEntered
  <2>3. /\ lock = <<>> /\ lock' = <<"main">> /\ main' = "write" /\ stdin' = stdin
        /\ stdin # <<>> /\ Head(stdin).type = "call"
    BY <1>3, CallEntered DEF agentVars
  <2>4. \A s \in Slots : reader'[s] # "write"
    BY <1>0, <2>3, LockHolder
  <2> HIDE DEF e
  <2> QED
    BY <2>1, <2>2, <2>3, <2>4 DEF LockInv
<1>4. CASE CallWrite \/ CallWriteFails
  BY <1>0, <1>4, LockHolder, LockFree DEF CallWrite, CallWriteFails
<1> QED
  BY <1>1, <1>2, <1>3, <1>4, Zenon DEF Main

\* So do the readers.
LEMMA LockReader ==
    ASSUME AllTypes, MemberInv, LockInv, NEW s \in Slots, Reader(s)
    PROVE  LockInv'
<1>0. UNCHANGED <<main, stdin>> /\ ReaderTypes
  BY ReaderFrame DEF AllTypes
<1>1. CASE ReaderTop(s) \/ ReaderEOF(s) \/ ReaderRelay(s) \/ ReaderApply(s) \/ ReaderEmit(s) \/ RefreshLost(s)
  <2>1. UNCHANGED <<lock, inflight, next_local_id>>
    BY <1>1 DEF ReaderTop, ReaderEOF, ReaderRelay, ReaderApply, ReaderEmit, RefreshLost, tableVars
  <2>2. \A t \in Slots : reader'[t] = "write" <=> reader[t] = "write"
    BY <1>0, <1>1 DEF ReaderTop, ReaderEOF, ReaderRelay, ReaderApply, ReaderEmit, RefreshLost, ReaderTypes
  <2> QED
    BY <1>0, <2>1, <2>2, LockKept
<1>2. CASE ReaderRead(s)
  <2>1. UNCHANGED <<lock, inflight, next_local_id>>
    BY <1>2 DEF ReaderRead, tableVars
  <2>2. \A t \in Slots : reader'[t] = "write" <=> reader[t] = "write"
    BY <1>0, <1>2 DEF ReaderRead, ReaderTypes
  <2> QED
    BY <1>0, <2>1, <2>2, LockKept
<1>3. CASE ReaderLookup(s)
  <2>1. lock = <<>> /\ lock' = <<>>
    BY <1>3 DEF ReaderLookup, Unlocked
  <2>2. \A t \in Slots : reader'[t] = "write" => reader[t] = "write"
    BY <1>0, <1>3 DEF ReaderLookup, ReaderTypes
  <2> QED
    BY <1>0, <2>1, <2>2, LockFree, LockHolder DEF LockInv
<1>4. CASE RefreshAlloc(s)
  <2> DEFINE e == [lid |-> next_local_id + 1, slot |-> s, kind |-> "refresh",
                   orig |-> 0, of |-> backends[s]]
  <2>1. e \in inflight' /\ next_local_id' = next_local_id + 1
    BY <1>4, RefreshEntered DEF inflight_alloc
  <2>2. e.lid = next_local_id' /\ e.kind = "refresh" /\ e.slot = s
    BY <2>1
  <2>3. main # "write" /\ lock' = <<"reader", s>> /\ reader'[s] = "write"
    BY <1>4, RefreshEntered, LockHolder
  <2>4. \A t \in Slots \ {s} : reader'[t] # "write"
    BY <1>4, RefreshEntered, LockHolder
  <2> HIDE DEF e
  <2> QED
    BY <1>0, <2>1, <2>2, <2>3, <2>4 DEF LockInv
<1>5. CASE RefreshWrite(s) \/ RefreshWriteFails(s)
  <2>1. /\ reader[s] = "write" /\ lock' = <<>> /\ reader'[s] = "top"
        /\ \A t \in Slots \ {s} : reader'[t] = reader[t]
    BY <1>0, <1>5 DEF RefreshWrite, RefreshWriteFails, ReaderTypes
  <2> QED
    BY <1>0, <2>1, LockFree, LockHolder DEF LockInv
<1>6. CASE backend_teardown_locked(s)
  <2>1. \A t \in Slots : reader'[t] # "write"
    BY <1>6, TeardownFacts, LockHolder
  <2> QED
    BY <1>0, <1>6, <2>1, TeardownFacts, LockFree, LockHolder DEF LockInv
<1> QED
  BY <1>1, <1>2, <1>3, <1>4, <1>5, <1>6, Zenon DEF Reader

\* Every step does.
LEMMA LockStep ==
    ASSUME AllTypes, MemberInv, LockInv, Next
    PROVE  LockInv'
<1>0. ReaderTypes /\ stdin \in Seq(Requests)
  BY DEF AllTypes, MainTypes
<1>1. ASSUME NEW a \in Apps, backend_setup(a)
      PROVE  LockInv'
  <2>1. UNCHANGED <<lock, inflight, next_local_id, main, stdin>>
    BY <1>1, SetupFrame
  <2>2. \A s \in Slots : reader'[s] = "write" <=> reader[s] = "write"
    <3>1. CASE SetupRegister(a)
      <4>1. FreeSlots \in SUBSET Slots /\ FreeSlots # {}
        BY <3>1 DEF FreeSlots, SetupRegister
      <4>2. Min(FreeSlots) \in FreeSlots
        BY <4>1, FirstIsMember
      <4>3. reader[Min(FreeSlots)] = "none"
        BY <4>2 DEF FreeSlots, MemberInv, Members
      <4> QED
        BY <1>0, <3>1, <4>2, <4>3 DEF SetupRegister, FreeSlots, ReaderTypes
    <3>2. CASE ~SetupRegister(a)
      BY <1>1, <3>2 DEF backend_setup, SetupConnect, SetupSkip, SetupFails, SetupNoSlot, connecting_remove,
                        readerVars
    <3> QED
      BY <3>1, <3>2
  <2> QED
    BY <2>1, <2>2, LockKept
<1>2. CASE poll_thread
  BY <1>2, PollFrame, LockKept
<1>3. CASE emit_list_changed_upstream
  BY <1>3, EmitFrame, LockKept
<1>4. CASE AgentStep
  <2>1. \A m \in Requests : stdin # <<>> => Append(stdin, m) # <<>> /\ Head(Append(stdin, m)) = Head(stdin)
    BY <1>0
  <2>2. \E m \in Requests : stdin' = Append(stdin, m)
    <3>1. CASE AgentLists
      BY <3>1 DEF AgentLists, Requests
    <3>2. ASSUME NEW id \in AgentIds, NEW target \in Apps \cup {Workspace}, AgentCalls(id, target)
          PROVE  stdin' = Append(stdin, [type |-> "call", id |-> id, target |-> target])
      BY <3>2 DEF AgentCalls
    <3> QED
      BY <1>4, <3>1, <3>2 DEF AgentStep, Requests
  <2> QED
    BY <1>4, <2>1, <2>2, AgentFrame, LockKept
<1>5. ASSUME NEW a \in Apps, AppStep(a)
      PROVE  LockInv'
  BY <1>5, AppFrame, LockKept
<1> QED
  BY <1>1, <1>2, <1>3, <1>4, <1>5, AggregatorSteps, LockMain, LockReader

(***************************************************************************)
(* The frames under way                                                    *)
(***************************************************************************)
\* How a step may change the table: entries leave it, or one with the next id
\* comes while nobody holds the lock.
TableMove ==
    \/ inflight' \subseteq inflight /\ next_local_id' = next_local_id /\ lock' \in {lock, <<>>}
    \/ \E e : /\ inflight' = inflight \cup {e} /\ e.lid = next_local_id + 1
              /\ next_local_id' = next_local_id + 1 /\ lock = <<>>

\* Every step changes the table in this way.
LEMMA TableMoves ==
    ASSUME Next
    PROVE  TableMove
<1>1. ASSUME NEW s, NEW kind, NEW orig, inflight_alloc(s, kind, orig), lock = <<>>
      PROVE  TableMove
  <2> DEFINE e == [lid |-> next_local_id + 1, slot |-> s, kind |-> kind, orig |-> orig, of |-> backends[s]]
  <2>1. inflight' = inflight \cup {e} /\ next_local_id' = next_local_id + 1 /\ e.lid = next_local_id + 1
    BY <1>1 DEF inflight_alloc
  <2> HIDE DEF e
  <2> QED
    BY <1>1, <2>1 DEF TableMove
<1>2. CASE Main
  <2>1. CASE CallAlloc
    BY <1>1, <2>1 DEF CallAlloc, Unlocked
  <2>2. CASE ~CallAlloc
    BY <1>2, <2>2 DEF Main, HandleInitialize, HandleToolsList, WriteToolsList, CallAnsweredHere, CallWrite,
                CallWriteFails, tableVars, TableMove
  <2> QED
    BY <2>1, <2>2
<1>3. ASSUME NEW s \in Slots, Reader(s)
      PROVE  TableMove
  <2>1. CASE RefreshAlloc(s)
    BY <1>1, <2>1 DEF RefreshAlloc, Unlocked
  <2>2. CASE ~RefreshAlloc(s)
    BY <1>3, <2>2 DEF Reader, ReaderTop, ReaderRead, ReaderEOF, ReaderLookup, ReaderRelay, ReaderApply,
                      ReaderEmit, RefreshLost, RefreshWrite, RefreshWriteFails, tableVars, TableMove,
                      backend_teardown_locked, FreeSlot
  <2> QED
    BY <2>1, <2>2
<1>4. CASE poll_thread \/ emit_list_changed_upstream \/ AgentStep
  BY <1>4, PollFrame, EmitFrame, AgentFrame DEF TableMove
<1>5. ASSUME NEW a \in Apps, backend_setup(a) \/ AppStep(a)
      PROVE  TableMove
  BY <1>5, SetupFrame, AppFrame DEF TableMove
<1> QED
  BY <1>2, <1>3, <1>4, <1>5, AggregatorSteps

\* A frame that matched the table before a step does so after it.
LEMMA FrameKept ==
    ASSUME TableTypes, TableMove
    PROVE  \A m \in Frames : \A a : FrameOf(m, a) => FrameOf(m, a)'
<1> SUFFICES ASSUME NEW m \in Frames, NEW a, FrameOf(m, a) PROVE FrameOf(m, a)'
  OBVIOUS
<1>1. m.lid \in Nat /\ next_local_id \in Nat
  BY DEF TableTypes, Frames
<1>2. CASE inflight' \subseteq inflight /\ next_local_id' = next_local_id /\ lock' \in {lock, <<>>}
  BY <1>2 DEF FrameOf, Matches, Unlocked
<1>3. ASSUME NEW e, inflight' = inflight \cup {e}, e.lid = next_local_id + 1,
             next_local_id' = next_local_id + 1
      PROVE  FrameOf(m, a)'
  BY <1>1, <1>3 DEF FrameOf, Matches, Unlocked
<1> QED
  BY <1>2, <1>3 DEF TableMove

\* A frame without an id of the table matches it.
LEMMA ZeroFrame ==
    ASSUME TableTypes, TableInv, LockInv, lock \in {<<>>, <<"main">>} \cup ({"reader"} \X Slots),
           NEW m \in Frames, NEW a, m.lid = 0, m.type # "call", m.id = 0
    PROVE  FrameOf(m, a)
<1>1. \A fl \in inflight : fl.lid \in 1..next_local_id
  BY DEF TableInv
<1>2. next_local_id \in Nat
  BY DEF TableTypes
<1>3. lock # <<>> => next_local_id # 0
  <2>1. lock = <<"main">> => \E fl \in inflight : fl.lid = next_local_id
    BY DEF LockInv
  <2>2. \A s \in Slots : lock = <<"reader", s>> => \E fl \in inflight : fl.lid = next_local_id
    BY DEF LockInv
  <2>3. lock = <<>> \/ lock = <<"main">> \/ \E s \in Slots : lock = <<"reader", s>>
    OBVIOUS
  <2> QED
    BY <1>1, <1>2, <2>1, <2>2, <2>3
<1> QED
  BY <1>1, <1>2, <1>3 DEF FrameOf, Matches, Unlocked

\* If all that is under way after a step matched the table before it, it still does.
LEMMA LinkKept ==
    ASSUME AllTypes, AllTypes', TableMove,
           \A a \in Apps :
              /\ Framed(serving'[a], a, {"none", "call", "list"})
              /\ \A m \in Elems(toApp'[a]) : Framed(m, a, {"call", "list"})
              /\ \A m \in Elems(fromApp'[a]) : Framed(m, a, {"reply", "changed"})
    PROVE  LinkInv'
<1>1. \A a \in Apps : /\ serving'[a] \in Frames
                      /\ Elems(toApp'[a]) \subseteq Frames /\ Elems(fromApp'[a]) \subseteq Frames
  <2>1. \A a \in Apps : serving'[a] \in Frames /\ toApp'[a] \in Seq(Frames) /\ fromApp'[a] \in Seq(Frames)
    BY DEF AllTypes, LinkTypes
  <2> QED
    BY <2>1, QueueFacts
<1>2. \A m \in Frames : \A a : FrameOf(m, a) => FrameOf(m, a)'
  BY FrameKept DEF AllTypes
<1>3. \A m \in Frames : \A a, types : Framed(m, a, types) => Framed(m, a, types)'
  BY <1>2 DEF Framed
<1> SUFFICES ASSUME NEW a \in Apps
             PROVE  /\ Framed(serving[a], a, {"none", "call", "list"})'
                    /\ \A m \in Elems(toApp[a])' : Framed(m, a, {"call", "list"})'
                    /\ \A m \in Elems(fromApp[a])' : Framed(m, a, {"reply", "changed"})'
  BY DEF LinkInv
<1>4. Framed(serving[a], a, {"none", "call", "list"})'
  <2>1. PICK m \in Frames : m = serving'[a]
    BY <1>1
  <2>2. Framed(m, a, {"none", "call", "list"})
    BY <2>1
  <2>3. Framed(m, a, {"none", "call", "list"})'
    BY <1>3, <2>2
  <2> QED
    BY <2>1, <2>3 DEF Framed, FrameOf, Matches, Unlocked
<1>5. Elems(toApp[a])' = Elems(toApp'[a]) /\ Elems(fromApp[a])' = Elems(fromApp'[a])
  BY DEF Elems
<1>6. \A m \in Elems(toApp[a])' : Framed(m, a, {"call", "list"})'
  BY <1>1, <1>3, <1>5
<1>7. \A m \in Elems(fromApp[a])' : Framed(m, a, {"reply", "changed"})'
  BY <1>1, <1>3, <1>5
<1> QED
  BY <1>4, <1>6, <1>7

\* Frames may leave a connection.
LEMMA LinkLess ==
    ASSUME AllTypes, AllTypes', TableInv, LockInv, LinkInv, TableMove,
           \A a \in Apps :
              /\ serving'[a] \in {serving[a], NoMsg} /\ toApp'[a] \in {toApp[a], <<>>}
              /\ \/ fromApp'[a] \in {fromApp[a], <<>>}
                 \/ fromApp[a] # <<>> /\ fromApp'[a] = Tail(fromApp[a])
    PROVE  LinkInv'
<1>1. NoMsg \in Frames /\ NoMsg.lid = 0 /\ NoMsg.type = "none" /\ NoMsg.id = 0
  <2>1. NoMsg \in Frames
    BY FrameTypes DEF AllTypes
  <2> QED
    BY <2>1 DEF NoMsg, Msg
<1>2. \A a \in Apps : Framed(NoMsg, a, {"none", "call", "list"})
  BY <1>1, ZeroFrame DEF AllTypes, MainTypes, Framed
<1>3. \A a \in Apps : Elems(toApp'[a]) \subseteq Elems(toApp[a])
  BY EmptyQueue
<1>4. \A a \in Apps : Elems(fromApp'[a]) \subseteq Elems(fromApp[a])
  <2>1. \A a \in Apps : fromApp[a] \in Seq(Frames)
    BY DEF AllTypes, LinkTypes
  <2>2. \A a \in Apps : fromApp[a] # <<>> => Elems(Tail(fromApp[a])) \subseteq Elems(fromApp[a])
    BY <2>1, QueueFacts
  <2> QED
    BY <2>2, EmptyQueue
<1>5. \A a \in Apps :
        /\ Framed(serving'[a], a, {"none", "call", "list"})
        /\ \A m \in Elems(toApp'[a]) : Framed(m, a, {"call", "list"})
        /\ \A m \in Elems(fromApp'[a]) : Framed(m, a, {"reply", "changed"})
  BY <1>2, <1>3, <1>4 DEF LinkInv
<1> QED
  BY <1>5, LinkKept

\* A request that is written matches the entry just made for it.
LEMMA LinkWritten ==
    ASSUME AllTypes, TableInv, LinkInv, LockInv, NEW b \in Apps, NEW m \in Frames,
           m.lid = next_local_id, m.type \in {"call", "list"}, m.type = "call" <=> m.id # 0,
           \E fl \in inflight : fl.lid = m.lid /\ fl.orig = m.id /\ fl.of = b,
           toApp' = [toApp EXCEPT ![b] = Append(@, m)], lock # <<>>, lock' = <<>>,
           UNCHANGED <<serving, fromApp, inflight, next_local_id>>
    PROVE  LinkInv' /\ FrameOf(m, b)'
<1>1. FrameOf(m, b)'
  <2>1. \A fl \in inflight : fl.lid = m.lid => fl.orig = m.id /\ fl.of = b
    BY DEF TableInv
  <2>2. next_local_id \in Nat
    BY DEF AllTypes, TableTypes
  <2> QED
    BY <2>1, <2>2 DEF FrameOf, Matches, Unlocked
<1>2. \A n, a : FrameOf(n, a) => FrameOf(n, a)'
  BY DEF FrameOf, Matches, Unlocked
<1>3. \A n, a, types : Framed(n, a, types) => Framed(n, a, types)'
  BY <1>2 DEF Framed
<1>4. /\ Elems(toApp'[b]) = Elems(toApp[b]) \cup {m}
      /\ \A a \in Apps \ {b} : toApp'[a] = toApp[a]
  <2>1. toApp[b] \in Seq(Frames) /\ toApp \in [Apps -> Seq(Frames)]
    BY DEF AllTypes, LinkTypes
  <2> QED
    BY <2>1, QueueFacts
<1> SUFFICES ASSUME NEW a \in Apps
             PROVE  /\ Framed(serving[a], a, {"none", "call", "list"})'
                    /\ \A n \in Elems(toApp[a])' : Framed(n, a, {"call", "list"})'
                    /\ \A n \in Elems(fromApp[a])' : Framed(n, a, {"reply", "changed"})'
  BY <1>1 DEF LinkInv
<1>5. Framed(serving[a], a, {"none", "call", "list"})'
  <2>1. PICK n : n = serving[a]
    OBVIOUS
  <2>2. Framed(n, a, {"none", "call", "list"})'
    BY <1>3, <2>1 DEF LinkInv
  <2> QED
    BY <2>1, <2>2 DEF Framed, FrameOf, Matches, Unlocked
<1>6. Elems(toApp[a])' = Elems(toApp'[a]) /\ Elems(fromApp[a])' = Elems(fromApp[a])
  BY DEF Elems
<1>7. Framed(m, b, {"call", "list"})'
  BY <1>1 DEF Framed
<1>8. \A n \in Elems(toApp[a])' : Framed(n, a, {"call", "list"})'
  BY <1>3, <1>4, <1>6, <1>7 DEF LinkInv
<1>9. \A n \in Elems(fromApp[a])' : Framed(n, a, {"reply", "changed"})'
  BY <1>3, <1>6 DEF LinkInv
<1> QED
  BY <1>5, <1>8, <1>9

\* The call that the main thread writes.
LEMMA CallWritten ==
    ASSUME AllTypes, TableInv, LinkInv, LockInv, CallWrite
    PROVE  LinkInv'
<1> DEFINE a == Head(stdin).target
           m == Msg("call", next_local_id, Head(stdin).id, 0)
<1>1. main = "write" /\ stdin # <<>> /\ Head(stdin).type = "call" /\ lock # <<>>
  <2>1. main = "write" /\ stdin # <<>> /\ Head(stdin).type = "call" /\ lock = <<"main">>
    BY DEF CallWrite, LockInv
  <2> QED
    BY <2>1, LockTaken
<1>2. PICK fl \in inflight : /\ fl.lid = next_local_id /\ fl.orig = Head(stdin).id /\ fl.of = a
  BY <1>1 DEF LockInv
<1>3. a \in Apps /\ Head(stdin).id \in AgentIds /\ next_local_id \in Nat
  <2>1. fl.of \in Apps /\ next_local_id \in Nat
    BY DEF AllTypes, TableTypes, Entries
  <2>2. Head(stdin).id \in AgentIds
    BY <1>1, AnswerTypes, CallType DEF AllTypes
  <2> QED
    BY <1>2, <2>1, <2>2
<1>4. /\ m.lid = next_local_id /\ m.id = Head(stdin).id /\ m.type = "call"
      /\ m \in Frames
  <2>1. m \in Frames
    BY <1>3, FrameTypes DEF AllTypes
  <2> QED
    BY <2>1 DEF Msg
<1>5. /\ toApp' = [toApp EXCEPT ![a] = Append(@, m)] /\ lock' = <<>>
      /\ UNCHANGED <<serving, fromApp, inflight, next_local_id>>
  BY DEF CallWrite, tableVars
<1> HIDE DEF a, m
<1>6. m.id # 0
  BY <1>3, <1>4, AggregatorNumbers
<1> QED
  BY <1>1, <1>2, <1>3, <1>4, <1>5, <1>6, LinkWritten

\* The request of a refresh that a reader writes.
LEMMA RefreshWritten ==
    ASSUME AllTypes, MemberInv, TableInv, LinkInv, LockInv, NEW s \in Slots, RefreshWrite(s)
    PROVE  LinkInv'
<1> DEFINE a == backends[s]
           m == Msg("list", next_local_id, 0, 0)
<1>1. reader[s] = "write" /\ lock # <<>> /\ a \in Apps
  <2>1. reader[s] = "write" /\ lock = <<"reader", s>>
    BY DEF RefreshWrite, LockInv
  <2>2. a \in Apps
    BY <2>1 DEF MemberInv, AllTypes, MemberTypes
  <2> QED
    BY <2>1, <2>2, LockTaken
<1>2. PICK fl \in inflight : fl.lid = next_local_id /\ fl.kind = "refresh" /\ fl.slot = s
  BY <1>1 DEF LockInv
<1>3. fl.orig = 0 /\ fl.of = a /\ next_local_id \in Nat
  <2>1. fl.orig \in AgentIds \cup {0} /\ next_local_id \in Nat
    BY DEF AllTypes, TableTypes, Entries
  <2>2. fl.orig \notin AgentIds /\ backends[fl.slot] = fl.of
    BY <1>2 DEF TableInv
  <2> QED
    BY <1>2, <2>1, <2>2
<1>4. m.lid = next_local_id /\ m.id = 0 /\ m.type = "list" /\ m \in Frames
  <2>1. m \in Frames
    BY <1>3, FrameTypes DEF AllTypes
  <2> QED
    BY <2>1 DEF Msg
<1>5. /\ toApp' = [toApp EXCEPT ![a] = Append(@, m)] /\ lock' = <<>>
      /\ UNCHANGED <<serving, fromApp, inflight, next_local_id>>
  BY DEF RefreshWrite, tableVars
<1> HIDE DEF a, m
<1> QED
  BY <1>1, <1>2, <1>3, <1>4, <1>5, LinkWritten

\* What an app takes from, and puts on, its connection.
LEMMA LinkApp ==
    ASSUME AllTypes, AllTypes', TableInv, LinkInv, LockInv, TableMove, NEW a \in Apps, AppStep(a)
    PROVE  LinkInv'
<1>0. /\ LinkTypes /\ toApp[a] \in Seq(Frames) /\ fromApp[a] \in Seq(Frames) /\ serving[a] \in Frames
      /\ LinkTypes'
  BY DEF AllTypes, LinkTypes
<1>1. CASE AppStart(a) \/ AppHang(a)
  BY <1>1, LinkLess DEF AppStart, AppHang, linkVars
<1>2. CASE AppDies(a) \/ AppHangsUp(a)
  <2>1. /\ toApp'[a] = <<>> /\ serving'[a] = NoMsg
        /\ \A b \in Apps \ {a} : toApp'[b] = toApp[b] /\ serving'[b] = serving[b]
        /\ UNCHANGED fromApp
    BY <1>0, <1>2 DEF AppDies, AppHangsUp, Closed, LinkTypes
  <2> QED
    BY <2>1, LinkLess
<1>3. CASE AppServes(a)
  <2>1. /\ toApp[a] # <<>> /\ serving'[a] = [Head(toApp[a]) EXCEPT !.ver = version[a]]
        /\ toApp'[a] = Tail(toApp[a])
        /\ \A b \in Apps \ {a} : toApp'[b] = toApp[b] /\ serving'[b] = serving[b]
        /\ UNCHANGED fromApp
    BY <1>0, <1>3 DEF AppServes, LinkTypes
  <2>2. Elems(toApp'[a]) \subseteq Elems(toApp[a]) /\ Head(toApp[a]) \in Elems(toApp[a]) /\ Head(toApp[a]) \in Frames
    BY <1>0, <2>1, QueueFacts
  <2>3. /\ serving'[a].lid = Head(toApp[a]).lid /\ serving'[a].id = Head(toApp[a]).id
        /\ serving'[a].type = Head(toApp[a]).type
    BY <2>1, <2>2 DEF Frames
  <2>4. Framed(Head(toApp[a]), a, {"call", "list"})
    BY <2>2 DEF LinkInv
  <2>5. Framed(serving'[a], a, {"none", "call", "list"})
    BY <2>3, <2>4 DEF Framed, FrameOf, Matches
  <2> QED
    BY <2>1, <2>2, <2>5, LinkKept DEF LinkInv
<1>4. CASE AppReplies(a)
  <2> DEFINE m == [serving[a] EXCEPT !.type = "reply"]
  <2>1. /\ fromApp'[a] = Append(fromApp[a], m) /\ serving'[a] = NoMsg
        /\ \A b \in Apps \ {a} : fromApp'[b] = fromApp[b] /\ serving'[b] = serving[b]
        /\ UNCHANGED toApp
    BY <1>0, <1>4 DEF AppReplies, LinkTypes
  <2>2. m.lid = serving[a].lid /\ m.id = serving[a].id /\ m.type = "reply" /\ m \in Frames
    BY <1>0 DEF Frames
  <2>3. Framed(serving[a], a, {"none", "call", "list"})
    BY DEF LinkInv
  <2>4. Framed(m, a, {"reply", "changed"})
    BY <2>2, <2>3 DEF Framed, FrameOf, Matches
  <2> HIDE DEF m
  <2>5. Elems(fromApp'[a]) = Elems(fromApp[a]) \cup {m}
    BY <1>0, <2>1, <2>2, QueueFacts
  <2>6. NoMsg \in Frames /\ NoMsg.lid = 0 /\ NoMsg.type = "none" /\ NoMsg.id = 0
    <3>1. NoMsg \in Frames
      BY FrameTypes DEF AllTypes
    <3> QED
      BY <3>1 DEF NoMsg, Msg
  <2>7. Framed(NoMsg, a, {"none", "call", "list"})
    BY <2>6, ZeroFrame DEF AllTypes, MainTypes, Framed
  <2> QED
    BY <2>1, <2>4, <2>5, <2>7, LinkKept DEF LinkInv
<1>5. CASE AppChanges(a)
  <2> DEFINE m == Msg("changed", 0, 0, 0)
  <2>1. /\ fromApp'[a] \in {fromApp[a], Append(fromApp[a], m)}
        /\ \A b \in Apps \ {a} : fromApp'[b] = fromApp[b]
        /\ UNCHANGED <<toApp, serving>>
    BY <1>0, <1>5 DEF AppChanges, LinkTypes
  <2>2. m.lid = 0 /\ m.id = 0 /\ m.type = "changed" /\ m \in Frames
    <3>1. m \in Frames
      BY FrameTypes DEF AllTypes
    <3> QED
      BY <3>1 DEF Msg
  <2> HIDE DEF m
  <2>3. Framed(m, a, {"reply", "changed"})
    BY <2>2, ZeroFrame DEF AllTypes, MainTypes, Framed
  <2>4. Elems(fromApp'[a]) \subseteq Elems(fromApp[a]) \cup {m}
    <3>1. Elems(Append(fromApp[a], m)) = Elems(fromApp[a]) \cup {m}
      BY <1>0, <2>2, QueueFacts
    <3> QED
      BY <2>1, <3>1
  <2> QED
    BY <2>1, <2>3, <2>4, LinkKept DEF LinkInv
<1> QED
  BY <1>1, <1>2, <1>3, <1>4, <1>5, Zenon DEF AppStep, AppWorks

\* Every step keeps what is under way in accord with the table.
LEMMA LinkStep ==
    ASSUME AllTypes, AllTypes', MemberInv, TableInv, LinkInv, LockInv, Next
    PROVE  LinkInv'
<1>0. TableMove /\ LinkTypes
  BY TableMoves DEF AllTypes
<1>1. CASE Main
  <2>1. CASE CallWrite
    BY <2>1, CallWritten
  <2>2. CASE ~CallWrite
    <3>1. UNCHANGED <<serving, toApp, fromApp>>
      BY <1>1, <2>2 DEF Main, HandleInitialize, HandleToolsList, WriteToolsList, CallAnsweredHere,
                        CallAlloc, CallWriteFails, linkVars
    <3> QED
      BY <1>0, <3>1, LinkLess
  <2> QED
    BY <2>1, <2>2
<1>2. ASSUME NEW s \in Slots, Reader(s)
      PROVE  LinkInv'
  <2>1. CASE RefreshWrite(s)
    BY <2>1, RefreshWritten
  <2>2. CASE backend_teardown_locked(s)
    BY <1>0, <2>2, TeardownFacts, LinkLess
  <2>3. CASE ReaderRead(s)
    <3>1. backends[s] \in Apps
      BY <2>3 DEF ReaderRead, MemberInv, AllTypes, MemberTypes
    <3>2. /\ fromApp[backends[s]] # <<>> /\ fromApp'[backends[s]] = Tail(fromApp[backends[s]])
          /\ \A b \in Apps \ {backends[s]} : fromApp'[b] = fromApp[b]
          /\ UNCHANGED <<serving, toApp>>
      BY <1>0, <2>3, <3>1 DEF ReaderRead, LinkTypes
    <3> QED
      BY <1>0, <3>2, LinkLess
  <2>4. CASE ~RefreshWrite(s) /\ ~backend_teardown_locked(s) /\ ~ReaderRead(s)
    <3>1. UNCHANGED <<serving, toApp, fromApp>>
      BY <1>2, <2>4 DEF Reader, ReaderTop, ReaderEOF, ReaderLookup, ReaderRelay, ReaderApply, ReaderEmit,
                        RefreshLost, RefreshAlloc, RefreshWriteFails, linkVars
    <3> QED
      BY <1>0, <3>1, LinkLess
  <2> QED
    BY <2>1, <2>2, <2>3, <2>4
<1>3. CASE poll_thread \/ emit_list_changed_upstream \/ AgentStep
  BY <1>0, <1>3, PollFrame, EmitFrame, AgentFrame, LinkLess
<1>4. ASSUME NEW a \in Apps, backend_setup(a)
      PROVE  LinkInv'
  <2>1. CASE SetupConnect(a)
    <3> DEFINE m == Msg("list", HandshakeId, 0, 0)
    <3>1. /\ toApp'[a] = <<m>> /\ \A b \in Apps \ {a} : toApp'[b] = toApp[b]
          /\ UNCHANGED <<serving, fromApp>>
      BY <1>0, <2>1 DEF SetupConnect, LinkTypes
    <3>2. m.lid = 0 /\ m.id = 0 /\ m.type = "list" /\ m \in Frames
      BY FrameTypes DEF Msg, HandshakeId, AllTypes
    <3> HIDE DEF m
    <3>3. Framed(m, a, {"call", "list"})
      BY <3>2, ZeroFrame DEF AllTypes, MainTypes, Framed
    <3>4. Elems(toApp'[a]) = {m}
      BY <3>1 DEF Elems
    <3> QED
      BY <1>0, <3>1, <3>3, <3>4, LinkKept DEF LinkInv
  <2>2. CASE SetupSkip(a) \/ SetupRegister(a)
    <3>1. /\ fromApp[a] # <<>> /\ fromApp'[a] = Tail(fromApp[a])
          /\ \A b \in Apps \ {a} : fromApp'[b] = fromApp[b]
          /\ UNCHANGED <<serving, toApp>>
      BY <1>0, <2>2 DEF SetupSkip, SetupRegister, LinkTypes
    <3> QED
      BY <1>0, <3>1, LinkLess
  <2>3. CASE SetupFails(a) \/ SetupNoSlot(a)
    <3>1. /\ fromApp'[a] = <<>> /\ toApp'[a] = <<>> /\ serving'[a] = NoMsg
          /\ \A b \in Apps \ {a} : fromApp'[b] = fromApp[b] /\ toApp'[b] = toApp[b] /\ serving'[b] = serving[b]
      BY <1>0, <2>3 DEF SetupFails, SetupNoSlot, LinkTypes
    <3> QED
      BY <1>0, <3>1, LinkLess
  <2>4. CASE connecting_remove(a)
    BY <1>0, <2>4, LinkLess DEF connecting_remove, linkVars
  <2> QED
    BY <1>4, <2>1, <2>2, <2>3, <2>4, Zenon DEF backend_setup
<1>5. ASSUME NEW a \in Apps, AppStep(a)
      PROVE  LinkInv'
  BY <1>0, <1>5, LinkApp
<1> QED
  BY <1>1, <1>2, <1>3, <1>4, <1>5, AggregatorSteps

\* What a reader holds stays in accord with the table while it stays where it is.
LEMMA HeldKept ==
    ASSUME AllTypes, HeldInv, TableMove, NEW s \in Slots,
           reader'[s] \in {"lookup", "relay", "apply"} =>
               reader'[s] = reader[s] /\ held'[s] = held[s] /\ backends'[s] = backends[s]
    PROVE  HeldOf(s)'
<1>1. held[s].msg \in Frames
  BY DEF AllTypes, ReaderTypes
<1>2. PICK m, a : m = held[s].msg /\ a = backends[s]
  OBVIOUS
<1>3. CASE reader'[s] = "lookup"
  <2>1. FrameOf(m, a) /\ m.type = "reply" /\ m \in Frames
    BY <1>1, <1>2, <1>3 DEF HeldInv, HeldOf, Framed
  <2>2. FrameOf(m, a)'
    BY <2>1, FrameKept DEF AllTypes
  <2>3. held'[s].msg = m /\ backends'[s] = a
    BY <1>2, <1>3
  <2> QED
    BY <1>3, <2>1, <2>2, <2>3 DEF HeldOf, Framed, FrameOf, Matches, Unlocked
<1>4. CASE reader'[s] # "lookup"
  BY <1>4 DEF HeldOf, HeldInv, IsList
<1> QED
  BY <1>3, <1>4

\* Every step keeps it so.
LEMMA HeldStep ==
    ASSUME AllTypes, AllTypes', MemberInv, TableInv, LinkInv, HeldInv, Next
    PROVE  HeldInv'
<1>0. TableMove /\ ReaderTypes /\ LinkTypes /\ MemberTypes
  BY TableMoves DEF AllTypes
<1> SUFFICES ASSUME NEW s \in Slots PROVE HeldOf(s)'
  BY DEF HeldOf, HeldInv
<1>1. CASE Main \/ poll_thread \/ emit_list_changed_upstream \/ AgentStep
  BY <1>0, <1>1, MainFrame, PollFrame, EmitFrame, AgentFrame, HeldKept
<1>2. ASSUME NEW a \in Apps, AppStep(a)
      PROVE  HeldOf(s)'
  BY <1>0, <1>2, AppFrame, HeldKept
<1>3. ASSUME NEW a \in Apps, backend_setup(a)
      PROVE  HeldOf(s)'
  <2>1. held' = held
    BY <1>3, SetupFrame
  <2>2. CASE SetupRegister(a)
    <3>1. FreeSlots \in SUBSET Slots /\ FreeSlots # {}
      BY <2>2 DEF FreeSlots, SetupRegister
    <3>2. Min(FreeSlots) \in FreeSlots
      BY <3>1, FirstIsMember
    <3>3. \/ reader'[s] = "top"
          \/ reader'[s] = reader[s] /\ backends'[s] = backends[s]
      BY <1>0, <2>2, <3>2 DEF SetupRegister, FreeSlots, ReaderTypes, MemberTypes
    <3> QED
      BY <1>0, <2>1, <3>3, HeldKept
  <2>3. CASE ~SetupRegister(a)
    <3>1. UNCHANGED <<reader, backends>>
      BY <1>3, <2>3 DEF backend_setup, SetupConnect, SetupSkip, SetupFails, SetupNoSlot, connecting_remove,
                        readerVars, memberVars
    <3> QED
      BY <1>0, <2>1, <3>1, HeldKept
  <2> QED
    BY <2>2, <2>3
<1>4. ASSUME NEW t \in Slots, t # s, Reader(t)
      PROVE  HeldOf(s)'
  <2>1. CASE backend_teardown_locked(t)
    BY <1>0, <1>4, <2>1, TeardownFacts, HeldKept
  <2>2. CASE ~backend_teardown_locked(t)
    <3>1. reader'[s] = reader[s] /\ held'[s] = held[s] /\ backends' = backends
      BY <1>0, <1>4, <2>2
         DEF Reader, ReaderTop, ReaderRead, ReaderEOF, ReaderLookup, ReaderRelay, ReaderApply, ReaderEmit,
             RefreshLost, RefreshAlloc, RefreshWrite, RefreshWriteFails, ReaderTypes, memberVars
    <3> QED
      BY <1>0, <3>1, HeldKept
  <2> QED
    BY <2>1, <2>2
<1>5. CASE Reader(s)
  <2>1. CASE ReaderTop(s) \/ ReaderEOF(s) \/ ReaderRelay(s) \/ ReaderApply(s) \/ ReaderEmit(s)
    <3>1. reader'[s] \notin {"lookup", "relay", "apply"}
      BY <1>0, <2>1 DEF ReaderTop, ReaderEOF, ReaderRelay, ReaderApply, ReaderEmit, ReaderTypes
    <3> QED
      BY <1>0, <3>1, HeldKept
  <2>2. CASE RefreshLost(s) \/ RefreshAlloc(s) \/ RefreshWrite(s) \/ RefreshWriteFails(s) \/ backend_teardown_locked(s)
    <3>1. reader'[s] \notin {"lookup", "relay", "apply"}
      BY <1>0, <2>2 DEF RefreshLost, RefreshAlloc, RefreshWrite, RefreshWriteFails, backend_teardown_locked,
                        FreeSlot, ReaderTypes
    <3> QED
      BY <1>0, <3>1, HeldKept
  <2>3. CASE ReaderRead(s)
    <3>1. backends[s] \in Apps /\ backends' = backends
      BY <2>3 DEF ReaderRead, MemberInv, AllTypes, MemberTypes, memberVars
    <3>2. PICK a \in Apps : a = backends[s]
      BY <3>1
    <3>3. /\ fromApp[a] # <<>> /\ fromApp[a] \in Seq(Frames)
          /\ held'[s].msg = Head(fromApp[a])
          /\ reader'[s] = IF Head(fromApp[a]).type = "changed" THEN "refresh" ELSE "lookup"
      BY <1>0, <2>3, <3>2 DEF ReaderRead, ReaderTypes, LinkTypes
    <3>4. PICK m \in Elems(fromApp[a]) : m = Head(fromApp[a]) /\ m \in Frames
      BY <3>3, QueueFacts
    <3>5. FrameOf(m, a) /\ m.type \in {"reply", "changed"}
      BY <3>4 DEF LinkInv, Framed
    <3>6. FrameOf(m, a)'
      BY <1>0, <3>4, <3>5, FrameKept DEF AllTypes
    <3>7. reader'[s] = "lookup" => m.type = "reply"
      BY <3>3, <3>4, <3>5
    <3>8. reader'[s] \notin {"relay", "apply"}
      BY <3>3
    <3>9. held'[s].msg = m /\ backends'[s] = a
      BY <3>1, <3>2, <3>3, <3>4
    <3> QED
      BY <3>6, <3>7, <3>8, <3>9 DEF HeldOf, Framed, FrameOf, Matches, Unlocked
  <2>4. CASE ReaderLookup(s)
    <3>0. reader[s] = "lookup"
      BY <2>4 DEF ReaderLookup
    <3>1. FrameOf(held[s].msg, backends[s]) /\ held[s].msg.type = "reply"
      BY <3>0 DEF HeldInv, HeldOf, Framed
    <3>2. CASE reader' = [reader EXCEPT ![s] = "top"]
      BY <1>0, <3>2 DEF HeldOf, ReaderTypes
    <3>3. ASSUME NEW fl \in inflight, fl.lid = held[s].msg.lid,
                 reader' = [reader EXCEPT ![s] = IF fl.slot # s THEN "top"
                                                   ELSE IF fl.kind = "refresh" THEN "apply" ELSE "relay"],
                 held' = [held EXCEPT ![s] = IF fl.slot # s THEN NoHold ELSE [@ EXCEPT !.orig = fl.orig]]
          PROVE  HeldOf(s)'
      <4>1. fl.orig = held[s].msg.id
        BY <3>1, <3>3 DEF FrameOf, Matches
      <4>2. fl.orig \in AgentIds \cup {0} /\ fl.kind \in {"agent", "refresh"}
        BY DEF AllTypes, TableTypes, Entries
      <4>3. fl.orig \in AgentIds <=> fl.kind = "agent"
        BY DEF TableInv
      <4>4. CASE fl.slot # s
        <5>1. reader'[s] = "top"
          BY <1>0, <3>3, <4>4 DEF ReaderTypes
        <5> QED
          BY <5>1 DEF HeldOf
      <4>5. CASE fl.slot = s
        <5>1. reader'[s] = IF fl.kind = "refresh" THEN "apply" ELSE "relay"
          BY <1>0, <3>3, <4>5 DEF ReaderTypes
        <5>2. held'[s] = [held[s] EXCEPT !.orig = fl.orig]
          BY <1>0, <3>3, <4>5 DEF ReaderTypes
        <5>3. held'[s].orig = fl.orig /\ held'[s].msg = held[s].msg
          BY <1>0, <5>2 DEF ReaderTypes
        <5> QED
          BY <3>1, <4>1, <4>2, <4>3, <5>1, <5>3 DEF HeldOf, IsList
      <4> QED
        BY <4>4, <4>5
    <3> QED
      BY <2>4, <3>2, <3>3 DEF ReaderLookup, inflight_find
  <2> QED
    BY <1>5, <2>1, <2>2, <2>3, <2>4, Zenon DEF Reader
<1> QED
  BY <1>1, <1>2, <1>3, <1>4, <1>5, AggregatorSteps

(***************************************************************************)
(* The answers                                                             *)
(***************************************************************************)
\* A call is where it was, or nowhere.
LEMMA OnceKept ==
    ASSUME NEW id \in AgentIds, OnceOf(id), AnswerOf(id),
           Queued(id)' => Queued(id), UniqueCall(id)', inflight' \subseteq inflight,
           \A s \in Slots : Relays(s, id)' => Relays(s, id),
           answers'[id] = answers[id], id \in sent => id \in sent'
    PROVE  OnceOf(id)' /\ AnswerOf(id)'
<1>1. Entered(id)' => Entered(id)
  BY DEF Entered
<1>2. Relayed(id)' => Relayed(id)
  BY DEF Relayed
<1>3. UniqueEntry(id)'
  BY DEF OnceOf, UniqueEntry
<1>4. UniqueRelay(id)'
  BY DEF OnceOf, UniqueRelay
<1>5. AnswerOf(id)'
  BY DEF AnswerOf
<1> QED
  BY <1>1, <1>2, <1>3, <1>4, <1>5 DEF OnceOf

\* A call that is answered is nowhere else.
LEMMA OnceAnswered ==
    ASSUME AllTypes, NEW id \in AgentIds, OnceOf(id), answers[id] = <<>>,
           NEW what \in {Error, AppsList, Reply(id)}, answers'[id] = Append(answers[id], what),
           id \in sent', UniqueCall(id)', ~Queued(id)', ~Entered(id)', ~Relayed(id)',
           inflight' \subseteq inflight
    PROVE  OnceOf(id)' /\ AnswerOf(id)'
<1>1. answers'[id] = <<what>>
  BY DEF AllTypes, MainTypes
<1>2. AnswerOf(id)' /\ answers'[id] # <<>>
  BY <1>1 DEF AnswerOf
<1>3. UniqueEntry(id)'
  BY DEF OnceOf, UniqueEntry
<1>4. UniqueRelay(id)'
  BY DEF Relayed, UniqueRelay
<1> QED
  BY <1>2, <1>3, <1>4 DEF OnceOf

\* The request at the head of stdin has been handled.
LEMMA StdinHandled ==
    ASSUME stdin \in Seq(Requests), stdin # <<>>, stdin' = Tail(stdin), main' # "write",
           NEW id \in AgentIds, UniqueCall(id)
    PROVE  /\ UniqueCall(id)' /\ (Queued(id)' => Queued(id))
           /\ Head(stdin).type = "call" /\ Head(stdin).id = id => ~Queued(id)'
<1>1. /\ Len(stdin) \in Nat \ {0} /\ Len(stdin') = Len(stdin) - 1 /\ stdin[1] = Head(stdin)
      /\ \A i \in 1..Len(stdin') : stdin'[i] = stdin[i + 1] /\ i + 1 \in 1..Len(stdin) /\ i + 1 # 1
  OBVIOUS
<1>2. \A i \in 1..Len(stdin') : Call(i, id)' => Call(i + 1, id)
  BY <1>1 DEF Call
<1>3. UniqueCall(id)'
  BY <1>1, <1>2 DEF UniqueCall
<1>4. Queued(id)' => \E i \in 1..Len(stdin) : i # 1 /\ Call(i, id)
  BY <1>1, <1>2 DEF Queued
<1>5. Head(stdin).type = "call" /\ Head(stdin).id = id => Call(1, id) /\ 1 \in 1..Len(stdin)
  BY <1>1 DEF Call
<1> QED
  BY <1>3, <1>4, <1>5 DEF Queued, UniqueCall

\* Nothing was handled.
LEMMA StdinKept ==
    ASSUME stdin' = stdin, main' = "write" <=> main = "write", NEW id \in AgentIds, UniqueCall(id)
    PROVE  UniqueCall(id)' /\ (Queued(id)' => Queued(id))
  BY DEF UniqueCall, Queued, Call

\* A call at the head of stdin is queued until it is written.
LEMMA HeadQueued ==
    ASSUME AllTypes, Requested("call")
    PROVE  Head(stdin).id \in AgentIds /\ Queued(Head(stdin).id)
<1>1. stdin # <<>> /\ Head(stdin).type = "call" /\ main = "idle" /\ stdin \in Seq(Requests)
  BY DEF Requested, AllTypes, MainTypes
<1>2. Head(stdin).id \in AgentIds
  BY <1>1, AnswerTypes, CallType DEF AllTypes
<1>3. 1 \in 1..Len(stdin) /\ stdin[1] = Head(stdin)
  BY <1>1
<1> QED
  BY <1>1, <1>2, <1>3 DEF Queued, Call

\* What giving an answer does.
LEMMA AnswerGiven ==
    ASSUME AllTypes, NEW n \in AgentIds, NEW what, answers' = Answer(answers, n, what)
    PROVE  /\ answers'[n] = Append(answers[n], what)
           /\ \A id \in AgentIds \ {n} : answers'[id] = answers[id]
  BY DEF Answer, AllTypes, MainTypes

\* The main thread answers a call once, or enters it once.
LEMMA OnceMain ==
    ASSUME AllTypes, TableInv, LockInv, OnceInv, Main, NEW id \in AgentIds
    PROVE  OnceOf(id)' /\ AnswerOf(id)'
<1>0. /\ OnceOf(id) /\ AnswerOf(id) /\ UniqueCall(id) /\ stdin \in Seq(Requests)
      /\ UNCHANGED <<reader, held, sent>>
  BY MainFrame DEF OnceInv, OnceOf, AllTypes, MainTypes
<1>1. \A s \in Slots : \A n : Relays(s, n)' <=> Relays(s, n)
  BY <1>0 DEF Relays
<1>2. \A n : Relayed(n)' <=> Relayed(n)
  BY <1>1 DEF Relayed
<1>3. CASE HandleInitialize \/ WriteToolsList \/ CallWrite
  <2>1. stdin # <<>> /\ stdin' = Tail(stdin) /\ main' # "write" /\ UNCHANGED <<answers, inflight>>
    BY <1>3 DEF HandleInitialize, WriteToolsList, CallWrite, Requested, LockInv, tableVars
  <2>2. UniqueCall(id)' /\ (Queued(id)' => Queued(id))
    BY <1>0, <2>1, StdinHandled
  <2> QED
    BY <1>0, <1>1, <2>1, <2>2, OnceKept
<1>4. CASE HandleToolsList
  <2>1. stdin' = stdin /\ main' # "write" /\ main # "write" /\ UNCHANGED <<answers, inflight>>
    BY <1>4 DEF HandleToolsList, Requested, agentVars, tableVars
  <2>2. UniqueCall(id)' /\ (Queued(id)' => Queued(id))
    BY <1>0, <2>1, StdinKept
  <2> QED
    BY <1>0, <1>1, <2>1, <2>2, OnceKept
<1>5. CASE CallAnsweredHere
  <2> DEFINE n == Head(stdin).id
             what == IF Head(stdin).target = Workspace THEN AppsList ELSE Error
  <2>1. /\ Requested("call") /\ stdin # <<>> /\ stdin' = Tail(stdin) /\ main' # "write"
        /\ inflight' = inflight /\ answers' = Answer(answers, n, what) /\ Head(stdin).type = "call"
    BY <1>5 DEF CallAnsweredHere, Requested, mainVars, tableVars
  <2>2. n \in AgentIds /\ Queued(n) /\ what \in {Error, AppsList}
    BY <2>1, HeadQueued
  <2> HIDE DEF what
  <2>3. /\ answers'[n] = Append(answers[n], what)
        /\ \A k \in AgentIds \ {n} : answers'[k] = answers[k]
    BY <2>1, <2>2, AnswerGiven
  <2>4. UniqueCall(id)' /\ (Queued(id)' => Queued(id)) /\ (n = id => ~Queued(id)')
    BY <1>0, <2>1, StdinHandled
  <2>5. CASE id = n
    <3>1. answers[id] = <<>> /\ ~Entered(id) /\ ~Relayed(id) /\ id \in sent'
      BY <1>0, <2>2, <2>5 DEF OnceOf
    <3>2. ~Entered(id)' /\ ~Relayed(id)'
      BY <1>2, <2>1, <3>1 DEF Entered
    <3> QED
      BY <1>0, <2>1, <2>2, <2>3, <2>4, <2>5, <3>1, <3>2, OnceAnswered
  <2>6. CASE id # n
    BY <1>0, <1>1, <2>1, <2>3, <2>4, <2>6, OnceKept
  <2> QED
    BY <2>5, <2>6
<1>6. CASE CallAlloc
  <2> DEFINE n == Head(stdin).id
             e == [lid |-> next_local_id + 1, slot |-> Min(Target), kind |-> "agent",
                   orig |-> n, of |-> backends[Min(Target)]]
  <2>1. /\ Requested("call") /\ stdin' = stdin /\ stdin # <<>> /\ Head(stdin).type = "call"
        /\ main' = "write" /\ main = "idle" /\ answers' = answers
    BY <1>6, CallEntered DEF CallAlloc, agentVars
  <2>2. inflight' = inflight \cup {e} /\ e.orig = n /\ e.kind = "agent"
    BY <1>6, CallEntered DEF inflight_alloc
  <2> HIDE DEF e
  <2>3. n \in AgentIds /\ Queued(n)
    BY <2>1, HeadQueued
  <2>4. UniqueCall(id)' /\ (Queued(id)' => Queued(id))
    BY <1>0, <2>1 DEF UniqueCall, Queued, Call
  <2>5. CASE id = n
    <3>1. answers[id] = <<>> /\ ~Entered(id) /\ ~Relayed(id) /\ id \in sent'
      BY <1>0, <2>3, <2>5 DEF OnceOf
    <3>2. ~Queued(id)'
      <4>1. stdin[1] = Head(stdin) /\ 1 \in 1..Len(stdin)
        BY <1>0, <2>1
      <4>2. Call(1, id)
        BY <2>1, <2>5, <4>1 DEF Call
      <4>3. \A i \in 1..Len(stdin) : Call(i, id) => i = 1
        BY <1>0, <4>1, <4>2 DEF UniqueCall
      <4> QED
        BY <2>1, <4>3 DEF Queued, Call
    <3>3. UniqueEntry(id)'
      <4>1. \A fl \in inflight : fl.orig # id
        BY <3>1 DEF Entered, TableInv
      <4> QED
        BY <2>2, <4>1 DEF UniqueEntry
    <3>4. UniqueRelay(id)' /\ AnswerOf(id)' /\ answers'[id] = <<>>
      BY <1>0, <1>1, <2>1, <3>1 DEF UniqueRelay, OnceOf, AnswerOf
    <3> QED
      BY <1>2, <2>4, <3>1, <3>2, <3>3, <3>4 DEF OnceOf
  <2>6. CASE id # n
    <3>1. UniqueEntry(id)' /\ (Entered(id)' => Entered(id))
      BY <1>0, <2>2, <2>6 DEF UniqueEntry, Entered, OnceOf
    <3>2. UniqueRelay(id)' /\ AnswerOf(id)' /\ answers'[id] = answers[id]
      BY <1>0, <1>1, <2>1 DEF UniqueRelay, OnceOf, AnswerOf
    <3> QED
      BY <1>0, <1>2, <2>4, <3>1, <3>2 DEF OnceOf
  <2> QED
    BY <2>5, <2>6
<1>7. CASE CallWriteFails
  <2> DEFINE n == Head(stdin).id
  <2>1. /\ main = "write" /\ stdin # <<>> /\ Head(stdin).type = "call" /\ stdin' = Tail(stdin)
        /\ main' # "write" /\ answers' = Answer(answers, n, Error)
        /\ inflight' = {fl \in inflight : fl.lid # next_local_id}
    BY <1>7 DEF CallWriteFails, LockInv
  <2>2. PICK fl \in inflight : fl.lid = next_local_id /\ fl.kind = "agent" /\ fl.orig = n
    BY <2>1 DEF LockInv
  <2>3. n \in AgentIds
    BY <2>1, AnswerTypes, CallType DEF AllTypes
  <2>4. /\ answers'[n] = Append(answers[n], Error)
        /\ \A k \in AgentIds \ {n} : answers'[k] = answers[k]
    BY <2>1, <2>3, AnswerGiven
  <2>5. UniqueCall(id)' /\ (Queued(id)' => Queued(id)) /\ (n = id => ~Queued(id)')
    BY <1>0, <2>1, StdinHandled
  <2>6. CASE id = n
    <3>1. Entered(id)
      BY <2>2, <2>6 DEF Entered
    <3>2. answers[id] = <<>> /\ ~Relayed(id) /\ id \in sent'
      BY <1>0, <3>1 DEF OnceOf
    <3>3. ~Entered(id)'
      BY <1>0, <2>1, <2>2, <2>6 DEF OnceOf, UniqueEntry, Entered
    <3> QED
      BY <1>0, <1>2, <2>1, <2>4, <2>5, <2>6, <3>2, <3>3, OnceAnswered
  <2>7. CASE id # n
    BY <1>0, <1>1, <2>1, <2>4, <2>5, <2>7, OnceKept
  <2> QED
    BY <2>6, <2>7
<1> QED
  BY <1>3, <1>4, <1>5, <1>6, <1>7, Zenon DEF Main

\* A reader answers a call once, and a teardown those it finds in the table.
LEMMA OnceReader ==
    ASSUME AllTypes, MemberInv, TableInv, LockInv, HeldInv, OnceInv, NEW s \in Slots, Reader(s),
           NEW id \in AgentIds
    PROVE  OnceOf(id)' /\ AnswerOf(id)'
<1>0. /\ OnceOf(id) /\ AnswerOf(id) /\ UniqueCall(id) /\ ReaderTypes
      /\ UNCHANGED <<stdin, main, sent>>
  BY ReaderFrame DEF OnceInv, OnceOf, AllTypes
<1>1. UniqueCall(id)' /\ (Queued(id)' => Queued(id))
  BY <1>0, StdinKept
<1>2. CASE ReaderTop(s) \/ ReaderEOF(s) \/ ReaderApply(s) \/ ReaderEmit(s) \/ RefreshLost(s)
  <2>1. UNCHANGED <<answers, inflight>>
    BY <1>2 DEF ReaderTop, ReaderEOF, ReaderApply, ReaderEmit, RefreshLost, tableVars, agentVars
  <2>2. reader'[s] # "relay" /\ \A t \in Slots \ {s} : reader'[t] = reader[t] /\ held'[t] = held[t]
    BY <1>0, <1>2 DEF ReaderTop, ReaderEOF, ReaderApply, ReaderEmit, RefreshLost, ReaderTypes
  <2>3. \A t \in Slots : Relays(t, id)' => Relays(t, id)
    BY <2>2 DEF Relays
  <2> QED
    BY <1>0, <1>1, <2>1, <2>3, OnceKept
<1>3. CASE ReaderRead(s) \/ RefreshWrite(s) \/ RefreshWriteFails(s)
  <2>1. answers' = answers /\ inflight' \subseteq inflight
    BY <1>3 DEF ReaderRead, RefreshWrite, RefreshWriteFails, tableVars, agentVars
  <2>2. reader'[s] # "relay" /\ \A t \in Slots \ {s} : reader'[t] = reader[t] /\ held'[t] = held[t]
    BY <1>0, <1>3 DEF ReaderRead, RefreshWrite, RefreshWriteFails, ReaderTypes
  <2>3. \A t \in Slots : Relays(t, id)' => Relays(t, id)
    BY <2>2 DEF Relays
  <2> QED
    BY <1>0, <1>1, <2>1, <2>3, OnceKept
<1>4. CASE RefreshAlloc(s)
  <2> DEFINE e == [lid |-> next_local_id + 1, slot |-> s, kind |-> "refresh", orig |-> 0, of |-> backends[s]]
  <2>1. inflight' = inflight \cup {e} /\ e.orig = 0 /\ e.kind = "refresh"
    BY <1>4, RefreshEntered DEF inflight_alloc
  <2> HIDE DEF e
  <2>2. id # 0
    BY AggregatorNumbers
  <2>3. UniqueEntry(id)' /\ (Entered(id)' => Entered(id))
    BY <1>0, <2>1, <2>2 DEF UniqueEntry, Entered, OnceOf
  <2>4. \A t \in Slots : Relays(t, id)' => Relays(t, id)
    BY <1>4, RefreshEntered DEF Relays
  <2>5. UniqueRelay(id)' /\ (Relayed(id)' => Relayed(id))
    BY <1>0, <2>4 DEF UniqueRelay, Relayed, OnceOf
  <2>6. AnswerOf(id)' /\ answers' = answers
    BY <1>0, <1>4 DEF AnswerOf, RefreshAlloc, agentVars
  <2> QED
    BY <1>0, <1>1, <2>3, <2>5, <2>6 DEF OnceOf
<1>5. CASE ReaderRelay(s)
  <2> DEFINE n == held[s].orig
  <2>1. n \in AgentIds /\ n = held[s].msg.id /\ reader[s] = "relay"
    BY <1>5 DEF ReaderRelay, HeldInv, HeldOf
  <2>2. answers' = Answer(answers, n, Reply(n)) /\ inflight' = inflight
    BY <1>5, <2>1 DEF ReaderRelay, tableVars
  <2>3. reader'[s] = "top" /\ \A t \in Slots \ {s} : reader'[t] = reader[t] /\ held'[t] = held[t]
    BY <1>0, <1>5 DEF ReaderRelay, ReaderTypes
  <2>4. \A t \in Slots : Relays(t, id)' => Relays(t, id) /\ t # s
    BY <2>3 DEF Relays
  <2>5. /\ answers'[n] = Append(answers[n], Reply(n))
        /\ \A k \in AgentIds \ {n} : answers'[k] = answers[k]
    BY <2>1, <2>2, AnswerGiven
  <2>6. CASE id = n
    <3>1. Relays(s, id)
      BY <2>1, <2>6 DEF Relays
    <3>2. Relayed(id)
      BY <3>1 DEF Relayed
    <3>3. answers[id] = <<>> /\ ~Queued(id) /\ ~Entered(id) /\ id \in sent'
      BY <1>0, <3>2 DEF OnceOf
    <3>4. ~Relayed(id)'
      BY <1>0, <2>4, <3>1 DEF OnceOf, UniqueRelay, Relayed
    <3>5. ~Queued(id)' /\ ~Entered(id)'
      BY <1>1, <2>2, <3>3 DEF Entered
    <3> QED
      BY <1>0, <1>1, <2>2, <2>5, <2>6, <3>3, <3>4, <3>5, OnceAnswered
  <2>7. CASE id # n
    BY <1>0, <1>1, <2>2, <2>4, <2>5, <2>7, OnceKept
  <2> QED
    BY <2>6, <2>7
<1>6. CASE backend_teardown_locked(s)
  <2>1. inflight' = {fl \in inflight : fl.slot # s} /\ held' = held
    BY <1>6, TeardownFacts
  <2>2. answers'[id] = IF \E fl \in Outstanding(s) : fl.orig = id THEN Append(answers[id], Error) ELSE answers[id]
    BY <1>6 DEF backend_teardown_locked
  <2>3. \A t \in Slots : Relays(t, id)' => Relays(t, id)
    BY <1>6, TeardownFacts DEF Relays
  <2>4. CASE \E fl \in Outstanding(s) : fl.orig = id
    <3>1. PICK fl \in inflight : fl.slot = s /\ fl.kind = "agent" /\ fl.orig = id
      BY <2>4 DEF Outstanding
    <3>2. Entered(id)
      BY <3>1 DEF Entered
    <3>3. answers[id] = <<>> /\ ~Queued(id) /\ ~Relayed(id) /\ id \in sent'
      BY <1>0, <3>2 DEF OnceOf
    <3>4. ~Entered(id)'
      BY <1>0, <2>1, <3>1 DEF OnceOf, UniqueEntry, Entered
    <3>5. ~Queued(id)' /\ ~Relayed(id)'
      BY <1>1, <2>3, <3>3 DEF Relayed
    <3>6. answers'[id] = Append(answers[id], Error)
      BY <2>2, <2>4
    <3> QED
      BY <1>0, <1>1, <2>1, <3>3, <3>4, <3>5, <3>6, OnceAnswered
  <2>5. CASE ~\E fl \in Outstanding(s) : fl.orig = id
    <3>1. answers'[id] = answers[id] /\ inflight' \subseteq inflight
      BY <2>1, <2>2, <2>5
    <3> QED
      BY <1>0, <1>1, <2>3, <3>1, OnceKept
  <2> QED
    BY <2>4, <2>5
<1>7. CASE ReaderLookup(s)
  <2>0. answers' = answers /\ reader[s] = "lookup"
    BY <1>7 DEF ReaderLookup, agentVars
  <2>1. CASE /\ inflight' = inflight /\ reader' = [reader EXCEPT ![s] = "top"]
             /\ held' = [held EXCEPT ![s] = NoHold]
    <3>1. \A t \in Slots : Relays(t, id)' => Relays(t, id)
      BY <1>0, <2>1 DEF Relays, ReaderTypes
    <3> QED
      BY <1>0, <1>1, <2>0, <2>1, <3>1, OnceKept
  <2>2. ASSUME NEW fl \in inflight, inflight' = inflight \ {fl},
               reader' = [reader EXCEPT ![s] = IF fl.slot # s THEN "top"
                                               ELSE IF fl.kind = "refresh" THEN "apply" ELSE "relay"],
               held' = [held EXCEPT ![s] = IF fl.slot # s THEN NoHold ELSE [@ EXCEPT !.orig = fl.orig]]
        PROVE  OnceOf(id)' /\ AnswerOf(id)'
    <3>0. \A t \in Slots \ {s} : reader'[t] = reader[t] /\ held'[t] = held[t]
      BY <1>0, <2>2 DEF ReaderTypes
    <3>1. CASE fl.slot = s /\ fl.kind # "refresh" /\ fl.orig = id
      <4>1. reader'[s] = "relay" /\ held'[s].orig = id
        BY <1>0, <2>2, <3>1 DEF ReaderTypes
      <4>2. fl.kind = "agent"
        BY <3>1 DEF AllTypes, TableTypes, Entries
      <4>3. Entered(id)
        BY <3>1, <4>2 DEF Entered
      <4>4. answers[id] = <<>> /\ ~Queued(id) /\ ~Relayed(id) /\ id \in sent'
        BY <1>0, <4>3 DEF OnceOf
      <4>5. ~Entered(id)' /\ UniqueEntry(id)'
        BY <1>0, <2>2, <3>1 DEF OnceOf, UniqueEntry, Entered
      <4>6. \A t \in Slots : Relays(t, id)' => t = s
        BY <3>0, <4>4 DEF Relayed, Relays
      <4>7. UniqueRelay(id)'
        BY <4>6 DEF UniqueRelay
      <4>8. AnswerOf(id)'
        BY <1>0, <2>0 DEF AnswerOf
      <4> QED
        BY <1>1, <2>0, <4>4, <4>5, <4>7, <4>8 DEF OnceOf
    <3>2. CASE ~(fl.slot = s /\ fl.kind # "refresh" /\ fl.orig = id)
      <4>1. ~Relays(s, id)'
        <5>1. CASE fl.slot = s /\ fl.kind # "refresh"
          <6>1. held'[s].orig = fl.orig
            BY <1>0, <2>2, <5>1 DEF ReaderTypes
          <6> QED
            BY <3>2, <5>1, <6>1 DEF Relays
        <5>2. CASE ~(fl.slot = s /\ fl.kind # "refresh")
          <6>1. reader'[s] # "relay"
            BY <1>0, <2>2, <5>2 DEF ReaderTypes
          <6> QED
            BY <6>1 DEF Relays
        <5> QED
          BY <5>1, <5>2
      <4>2. \A t \in Slots : Relays(t, id)' => Relays(t, id)
        BY <3>0, <4>1 DEF Relays
      <4> QED
        BY <1>0, <1>1, <2>0, <2>2, <4>2, OnceKept
    <3> QED
      BY <3>1, <3>2
  <2> QED
    BY <1>7, <2>1, <2>2 DEF ReaderLookup, inflight_find
<1> QED
  BY <1>2, <1>3, <1>4, <1>5, <1>6, <1>7, Zenon DEF Reader

\* Every step keeps every call in one place.
LEMMA OnceStep ==
    ASSUME AllTypes, MemberInv, TableInv, LockInv, HeldInv, OnceInv, Next
    PROVE  OnceInv'
<1> SUFFICES ASSUME NEW id \in AgentIds PROVE OnceOf(id)' /\ AnswerOf(id)'
  BY DEF OnceInv
<1>0. OnceOf(id) /\ AnswerOf(id) /\ UniqueCall(id) /\ ReaderTypes /\ stdin \in Seq(Requests)
  BY DEF OnceInv, OnceOf, AllTypes, MainTypes
<1>1. CASE poll_thread \/ emit_list_changed_upstream \/ \E a \in Apps : AppStep(a)
  <2>1. UNCHANGED <<reader, held, inflight, main, stdin, answers, sent>>
    BY <1>1, PollFrame, EmitFrame, AppFrame
  <2>2. UniqueCall(id)' /\ (Queued(id)' => Queued(id))
    BY <1>0, <2>1, StdinKept
  <2>3. \A t \in Slots : Relays(t, id)' => Relays(t, id)
    BY <2>1 DEF Relays
  <2> QED
    BY <1>0, <2>1, <2>2, <2>3, OnceKept
<1>2. ASSUME NEW a \in Apps, backend_setup(a)
      PROVE  OnceOf(id)' /\ AnswerOf(id)'
  <2>1. UNCHANGED <<held, inflight, main, stdin, answers, sent>>
    BY <1>2, SetupFrame
  <2>2. UniqueCall(id)' /\ (Queued(id)' => Queued(id))
    BY <1>0, <2>1, StdinKept
  <2>3. \A t \in Slots : reader'[t] = "relay" => reader[t] = "relay"
    <3>1. CASE SetupRegister(a)
      <4>1. reader' = [reader EXCEPT ![Min(FreeSlots)] = "top"]
        BY <3>1 DEF SetupRegister
      <4> QED
        BY <1>0, <4>1 DEF ReaderTypes
    <3>2. CASE ~SetupRegister(a)
      BY <1>2, <3>2 DEF backend_setup, SetupConnect, SetupSkip, SetupFails, SetupNoSlot,
                        connecting_remove, readerVars
    <3> QED
      BY <3>1, <3>2
  <2>4. \A t \in Slots : Relays(t, id)' => Relays(t, id)
    BY <2>1, <2>3 DEF Relays
  <2> QED
    BY <1>0, <2>1, <2>2, <2>4, OnceKept
<1>3. CASE AgentStep
  <2>1. UNCHANGED <<reader, held, inflight, main, answers>>
    BY <1>3, AgentFrame
  <2>2. \A t \in Slots : Relays(t, id)' => Relays(t, id)
    BY <2>1 DEF Relays
  <2>3. ASSUME NEW m \in Requests, stdin' = Append(stdin, m)
        PROVE  /\ Len(stdin) \in Nat /\ Len(stdin') = Len(stdin) + 1
               /\ \A i \in 1..Len(stdin) : Call(i, id)' <=> Call(i, id)
               /\ \A k : k = Len(stdin) + 1 /\ Call(k, id)' => m.type = "call" /\ m.id = id
    <3>1. /\ Len(stdin) \in Nat /\ Len(stdin') = Len(stdin) + 1
          /\ \A i \in 1..Len(stdin) : stdin'[i] = stdin[i]
          /\ stdin'[Len(stdin) + 1] = m
      BY <1>0, <2>3
    <3> QED
      BY <3>1 DEF Call
  <2>4. CASE AgentLists
    <3> DEFINE m == [type |-> "tools/list"]
    <3>1. m \in Requests /\ m.type # "call"
      BY DEF Requests
    <3>2. stdin' = Append(stdin, m) /\ sent' = sent
      BY <2>4 DEF AgentLists
    <3> HIDE DEF m
    <3>3. /\ Len(stdin) \in Nat /\ Len(stdin') = Len(stdin) + 1
          /\ \A i \in 1..Len(stdin) : Call(i, id)' <=> Call(i, id)
          /\ \A k : k = Len(stdin) + 1 => ~Call(k, id)'
      BY <2>3, <3>1, <3>2
    <3>4. \A i \in 1..Len(stdin') : Call(i, id)' => i \in 1..Len(stdin) /\ Call(i, id)
      BY <3>3
    <3>5. UniqueCall(id)' /\ (Queued(id)' => Queued(id))
      BY <1>0, <2>1, <3>4 DEF UniqueCall, Queued
    <3> QED
      BY <1>0, <2>1, <2>2, <3>2, <3>5, OnceKept
  <2>5. ASSUME NEW n \in AgentIds, NEW target \in Apps \cup {Workspace}, AgentCalls(n, target)
        PROVE  OnceOf(id)' /\ AnswerOf(id)'
    <3> DEFINE m == [type |-> "call", id |-> n, target |-> target]
    <3>1. m \in Requests /\ m.id = n
      BY DEF Requests
    <3>2. stdin' = Append(stdin, m) /\ n \notin sent /\ sent' = sent \cup {n}
      BY <2>5 DEF AgentCalls
    <3> HIDE DEF m
    <3>3. /\ Len(stdin) \in Nat /\ Len(stdin') = Len(stdin) + 1
          /\ \A i \in 1..Len(stdin) : Call(i, id)' <=> Call(i, id)
          /\ \A k : k = Len(stdin) + 1 /\ Call(k, id)' => id = n
      BY <2>3, <3>1, <3>2
    <3>4. CASE id # n
      <4>1. \A i \in 1..Len(stdin') : Call(i, id)' => i \in 1..Len(stdin) /\ Call(i, id)
        BY <3>3, <3>4
      <4>2. UniqueCall(id)' /\ (Queued(id)' => Queued(id))
        BY <1>0, <2>1, <4>1 DEF UniqueCall, Queued
      <4> QED
        BY <1>0, <2>1, <2>2, <3>2, <4>2, OnceKept
    <3>5. CASE id = n
      <4>1. ~Queued(id) /\ ~Entered(id) /\ ~Relayed(id) /\ answers[id] = <<>>
        BY <1>0, <3>2, <3>5 DEF OnceOf
      <4>2. \A i \in 1..Len(stdin) : ~Call(i, id)
        <5>1. ASSUME NEW i \in 1..Len(stdin), Call(i, id)
              PROVE  FALSE
          <6>1. i = 1 /\ main = "write"
            BY <4>1, <5>1 DEF Queued
          <6>2. stdin[1] = Head(stdin)
            BY <1>0, <5>1
          <6>3. Head(stdin).id = id
            BY <5>1, <6>1, <6>2 DEF Call
          <6>4. Entered(id)
            BY <6>1, <6>3 DEF LockInv, Entered
          <6> QED
            BY <4>1, <6>4
        <5> QED
          BY <5>1
      <4>3. UniqueCall(id)'
        BY <3>3, <4>2 DEF UniqueCall
      <4>4. ~Entered(id)' /\ ~Relayed(id)' /\ answers'[id] = <<>> /\ id \in sent'
        BY <2>1, <2>2, <3>2, <3>5, <4>1 DEF Entered, Relayed
      <4>5. UniqueEntry(id)' /\ UniqueRelay(id)' /\ AnswerOf(id)'
        BY <1>0, <2>1, <2>2 DEF OnceOf, UniqueEntry, UniqueRelay, AnswerOf
      <4> QED
        BY <4>3, <4>4, <4>5 DEF OnceOf
    <3> QED
      BY <3>4, <3>5
  <2> QED
    BY <1>3, <2>4, <2>5 DEF AgentStep
<1> QED
  BY <1>1, <1>2, <1>3, AggregatorSteps, OnceMain, OnceReader

(***************************************************************************)
(* No entry is leaked                                                      *)
(***************************************************************************)
ExplainedOf(fl) ==
    \/ fl.lid \in Carried(fl.of)
    \/ lock # <<>> /\ fl.lid = next_local_id
    \/ reader[fl.slot] = "lookup" /\ held[fl.slot].msg.lid = fl.lid
    \/ link[fl.of] = "closed"

\* Carried is about what is under way.
LEMMA CarriedRiding ==
    ASSUME NEW a, NEW l
    PROVE  /\ l \in Carried(a) <=> \E m \in Riding(a) : m.lid = l
           /\ (l \in Carried(a) <=> \E m \in Riding(a) : m.lid = l)'
<1>1. l \in Carried(a) <=> \E m \in Riding(a) : m.lid = l
  BY DEF Carried, Riding, Elems
<1>2. (l \in Carried(a) <=> \E m \in Riding(a) : m.lid = l)'
  BY DEF Carried, Riding, Elems
<1> QED
  BY <1>1, <1>2

\* An entry stays explained while its frame stays under way.
LEMMA ExplainedKept ==
    ASSUME NEW fl \in inflight, ExplainedOf(fl), fl.lid # 0,
           \A m \in Riding(fl.of) : m.lid = fl.lid =>
               \/ \E n \in Riding(fl.of)' : n.lid = fl.lid
               \/ link'[fl.of] = "closed"
               \/ reader'[fl.slot] = "lookup" /\ held'[fl.slot].msg.lid = fl.lid,
           link[fl.of] = "closed" => link'[fl.of] = "closed",
           reader[fl.slot] = "lookup" => reader'[fl.slot] = "lookup" /\ held'[fl.slot] = held[fl.slot],
           lock # <<>> /\ fl.lid = next_local_id => lock' = lock /\ next_local_id' = next_local_id
    PROVE  ExplainedOf(fl)'
<1>1. CASE fl.lid \in Carried(fl.of)
  <2>1. PICK m \in Riding(fl.of) : m.lid = fl.lid
    BY <1>1, CarriedRiding
  <2>2. CASE \E n \in Riding(fl.of)' : n.lid = fl.lid
    <3>1. PICK a, l : a = fl.of /\ l = fl.lid
      OBVIOUS
    <3>2. (l \in Carried(a))'
      BY <2>2, <3>1, CarriedRiding
    <3> QED
      BY <3>1, <3>2 DEF ExplainedOf
  <2>3. CASE link'[fl.of] = "closed" \/ (reader'[fl.slot] = "lookup" /\ held'[fl.slot].msg.lid = fl.lid)
    BY <2>3 DEF ExplainedOf
  <2> QED
    BY <2>1, <2>2, <2>3
<1>2. CASE fl.lid \notin Carried(fl.of)
  BY <1>2 DEF ExplainedOf
<1> QED
  BY <1>1, <1>2

\* What an app does on its connection keeps the ids under way on it.
LEMMA CarriedByApp ==
    ASSUME AllTypes, LinkInv, NEW a \in Apps, AppStep(a), NEW b \in Apps, NEW m \in Riding(b), m.lid # 0
    PROVE  (\E n \in Riding(b)' : n.lid = m.lid) \/ link'[b] = "closed" \/ link[b] = "none"
<1>0. LinkTypes /\ toApp[a] \in Seq(Frames) /\ fromApp[a] \in Seq(Frames) /\ serving[a] \in Frames
  BY DEF AllTypes, LinkTypes
<1>1. CASE AppStart(a) \/ AppHang(a)
  BY <1>1 DEF AppStart, AppHang, linkVars, Riding
<1>2. CASE AppDies(a) \/ AppHangsUp(a)
  <2>1. /\ link'[a] = IF link[a] = "open" THEN "closed" ELSE link[a]
        /\ link[a] \in {"none", "open", "closed"} /\ UNCHANGED fromApp
        /\ \A c \in Apps \ {a} : toApp'[c] = toApp[c] /\ serving'[c] = serving[c]
    BY <1>0, <1>2 DEF AppDies, AppHangsUp, Closed, LinkTypes
  <2>2. CASE b = a
    BY <2>1, <2>2
  <2>3. CASE b # a
    <3>1. Riding(b)' = Riding(b)
      BY <2>1, <2>3 DEF Riding, Elems
    <3> QED
      BY <3>1
  <2> QED
    BY <2>2, <2>3
<1>3. CASE AppServes(a)
  <2>1. /\ toApp[a] # <<>> /\ serving[a] = NoMsg
        /\ serving'[a] = [Head(toApp[a]) EXCEPT !.ver = version[a]]
        /\ toApp'[a] = Tail(toApp[a])
        /\ \A c \in Apps \ {a} : toApp'[c] = toApp[c] /\ serving'[c] = serving[c]
        /\ UNCHANGED fromApp
    BY <1>0, <1>3 DEF AppServes, LinkTypes
  <2>2. CASE b = a
    <3>1. Elems(toApp[a]) = {Head(toApp[a])} \cup Elems(Tail(toApp[a])) /\ Head(toApp[a]) \in Frames
      BY <1>0, <2>1, QueueFacts
    <3>2. serving'[a].lid = Head(toApp[a]).lid
      BY <2>1, <3>1 DEF Frames
    <3>3. m # serving[a]
      BY <2>1 DEF NoMsg, Msg
    <3>4. Riding(a)' = {serving'[a]} \cup Elems(toApp'[a]) \cup Elems(fromApp'[a])
      BY DEF Riding, Elems
    <3>5. m \in Elems(toApp[a]) \/ m \in Elems(fromApp[a])
      BY <2>2, <3>3 DEF Riding
    <3> QED
      BY <2>1, <2>2, <3>1, <3>2, <3>4, <3>5
  <2>3. CASE b # a
    <3>1. Riding(b)' = Riding(b)
      BY <2>1, <2>3 DEF Riding, Elems
    <3> QED
      BY <3>1
  <2> QED
    BY <2>2, <2>3
<1>4. CASE AppReplies(a)
  <2> DEFINE r == [serving[a] EXCEPT !.type = "reply"]
  <2>1. /\ fromApp'[a] = Append(fromApp[a], r) /\ serving'[a] = NoMsg
        /\ \A c \in Apps \ {a} : fromApp'[c] = fromApp[c] /\ serving'[c] = serving[c]
        /\ UNCHANGED toApp
    BY <1>0, <1>4 DEF AppReplies, LinkTypes
  <2>2. r.lid = serving[a].lid /\ r \in Frames
    BY <1>0 DEF Frames
  <2> HIDE DEF r
  <2>3. CASE b = a
    <3>1. Elems(fromApp'[a]) = Elems(fromApp[a]) \cup {r}
      BY <1>0, <2>1, <2>2, QueueFacts
    <3>2. Riding(a)' = {serving'[a]} \cup Elems(toApp'[a]) \cup Elems(fromApp'[a])
      BY DEF Riding, Elems
    <3> QED
      BY <2>1, <2>2, <2>3, <3>1, <3>2 DEF Riding
  <2>4. CASE b # a
    <3>1. Riding(b)' = Riding(b)
      BY <2>1, <2>4 DEF Riding, Elems
    <3> QED
      BY <3>1
  <2> QED
    BY <2>3, <2>4
<1>5. CASE AppChanges(a)
  <2> DEFINE r == Msg("changed", 0, 0, 0)
  <2>1. /\ fromApp'[a] \in {fromApp[a], Append(fromApp[a], r)}
        /\ \A c \in Apps \ {a} : fromApp'[c] = fromApp[c]
        /\ UNCHANGED <<toApp, serving>>
    BY <1>0, <1>5 DEF AppChanges, LinkTypes
  <2>2. r \in Frames
    BY FrameTypes DEF AllTypes
  <2> HIDE DEF r
  <2>3. Elems(fromApp[b]) \subseteq Elems(fromApp'[b])
    <3>1. Elems(Append(fromApp[a], r)) = Elems(fromApp[a]) \cup {r}
      BY <1>0, <2>2, QueueFacts
    <3> QED
      BY <2>1, <3>1
  <2>4. Riding(b)' = {serving'[b]} \cup Elems(toApp'[b]) \cup Elems(fromApp'[b])
    BY DEF Riding, Elems
  <2> QED
    BY <2>1, <2>3, <2>4 DEF Riding
<1> QED
  BY <1>1, <1>2, <1>3, <1>4, <1>5, Zenon DEF AppStep, AppWorks

\* An entry is for a member, whose connection is not gone.
LEMMA EntryFacts ==
    ASSUME AllTypes, MemberInv, TableInv, NEW fl \in inflight
    PROVE  /\ fl.lid # 0 /\ fl.slot \in Slots /\ fl.of \in Apps /\ backends[fl.slot] = fl.of
           /\ link[fl.of] # "none" /\ setup[fl.of] \in {"none", "joined"}
           /\ \A s \in Slots : backends[s] = fl.of => s = fl.slot
<1>1. fl.slot \in Slots /\ fl.of \in Apps /\ next_local_id \in Nat
  BY DEF AllTypes, TableTypes, Entries
<1>2. fl.lid \in 1..next_local_id /\ backends[fl.slot] = fl.of
  BY DEF TableInv
<1>3. fl.slot \in Members
  BY <1>1, <1>2, AggregatorAssumption DEF Members
<1>4. setup[fl.of] \in {"none", "joined"} /\ link[fl.of] # "none"
  BY <1>1, <1>2, <1>3 DEF MemberInv
<1>5. \A s \in Slots : backends[s] = fl.of => s = fl.slot
  BY <1>1, <1>2, <1>3, AggregatorAssumption DEF MemberInv, NoDuplicateBackend, Members
<1> QED
  BY <1>1, <1>2, <1>4, <1>5

\* An entry is explained once its request is written.
LEMMA ExplainedWritten ==
    ASSUME AllTypes, MemberInv, TableInv, InflightExplained, NEW b \in Apps, NEW m \in Frames,
           m.lid = next_local_id, \E gl \in inflight : gl.lid = next_local_id /\ gl.of = b,
           toApp' = [toApp EXCEPT ![b] = Append(@, m)],
           UNCHANGED <<link, fromApp, serving, inflight, next_local_id, held>>,
           NEW fl \in inflight', reader[fl.slot] = "lookup" => reader'[fl.slot] = "lookup"
    PROVE  ExplainedOf(fl)'
<1>0. LinkTypes /\ fl \in inflight /\ ExplainedOf(fl)
  BY DEF AllTypes, InflightExplained, ExplainedOf
<1>1. Elems(toApp'[b]) = Elems(toApp[b]) \cup {m} /\ \A c \in Apps \ {b} : toApp'[c] = toApp[c]
  <2>1. toApp[b] \in Seq(Frames)
    BY <1>0 DEF LinkTypes
  <2> QED
    BY <1>0, <2>1, QueueFacts DEF LinkTypes
<1>2. \A c \in Apps : Riding(c) \subseteq Riding(c)'
  BY <1>1 DEF Riding, Elems
<1>3. m \in Riding(b)'
  BY <1>1 DEF Riding, Elems
<1>4. CASE fl.lid = next_local_id
  <2>1. fl.of = b
    BY <1>0, <1>4 DEF TableInv
  <2>2. PICK l : l = fl.lid
    OBVIOUS
  <2>3. (l \in Carried(b))'
    BY <1>3, <1>4, <2>2, CarriedRiding
  <2> QED
    BY <2>1, <2>2, <2>3 DEF ExplainedOf
<1>5. CASE fl.lid # next_local_id
  BY <1>0, <1>2, <1>5, ExplainedKept, EntryFacts
<1> QED
  BY <1>4, <1>5

\* The main thread leaks no entry.
LEMMA ExplainedMain ==
    ASSUME AllTypes, MemberInv, TableInv, LockInv, InflightExplained, Main, NEW fl \in inflight'
    PROVE  ExplainedOf(fl)'
<1>0. UNCHANGED <<link, fromApp, serving, reader, held>> /\ LinkTypes
  BY MainFrame DEF AllTypes
<1>1. fl \in inflight => ExplainedOf(fl)
  BY DEF InflightExplained, ExplainedOf
<1>2. CASE HandleInitialize \/ HandleToolsList \/ WriteToolsList \/ CallAnsweredHere
  <2>1. UNCHANGED <<toApp, inflight, next_local_id, lock>>
    BY <1>2 DEF HandleInitialize, HandleToolsList, WriteToolsList, CallAnsweredHere, linkVars, tableVars
  <2>2. Riding(fl.of)' = Riding(fl.of)
    BY <1>0, <2>1 DEF Riding, Elems
  <2> QED
    BY <1>0, <1>1, <2>1, <2>2, ExplainedKept, EntryFacts
<1>3. CASE CallAlloc
  <2> DEFINE e == [lid |-> next_local_id + 1, slot |-> Min(Target), kind |-> "agent",
                   orig |-> Head(stdin).id, of |-> backends[Min(Target)]]
  <2>1. /\ inflight' = inflight \cup {e} /\ e.lid = next_local_id' /\ toApp' = toApp
        /\ lock = <<>> /\ lock' = <<"main">>
    BY <1>3, CallEntered DEF inflight_alloc, linkVars
  <2> HIDE DEF e
  <2>2. CASE fl = e
    BY <2>1, <2>2, LockTaken DEF ExplainedOf
  <2>3. CASE fl \in inflight
    <3>1. Riding(fl.of)' = Riding(fl.of)
      BY <1>0, <2>1 DEF Riding, Elems
    <3> QED
      BY <1>0, <1>1, <2>1, <2>3, <3>1, ExplainedKept, EntryFacts
  <2> QED
    BY <2>1, <2>2, <2>3
<1>4. CASE CallWrite
  <2>1. main = "write" /\ stdin # <<>> /\ Head(stdin).type = "call"
    BY <1>4 DEF CallWrite, LockInv
  <2>2. \E gl \in inflight : gl.lid = next_local_id /\ gl.of = Head(stdin).target
    BY <2>1 DEF LockInv
  <2>3. PICK b \in Apps : b = Head(stdin).target
    BY <2>2, EntryFacts
  <2>4. Msg("call", next_local_id, Head(stdin).id, 0) \in Frames
    <3>1. next_local_id \in Nat /\ Head(stdin).id \in AgentIds
      BY <2>1, AnswerTypes, CallType DEF AllTypes, TableTypes
    <3> QED
      BY <3>1, FrameTypes DEF AllTypes
  <2>5. PICK m \in Frames : m = Msg("call", next_local_id, Head(stdin).id, 0)
    BY <2>4
  <2>6. m.lid = next_local_id
    BY <2>5 DEF Msg
  <2>7. toApp' = [toApp EXCEPT ![b] = Append(@, m)] /\ UNCHANGED <<inflight, next_local_id>>
    BY <1>4, <2>3, <2>5 DEF CallWrite, tableVars
  <2> QED
    BY <1>0, <2>2, <2>3, <2>6, <2>7, ExplainedWritten
<1>5. CASE CallWriteFails
  <2>1. /\ toApp' = toApp /\ fl \in inflight /\ fl.lid # next_local_id
    BY <1>5 DEF CallWriteFails, linkVars
  <2>2. Riding(fl.of)' = Riding(fl.of)
    BY <1>0, <2>1 DEF Riding, Elems
  <2> QED
    BY <1>0, <1>1, <2>1, <2>2, ExplainedKept, EntryFacts
<1> QED
  BY <1>2, <1>3, <1>4, <1>5, Zenon DEF Main

\* The readers leak no entry.
LEMMA ExplainedReader ==
    ASSUME AllTypes, MemberInv, TableInv, LockInv, LinkInv, InflightExplained, NEW s \in Slots, Reader(s),
           NEW fl \in inflight'
    PROVE  ExplainedOf(fl)'
<1>0. LinkTypes /\ ReaderTypes
  BY DEF AllTypes
<1>1. fl \in inflight => ExplainedOf(fl)
  BY DEF InflightExplained, ExplainedOf
<1>2. CASE ReaderTop(s) \/ ReaderEOF(s) \/ ReaderRelay(s) \/ ReaderApply(s) \/ ReaderEmit(s) \/ RefreshLost(s)
  <2>1. UNCHANGED <<inflight, next_local_id, lock, serving, link, toApp, fromApp>>
    BY <1>2 DEF ReaderTop, ReaderEOF, ReaderRelay, ReaderApply, ReaderEmit, RefreshLost, tableVars, linkVars
  <2>2. \A t \in Slots : reader[t] = "lookup" => reader'[t] = "lookup" /\ held'[t] = held[t]
    BY <1>0, <1>2 DEF ReaderTop, ReaderEOF, ReaderRelay, ReaderApply, ReaderEmit, RefreshLost, ReaderTypes
  <2>3. Riding(fl.of)' = Riding(fl.of)
    BY <2>1 DEF Riding, Elems
  <2> QED
    BY <1>1, <2>1, <2>2, <2>3, ExplainedKept, EntryFacts
<1>3. CASE ReaderRead(s)
  <2>0. backends[s] \in Apps
    BY <1>3 DEF ReaderRead, MemberInv, AllTypes, MemberTypes
  <2>1. PICK a \in Apps : a = backends[s]
    BY <2>0
  <2>2. /\ UNCHANGED <<inflight, next_local_id, lock, serving, link, toApp>>
        /\ reader[s] = "read" /\ held'[s].msg = Head(fromApp[a]) /\ fromApp[a] # <<>>
        /\ reader'[s] = IF Head(fromApp[a]).type = "changed" THEN "refresh" ELSE "lookup"
        /\ \A t \in Slots \ {s} : reader'[t] = reader[t] /\ held'[t] = held[t]
        /\ fromApp'[a] = Tail(fromApp[a]) /\ \A b \in Apps \ {a} : fromApp'[b] = fromApp[b]
    BY <1>0, <1>3, <2>1 DEF ReaderRead, ReaderTypes, LinkTypes, tableVars
  <2>3. Elems(fromApp[a]) = {Head(fromApp[a])} \cup Elems(Tail(fromApp[a]))
    <3>1. fromApp[a] \in Seq(Frames)
      BY <1>0 DEF LinkTypes
    <3> QED
      BY <2>2, <3>1, QueueFacts
  <2>4. Head(fromApp[a]).type = "changed" => Head(fromApp[a]).lid = 0
    BY <2>3 DEF LinkInv, Framed, FrameOf
  <2>5. Riding(a)' = {serving[a]} \cup Elems(toApp[a]) \cup Elems(Tail(fromApp[a]))
    BY <2>2 DEF Riding, Elems
  <2>6. \A b \in Apps \ {a} : Riding(b)' = Riding(b)
    BY <2>2 DEF Riding, Elems
  <2>7. fl \in inflight /\ fl.lid # 0 /\ fl.of \in Apps /\ (fl.of = a => fl.slot = s) /\ fl.slot \in Slots
    BY <2>1, <2>2, EntryFacts
  <2>8. \A m \in Riding(fl.of) : m.lid = fl.lid =>
               \/ \E n \in Riding(fl.of)' : n.lid = fl.lid
               \/ reader'[fl.slot] = "lookup" /\ held'[fl.slot].msg.lid = fl.lid
    <3>1. CASE fl.of = a
      <4>1. \A m \in Riding(a) : m \in Riding(a)' \/ m = Head(fromApp[a])
        BY <2>3, <2>5 DEF Riding
      <4>2. \A m \in Riding(a) : m.lid = fl.lid =>
               \/ \E n \in Riding(a)' : n.lid = fl.lid
               \/ reader'[s] = "lookup" /\ held'[s].msg.lid = fl.lid
        BY <2>2, <2>4, <2>7, <4>1
      <4> QED
        BY <2>7, <3>1, <4>2
    <3>2. CASE fl.of # a
      BY <2>6, <2>7, <3>2
    <3> QED
      BY <3>1, <3>2
  <2>9. reader[fl.slot] = "lookup" => reader'[fl.slot] = "lookup" /\ held'[fl.slot] = held[fl.slot]
    BY <2>2, <2>7
  <2> QED
    BY <1>1, <2>2, <2>7, <2>8, <2>9, ExplainedKept
<1>4. CASE ReaderLookup(s)
  <2>1. UNCHANGED <<next_local_id, lock, serving, link, toApp, fromApp>>
    BY <1>4 DEF ReaderLookup, linkVars
  <2>2. \A t \in Slots \ {s} : reader'[t] = reader[t] /\ held'[t] = held[t]
    BY <1>0, <1>4 DEF ReaderLookup, ReaderTypes
  <2>3. fl \in inflight /\ fl.lid # held[s].msg.lid
    BY <1>4 DEF ReaderLookup, inflight_find, TableInv
  <2>4. Riding(fl.of)' = Riding(fl.of)
    BY <2>1 DEF Riding, Elems
  <2>5. CASE fl.slot # s
    BY <1>1, <2>1, <2>2, <2>3, <2>4, <2>5, ExplainedKept, EntryFacts
  <2>6. CASE fl.slot = s
    <3>1. \/ fl.lid \in Carried(fl.of) \/ link[fl.of] = "closed"
          \/ lock # <<>> /\ fl.lid = next_local_id
      BY <1>1, <2>3, <2>6 DEF ExplainedOf
    <3>2. (fl.lid \in Carried(fl.of))' <=> fl.lid \in Carried(fl.of)
      BY <2>1 DEF Carried
    <3> QED
      BY <2>1, <3>1, <3>2 DEF ExplainedOf
  <2> QED
    BY <2>5, <2>6
<1>5. CASE RefreshAlloc(s)
  <2> DEFINE e == [lid |-> next_local_id + 1, slot |-> s, kind |-> "refresh", orig |-> 0, of |-> backends[s]]
  <2>1. /\ inflight' = inflight \cup {e} /\ e.lid = next_local_id' /\ UNCHANGED <<serving, link, toApp, fromApp>>
        /\ lock = <<>> /\ lock' = <<"reader", s>>
    BY <1>5, RefreshEntered DEF inflight_alloc, linkVars
  <2> HIDE DEF e
  <2>2. CASE fl = e
    BY <2>1, <2>2, LockTaken DEF ExplainedOf
  <2>3. CASE fl \in inflight
    <3>1. Riding(fl.of)' = Riding(fl.of)
      BY <2>1 DEF Riding, Elems
    <3>2. \A t \in Slots : reader[t] = "lookup" => reader'[t] = "lookup" /\ held'[t] = held[t]
      BY <1>5, RefreshEntered
    <3> QED
      BY <1>1, <2>1, <2>3, <3>1, <3>2, ExplainedKept, EntryFacts
  <2> QED
    BY <2>1, <2>2, <2>3
<1>6. CASE RefreshWrite(s)
  <2>1. reader[s] = "write"
    BY <1>6 DEF RefreshWrite
  <2>2. PICK gl \in inflight : gl.lid = next_local_id /\ gl.slot = s
    BY <2>1 DEF LockInv
  <2>3. PICK b \in Apps : b = backends[s] /\ gl.of = b
    BY <2>2, EntryFacts
  <2>4. Msg("list", next_local_id, 0, 0) \in Frames
    BY FrameTypes DEF AllTypes, TableTypes
  <2>5. PICK m \in Frames : m = Msg("list", next_local_id, 0, 0)
    BY <2>4
  <2>6. m.lid = next_local_id
    BY <2>5 DEF Msg
  <2>7. /\ toApp' = [toApp EXCEPT ![b] = Append(@, m)]
        /\ UNCHANGED <<link, fromApp, serving, inflight, next_local_id, held>>
    BY <1>6, <2>3, <2>5 DEF RefreshWrite, tableVars
  <2>8. reader[fl.slot] = "lookup" => reader'[fl.slot] = "lookup"
    BY <1>0, <1>6, <2>1, <2>7, EntryFacts DEF RefreshWrite, ReaderTypes
  <2> QED
    BY <2>2, <2>3, <2>6, <2>7, <2>8, ExplainedWritten
<1>7. CASE RefreshWriteFails(s)
  <2>1. /\ UNCHANGED <<link, toApp, fromApp, serving, held>> /\ fl \in inflight /\ fl.lid # next_local_id
    BY <1>7 DEF RefreshWriteFails, linkVars
  <2>2. \A t \in Slots : reader[t] = "lookup" => reader'[t] = "lookup"
    BY <1>0, <1>7 DEF RefreshWriteFails, ReaderTypes
  <2>3. Riding(fl.of)' = Riding(fl.of)
    BY <2>1 DEF Riding, Elems
  <2> QED
    BY <1>1, <2>1, <2>2, <2>3, ExplainedKept, EntryFacts
<1>8. CASE backend_teardown_locked(s)
  <2>1. PICK a \in Apps : a = backends[s]
    BY <1>8, TeardownFacts
  <2>2. fl \in inflight /\ fl.slot # s /\ fl.of \in Apps \ {a} /\ fl.slot \in Slots
    BY <1>8, <2>1, TeardownFacts, EntryFacts
  <2>3. /\ serving'[fl.of] = serving[fl.of] /\ toApp'[fl.of] = toApp[fl.of] /\ fromApp'[fl.of] = fromApp[fl.of]
        /\ link'[fl.of] = link[fl.of]
        /\ reader'[fl.slot] = reader[fl.slot] /\ held' = held /\ lock' = lock /\ next_local_id' = next_local_id
    BY <1>8, <2>1, <2>2, TeardownFacts
  <2>4. Riding(fl.of)' = Riding(fl.of)
    BY <2>3 DEF Riding, Elems
  <2> QED
    BY <1>1, <2>2, <2>3, <2>4, ExplainedKept, EntryFacts
<1> QED
  BY <1>2, <1>3, <1>4, <1>5, <1>6, <1>7, <1>8, Zenon DEF Reader

\* No step leaks an entry.
LEMMA ExplainedStep ==
    ASSUME AllTypes, MemberInv, TableInv, TableInv', LockInv, LinkInv, InflightExplained, Next
    PROVE  InflightExplained'
<1> SUFFICES ASSUME NEW fl \in inflight' PROVE ExplainedOf(fl)'
  BY DEF InflightExplained, ExplainedOf, TableInv
<1>0. LinkTypes /\ ReaderTypes
  BY DEF AllTypes
<1>1. fl \in inflight => ExplainedOf(fl)
  BY DEF InflightExplained, ExplainedOf
<1>2. CASE poll_thread \/ emit_list_changed_upstream \/ AgentStep
  <2>1. UNCHANGED <<inflight, next_local_id, lock, serving, link, toApp, fromApp, reader, held>>
    BY <1>2, PollFrame, EmitFrame, AgentFrame
  <2>2. Riding(fl.of)' = Riding(fl.of)
    BY <2>1 DEF Riding, Elems
  <2> QED
    BY <1>1, <2>1, <2>2, ExplainedKept, EntryFacts
<1>3. ASSUME NEW a \in Apps, backend_setup(a)
      PROVE  ExplainedOf(fl)'
  <2>1. UNCHANGED <<inflight, next_local_id, lock, held>>
    BY <1>3, SetupFrame
  <2>2. fl \in inflight /\ fl.of \in Apps /\ setup[fl.of] \in {"none", "joined"} /\ fl.slot \in Slots
    BY <2>1, EntryFacts
  <2>3. CASE connecting_remove(a)
    <3>1. UNCHANGED <<serving, link, toApp, fromApp, reader>>
      BY <2>3 DEF connecting_remove, linkVars, readerVars
    <3>2. Riding(fl.of)' = Riding(fl.of)
      BY <3>1 DEF Riding, Elems
    <3> QED
      BY <1>1, <2>1, <2>2, <3>1, <3>2, ExplainedKept, EntryFacts
  <2>4. CASE ~connecting_remove(a)
    <3>1. setup[a] \in {"connect", "list"}
      BY <1>3, <2>4 DEF backend_setup, SetupConnect, SetupSkip, SetupFails, SetupRegister, SetupNoSlot
    <3>2. fl.of # a
      BY <2>2, <3>1
    <3>3. \A b \in Apps \ {a} : /\ serving'[b] = serving[b] /\ toApp'[b] = toApp[b]
                                /\ fromApp'[b] = fromApp[b] /\ link'[b] = link[b]
      <4>1. CASE SetupConnect(a) \/ SetupSkip(a)
        BY <1>0, <4>1 DEF SetupConnect, SetupSkip, LinkTypes
      <4>2. CASE SetupFails(a) \/ SetupNoSlot(a)
        BY <1>0, <4>2 DEF SetupFails, SetupNoSlot, LinkTypes
      <4>3. CASE SetupRegister(a)
        BY <1>0, <4>3 DEF SetupRegister, LinkTypes
      <4> QED
        BY <1>3, <2>4, <4>1, <4>2, <4>3, Zenon DEF backend_setup
    <3>4. \A t \in Slots : reader[t] = "lookup" => reader'[t] = "lookup"
      <4>1. CASE SetupRegister(a)
        <5>1. FreeSlots \in SUBSET Slots /\ FreeSlots # {}
          BY <4>1 DEF FreeSlots, SetupRegister
        <5>2. Min(FreeSlots) \in FreeSlots
          BY <5>1, FirstIsMember
        <5>3. reader[Min(FreeSlots)] = "none"
          BY <5>2 DEF FreeSlots, MemberInv, Members
        <5> QED
          BY <1>0, <4>1, <5>2, <5>3 DEF SetupRegister, ReaderTypes
      <4>2. CASE ~SetupRegister(a)
        BY <1>3, <2>4, <4>2 DEF backend_setup, SetupConnect, SetupSkip, SetupFails, SetupNoSlot, readerVars
      <4> QED
        BY <4>1, <4>2
    <3>5. Riding(fl.of)' = Riding(fl.of)
      BY <2>2, <3>2, <3>3 DEF Riding, Elems
    <3> QED
      BY <1>1, <2>1, <2>2, <3>2, <3>3, <3>4, <3>5, ExplainedKept, EntryFacts
  <2> QED
    BY <2>3, <2>4
<1>4. ASSUME NEW a \in Apps, AppStep(a)
      PROVE  ExplainedOf(fl)'
  <2>1. UNCHANGED <<inflight, next_local_id, lock, held, reader>>
    BY <1>4, AppFrame
  <2>2. fl \in inflight /\ fl.of \in Apps /\ link[fl.of] # "none" /\ fl.lid # 0
    BY <2>1, EntryFacts
  <2>3. \A m \in Riding(fl.of) : m.lid = fl.lid =>
            (\E n \in Riding(fl.of)' : n.lid = fl.lid) \/ link'[fl.of] = "closed"
    <3>1. PICK b \in Apps : b = fl.of
      BY <2>2
    <3>2. ASSUME NEW m \in Riding(b), m.lid = fl.lid
          PROVE  (\E n \in Riding(b)' : n.lid = fl.lid) \/ link'[b] = "closed"
      BY <1>4, <2>2, <3>1, <3>2, CarriedByApp
    <3>3. Riding(b)' = Riding(fl.of)'
      BY <3>1
    <3> QED
      BY <3>1, <3>2, <3>3
  <2>4. link[fl.of] = "closed" => link'[fl.of] = "closed"
    BY <1>0, <1>4, <2>2 DEF AppStep, AppWorks, AppServes, AppReplies, AppStart, AppHang, AppDies, AppHangsUp,
                            Closed, AppChanges, linkVars, LinkTypes
  <2> QED
    BY <1>1, <2>1, <2>2, <2>3, <2>4, ExplainedKept
<1> QED
  BY <1>2, <1>3, <1>4, AggregatorSteps, ExplainedMain, ExplainedReader

(***************************************************************************)
(* What the agent is told                                                  *)
(***************************************************************************)
Known == IF main = "list" THEN built ELSE view
ListQueued == \E i \in 1..Len(stdin) : stdin[i].type = "tools/list" /\ (i > 1 \/ main # "list")
Due ==
    \/ told \/ emitters > 0 \/ ListQueued
    \/ \E s \in Slots : reader[s] = "emit"
    \/ \E a \in Apps : setup[a] = "joined"

\* AgentTold is about these, now and in the next state.
LEMMA ToldMeans ==
    /\ AgentTold <=> (Known \notin {NoView, Surface} => Due)
    /\ AgentTold' <=> (Known' \notin {NoView, Surface'} => Due')
<1>1. AgentTold <=> (Known \notin {NoView, Surface} => Due)
  BY DEF AgentTold, Known, Due, ListQueued
<1>2. AgentTold' <=> (Known' \notin {NoView, Surface'} => Due')
  BY DEF AgentTold, Known, Due, ListQueued, NoView
<1> QED
  BY <1>1, <1>2

\* Whoever has a list is initialized.
LEMMA KnownInitialized ==
    ASSUME ListInv, Known # NoView
    PROVE  agent_initialized
  BY DEF ListInv, Known

\* Only an initialized agent lists: every step keeps it so.
LEMMA ListStep ==
    ASSUME AllTypes, LockInv, ListInv, Next
    PROVE  ListInv'
<1>0. stdin \in Seq(Requests) /\ agent_initialized \in BOOLEAN
  BY DEF AllTypes, MainTypes
<1>1. CASE Main
  <2>1. CASE HandleInitialize
    BY <2>1 DEF HandleInitialize, ListInv
  <2>2. CASE ~HandleInitialize
    <3>1. agent_initialized' = agent_initialized
      BY <1>1, <2>2 DEF Main, HandleToolsList, WriteToolsList, CallAnsweredHere, CallAlloc, CallWrite,
                        CallWriteFails, mainVars
    <3>2. \/ main = "list"
          \/ stdin # <<>> /\ Head(stdin).type \in {"tools/list", "call"}
      BY <1>1, <2>2 DEF Main, HandleToolsList, WriteToolsList, CallAnsweredHere, CallAlloc, CallWrite,
                        CallWriteFails, Requested, LockInv
    <3>3. stdin # <<>> => stdin[1] = Head(stdin) /\ 1 \in 1..Len(stdin)
      BY <1>0
    <3>4. agent_initialized
      BY <3>2, <3>3 DEF ListInv
    <3> QED
      BY <3>1, <3>4 DEF ListInv
  <2> QED
    BY <2>1, <2>2
<1>2. CASE AgentStep
  BY <1>2, AgentFrame DEF AgentStep, AgentLists, AgentCalls, ListInv
<1>3. CASE ~Main /\ ~AgentStep
  <2>1. UNCHANGED <<agent_initialized, view, main, stdin>>
    BY <1>3, AggregatorSteps, PollFrame, EmitFrame, ReaderFrame, SetupFrame, AppFrame
  <2> QED
    BY <2>1 DEF ListInv
<1> QED
  BY <1>1, <1>2, <1>3

\* If neither the list it has nor the tools change, what is due stays due.
LEMMA ToldKept ==
    ASSUME AgentTold, Known' = Known, Surface' = Surface, Due => Due'
    PROVE  AgentTold'
  BY ToldMeans

\* Nothing changes for the agent.
LEMMA ToldSame ==
    ASSUME AgentTold, UNCHANGED <<main, built, view, backends, cache, stdin>>,
           told => told', emitters > 0 => emitters' > 0 \/ told',
           \A s \in Slots : reader[s] = "emit" => reader'[s] = "emit",
           \A a \in Apps : setup[a] = "joined" => setup'[a] = "joined" \/ emitters' > 0
    PROVE  AgentTold'
<1>1. Known' = Known /\ Surface' = Surface
  BY DEF Known, Surface, Members
<1>2. ListQueued => ListQueued'
  BY DEF ListQueued
<1>3. Due => Due'
  BY <1>2 DEF Due
<1> QED
  BY <1>1, <1>3, ToldKept

\* The main thread: a list it hands over is the one it has just built.
LEMMA ToldMain ==
    ASSUME AllTypes, LockInv, AgentTold, Main
    PROVE  AgentTold'
<1>0. UNCHANGED <<backends, cache, reader, setup, emitters, told>> /\ stdin \in Seq(Requests)
  BY MainFrame DEF AllTypes, MainTypes
<1>1. Surface' = Surface
  BY <1>0 DEF Surface, Members
<1>2. CASE HandleToolsList
  <2>1. Known' = Surface
    BY <1>2 DEF HandleToolsList, Known
  <2> QED
    BY <1>1, <2>1, ToldMeans
<1>3. CASE CallAlloc
  <2>1. UNCHANGED <<stdin, view, built>> /\ main # "list" /\ main' # "list"
    BY <1>3 DEF CallAlloc, agentVars, Requested
  <2>2. Known' = Known /\ (ListQueued => ListQueued')
    BY <2>1 DEF Known, ListQueued
  <2> QED
    BY <1>0, <1>1, <2>2, ToldKept DEF Due
<1>4. CASE ~HandleToolsList /\ ~CallAlloc
  <2>1. /\ stdin # <<>> /\ stdin' = Tail(stdin) /\ main' # "list"
        /\ main # "list" => Head(stdin).type # "tools/list"
    BY <1>4 DEF Main, HandleInitialize, WriteToolsList, CallAnsweredHere, CallWrite, CallWriteFails,
                Requested, LockInv, mainVars
  <2>2. Known' = Known
    BY <1>4 DEF Main, HandleInitialize, WriteToolsList, CallAnsweredHere, CallWrite, CallWriteFails,
                Requested, Known, mainVars
  <2>3. ListQueued => ListQueued'
    <3>1. ASSUME NEW i \in 1..Len(stdin), stdin[i].type = "tools/list", i > 1 \/ main # "list"
          PROVE  ListQueued'
      <4>1. i # 1
        <5>1. stdin[1] = Head(stdin)
          BY <1>0, <2>1
        <5> QED
          BY <2>1, <3>1, <5>1
      <4>2. i - 1 \in 1..Len(stdin') /\ stdin'[i - 1] = stdin[i]
        BY <1>0, <2>1, <4>1
      <4> QED
        BY <2>1, <3>1, <4>2 DEF ListQueued
    <3> QED
      BY <3>1 DEF ListQueued
  <2> QED
    BY <1>0, <1>1, <2>2, <2>3, ToldKept DEF Due
<1> QED
  BY <1>2, <1>3, <1>4

\* The readers: who changes the tools goes on to emit.
LEMMA ToldReader ==
    ASSUME AllTypes, ListInv, AgentTold, NEW s \in Slots, Reader(s)
    PROVE  AgentTold'
<1>0. UNCHANGED <<main, built, view, stdin, setup>> /\ ReaderTypes /\ emitters \in Nat
  BY ReaderFrame DEF AllTypes, MainTypes
<1>1. CASE ReaderApply(s)
  <2>1. reader'[s] = "emit"
    BY <1>0, <1>1 DEF ReaderApply, ReaderTypes
  <2> QED
    BY <2>1, ToldMeans DEF Due
<1>2. CASE backend_teardown_locked(s)
  <2>1. emitters' > 0
    BY <1>0, <1>2 DEF backend_teardown_locked, FreeSlot
  <2> QED
    BY <2>1, ToldMeans DEF Due
<1>3. CASE ReaderEmit(s)
  <2>1. UNCHANGED <<backends, cache>> /\ told' = (told \/ agent_initialized)
    BY <1>3 DEF ReaderEmit, memberVars
  <2>2. Known' = Known /\ Surface' = Surface
    BY <1>0, <2>1 DEF Known, Surface, Members
  <2>3. CASE Known = NoView
    BY <2>2, <2>3, ToldMeans
  <2>4. CASE Known # NoView
    BY <2>1, <2>4, KnownInitialized, ToldMeans DEF Due
  <2> QED
    BY <2>3, <2>4
<1>4. CASE ~ReaderApply(s) /\ ~backend_teardown_locked(s) /\ ~ReaderEmit(s)
  <2>1. UNCHANGED <<backends, cache, told, emitters>>
    BY <1>4 DEF Reader, ReaderTop, ReaderRead, ReaderEOF, ReaderLookup, ReaderRelay,
                RefreshLost, RefreshAlloc, RefreshWrite, RefreshWriteFails, memberVars, agentVars, historyVars
  <2>2. \A t \in Slots : reader[t] = "emit" => reader'[t] = "emit"
    BY <1>0, <1>4
       DEF Reader, ReaderTop, ReaderRead, ReaderEOF, ReaderLookup, ReaderRelay,
           RefreshLost, RefreshAlloc, RefreshWrite, RefreshWriteFails, ReaderTypes
  <2> QED
    BY <1>0, <2>1, <2>2, ToldSame
<1> QED
  BY <1>1, <1>2, <1>3, <1>4

\* Every step keeps the agent told.
LEMMA ToldStep ==
    ASSUME AllTypes, MemberInv, LockInv, ListInv, AgentTold, Next
    PROVE  AgentTold'
<1>0. /\ stdin \in Seq(Requests) /\ emitters \in Nat /\ MemberTypes /\ ReaderTypes
      /\ told \in BOOLEAN
  BY DEF AllTypes, MainTypes
<1>1. CASE poll_thread
  <2>1. \A a \in Apps : setup[a] = "joined" => setup'[a] = "joined"
    <3>1. PICK taken \in SUBSET {a \in Apps : ~backend_known(a)} :
             setup' = [a \in Apps |-> IF a \in taken THEN "connect" ELSE setup[a]]
      BY <1>1 DEF poll_thread
    <3>2. \A a \in taken : a \in Apps /\ setup[a] = "none"
      BY <3>1 DEF backend_known, MemberInv
    <3> QED
      BY <3>1, <3>2
  <2> QED
    BY <1>1, <2>1, PollFrame, ToldSame
<1>2. CASE emit_list_changed_upstream
  <2>1. /\ UNCHANGED <<main, built, view, backends, cache, stdin>>
        /\ told' = (told \/ agent_initialized)
    BY <1>2, EmitFrame DEF emit_list_changed_upstream
  <2>2. Known' = Known /\ Surface' = Surface
    BY <2>1 DEF Known, Surface, Members
  <2>3. CASE Known = NoView
    BY <2>2, <2>3, ToldMeans
  <2>4. CASE Known # NoView
    BY <2>1, <2>4, KnownInitialized, ToldMeans DEF Due
  <2> QED
    BY <2>3, <2>4
<1>3. CASE AgentStep
  <2>1. UNCHANGED <<main, built, view, backends, cache, reader, setup, emitters>>
    BY <1>3, AgentFrame
  <2>2. Known' = Known /\ Surface' = Surface
    BY <2>1 DEF Known, Surface, Members
  <2>3. CASE AgentLists
    <3> DEFINE m == [type |-> "tools/list"]
    <3>1. m \in Requests /\ m.type = "tools/list"
      BY DEF Requests
    <3>2. stdin' = Append(stdin, m)
      BY <2>3 DEF AgentLists
    <3> HIDE DEF m
    <3>3. /\ Len(stdin) \in Nat /\ Len(stdin') = Len(stdin) + 1
          /\ stdin'[Len(stdin) + 1] = m
      BY <1>0, <3>1, <3>2
    <3>4. main = "list" => Len(stdin) # 0
      BY <1>0 DEF LockInv
    <3>5. /\ Len(stdin) + 1 \in 1..Len(stdin') /\ stdin'[Len(stdin) + 1].type = "tools/list"
          /\ Len(stdin) + 1 > 1 \/ main' # "list"
      BY <2>1, <3>1, <3>3, <3>4
    <3>6. ListQueued'
      BY <3>5 DEF ListQueued
    <3> QED
      BY <3>6, ToldMeans DEF Due
  <2>4. ASSUME NEW n \in AgentIds, NEW target \in Apps \cup {Workspace}, AgentCalls(n, target)
        PROVE  AgentTold'
    <3> DEFINE m == [type |-> "call", id |-> n, target |-> target]
    <3>1. m \in Requests
      BY DEF Requests
    <3>2. stdin' = Append(stdin, m) /\ told' = told
      BY <2>4 DEF AgentCalls
    <3> HIDE DEF m
    <3>3. /\ Len(stdin) \in Nat /\ Len(stdin') = Len(stdin) + 1
          /\ \A i \in 1..Len(stdin) : i \in 1..Len(stdin') /\ stdin'[i] = stdin[i]
      BY <1>0, <3>1, <3>2
    <3>4. ListQueued => ListQueued'
      BY <2>1, <3>3 DEF ListQueued
    <3> QED
      BY <2>1, <2>2, <3>2, <3>4, ToldKept DEF Due
  <2> QED
    BY <1>3, <2>3, <2>4 DEF AgentStep
<1>4. ASSUME NEW a \in Apps, backend_setup(a)
      PROVE  AgentTold'
  <2>1. UNCHANGED <<main, built, view, stdin, told>>
    BY <1>4, SetupFrame
  <2>2. CASE SetupRegister(a)
    <3>1. setup'[a] = "joined"
      BY <1>0, <2>2 DEF SetupRegister, MemberTypes
    <3> QED
      BY <3>1, ToldMeans DEF Due
  <2>3. CASE connecting_remove(a)
    <3>1. UNCHANGED <<backends, cache, reader>>
      BY <2>3 DEF connecting_remove, readerVars
    <3>2. /\ emitters > 0 => emitters' > 0
          /\ \A b \in Apps : setup[b] = "joined" => setup'[b] = "joined" \/ emitters' > 0
      BY <1>0, <2>3 DEF connecting_remove, MemberTypes
    <3> QED
      BY <2>1, <3>1, <3>2, ToldSame
  <2>4. CASE ~SetupRegister(a) /\ ~connecting_remove(a)
    <3>1. UNCHANGED <<backends, cache, reader, emitters>>
      BY <1>4, <2>4 DEF backend_setup, SetupConnect, SetupSkip, SetupFails, SetupNoSlot, readerVars,
                        memberVars, historyVars
    <3>2. \A b \in Apps : setup[b] = "joined" => setup'[b] = "joined"
      BY <1>0, <1>4, <2>4 DEF backend_setup, SetupConnect, SetupSkip, SetupFails, SetupNoSlot, memberVars,
                              MemberTypes
    <3> QED
      BY <2>1, <3>1, <3>2, ToldSame
  <2> QED
    BY <2>2, <2>3, <2>4
<1>5. ASSUME NEW a \in Apps, AppStep(a)
      PROVE  AgentTold'
  BY <1>5, AppFrame, ToldSame
<1> QED
  BY <1>1, <1>2, <1>3, <1>4, <1>5, AggregatorSteps, ToldMain, ToldReader

(***************************************************************************)
(* The invariant                                                           *)
(***************************************************************************)
\* No app is a member, nothing is in flight, and the agent has not initialized.
LEMMA RouteInit ==
    ASSUME Init
    PROVE  RouteInv
<1>1. AllTypes
  <2>1. NoMsg \in Frames
    BY AggregatorNumbers DEF NoMsg, Msg, Frames
  <2>2. LinkTypes
    BY <2>1, AggregatorNumbers DEF Init, LinkTypes
  <2>3. AppTypes
    BY AggregatorNumbers DEF Init, AppTypes
  <2>4. MemberTypes
    BY AggregatorNumbers DEF Init, MemberTypes
  <2>5. ReaderTypes
    <3>1. NoHold \in [msg : Frames, orig : AgentIds \cup {0}]
      BY <2>1 DEF NoHold
    <3> QED
      BY <3>1 DEF Init, ReaderTypes
  <2>6. TableTypes
    BY FS_EmptySet, AggregatorNumbers DEF Init, TableTypes
  <2>7. MainTypes
    <3>1. stdin \in Seq(Requests)
      BY DEF Init, Requests
    <3>2. answers \in [AgentIds -> Seq({Error, AppsList} \cup {Reply(id) : id \in AgentIds \cup {0}})]
      BY DEF Init
    <3>3. lock = <<>> /\ main = "idle" /\ agent_initialized = FALSE /\ told = FALSE /\ emitters = 0
      BY DEF Init
    <3>4. lists \in 0..MaxLists /\ sent = {} /\ missed = {}
      BY AggregatorNumbers DEF Init
    <3> QED
      BY <3>1, <3>2, <3>3, <3>4 DEF MainTypes
  <2> QED
    BY <2>2, <2>3, <2>4, <2>5, <2>6, <2>7 DEF AllTypes
<1>2. TypeOK /\ AgentTypes
  BY <1>1, TypeParts DEF AllTypes
<1>3. MemberInv
  <2>1. \A s \in Slots : backends[s] = NoApp /\ reader[s] = "none"
    BY DEF Init
  <2>2. Members = {}
    BY <2>1 DEF Members
  <2>3. \A a \in Apps : /\ setup[a] = "none" /\ link[a] = "none" /\ toApp[a] = <<>>
                        /\ fromApp[a] = <<>> /\ serving[a] = NoMsg
    BY DEF Init
  <2>4. connecting = {}
    BY DEF Init
  <2> QED
    BY <2>1, <2>2, <2>3, <2>4, AggregatorAssumption DEF MemberInv, NoDuplicateBackend
<1>4. TableInv /\ InflightExplained
  BY DEF Init, TableInv, InflightExplained
<1>5. LockInv
  BY LockTaken DEF Init, LockInv
<1>6. LinkInv
  <2>1. \A a \in Apps : serving[a] = NoMsg /\ toApp[a] = <<>> /\ fromApp[a] = <<>>
    BY DEF Init
  <2>2. NoMsg \in Frames
    BY AggregatorNumbers DEF NoMsg, Msg, Frames
  <2>3. NoMsg.lid = 0 /\ NoMsg.type = "none" /\ NoMsg.id = 0
    BY DEF NoMsg, Msg
  <2>4. \A a \in Apps : FrameOf(NoMsg, a)
    BY <1>1, <1>4, <1>5, <2>2, <2>3, ZeroFrame DEF AllTypes, MainTypes
  <2> QED
    BY <2>1, <2>3, <2>4, EmptyQueue DEF LinkInv, Framed
<1>7. HeldInv
  BY DEF Init, HeldInv, HeldOf
<1>8. OnceInv
  <2>1. SUFFICES ASSUME NEW id \in AgentIds
                 PROVE  OnceOf(id) /\ AnswerOf(id)
    BY DEF OnceInv
  <2>2. \A i \in 1..Len(stdin) : stdin[i].type = "initialize"
    BY DEF Init
  <2>3. inflight = {} /\ answers[id] = <<>> /\ \A s \in Slots : reader[s] = "none"
    BY DEF Init
  <2>4. ~Queued(id) /\ ~Entered(id) /\ ~Relayed(id) /\ UniqueCall(id) /\ UniqueEntry(id) /\ UniqueRelay(id)
    BY <2>2, <2>3 DEF Queued, Call, Entered, Relayed, Relays, UniqueCall, UniqueEntry, UniqueRelay
  <2> QED
    BY <2>3, <2>4 DEF OnceOf, AnswerOf
<1>9. ListInv /\ AgentTold
  <2>1. view = NoView /\ main = "idle" /\ \A i \in 1..Len(stdin) : stdin[i].type = "initialize"
    BY DEF Init
  <2> QED
    BY <2>1 DEF ListInv, AgentTold
<1> QED
  BY <1>2, <1>3, <1>4, <1>5, <1>6, <1>7, <1>8, <1>9 DEF RouteInv

\* Every step of every thread, app and agent keeps the types.
LEMMA TypesStep ==
    ASSUME AllTypes, MemberInv, LockInv, HeldInv, Next
    PROVE  AllTypes'
<1>1. CASE Main
  BY <1>1, TypesMain
<1>2. CASE poll_thread \/ emit_list_changed_upstream \/ AgentStep
  BY <1>2, TypesRest
<1>3. CASE \E s \in Slots : Reader(s)
  BY <1>3, TypesReader
<1>4. CASE \E a \in Apps : backend_setup(a)
  BY <1>4, TypesSetup
<1>5. CASE \E a \in Apps : AppStep(a)
  BY <1>5, TypesApp
<1> QED
  BY <1>1, <1>2, <1>3, <1>4, <1>5, AggregatorSteps

\* A step that changes nothing keeps the invariant.
LEMMA RouteStutters ==
    ASSUME RouteInv, UNCHANGED vars
    PROVE  RouteInv'
<1> USE DEF vars, linkVars, appVars, memberVars, readerVars, tableVars, mainVars, agentVars, historyVars
<1>1. TypeOK' /\ AgentTypes'
  BY DEF RouteInv, TypeOK, AgentTypes
<1>2. MemberInv' /\ TableInv'
  BY DEF RouteInv, MemberInv, TableInv, NoDuplicateBackend, Members
<1>3. LockInv' /\ LinkInv'
  BY DEF RouteInv, LockInv, LinkInv, Framed, FrameOf, Matches, Unlocked
<1>4. HeldInv'
  BY DEF RouteInv, HeldInv, HeldOf, Framed, FrameOf, Matches, Unlocked
<1>5. OnceInv'
  BY DEF RouteInv, OnceInv, OnceOf, AnswerOf, Queued, Call, Entered, Relayed, Relays, UniqueCall,
         UniqueEntry, UniqueRelay
<1>6. InflightExplained' /\ ListInv'
  BY DEF RouteInv, InflightExplained, Carried, ListInv
<1>7. AgentTold'
  BY DEF RouteInv, AgentTold, Surface, Members
<1> QED
  BY <1>1, <1>2, <1>3, <1>4, <1>5, <1>6, <1>7 DEF RouteInv

\* The invariant is inductive.
LEMMA RouteStep ==
    ASSUME RouteInv, [Next]_vars
    PROVE  RouteInv'
<1>1. CASE UNCHANGED vars
  BY <1>1, RouteStutters
<1>2. CASE Next
  <2>1. AllTypes /\ MemberInv /\ TableInv /\ LockInv /\ LinkInv /\ HeldInv
    BY TypeParts DEF RouteInv, AllTypes
  <2>2. OnceInv /\ InflightExplained /\ ListInv /\ AgentTold
    BY DEF RouteInv
  <2>3. AllTypes'
    BY <1>2, <2>1, TypesStep
  <2>4. TypeOK' /\ AgentTypes'
    BY <2>3, TypePartsNext DEF AllTypes
  <2>5. MemberInv' /\ TableInv' /\ LockInv'
    BY <1>2, <2>1, MemberStep, TableStep, LockStep
  <2>6. LinkInv' /\ HeldInv'
    BY <1>2, <2>1, <2>3, LinkStep, HeldStep
  <2>7. OnceInv' /\ InflightExplained'
    BY <1>2, <2>1, <2>2, <2>5, OnceStep, ExplainedStep
  <2>8. ListInv' /\ AgentTold'
    BY <1>2, <2>1, <2>2, ListStep, ToldStep
  <2> QED
    BY <2>4, <2>5, <2>6, <2>7, <2>8 DEF RouteInv
<1> QED
  BY <1>1, <1>2

\* The invariant of the aggregator: poll, setup and reader threads, the main
\* thread, the apps and the agent keep it, whatever order they run in.
THEOREM AggregatorInvariant == Spec => []RouteInv
<1>1. Init => RouteInv
  BY RouteInit
<1>2. RouteInv /\ [Next]_vars => RouteInv'
  BY RouteStep
<1> QED
  BY <1>1, <1>2, PTL DEF Spec

\* The state of workspace_aggregator.c keeps its types, and the table of
\* inflight_alloc never outgrows MAX_INFLIGHT.
THEOREM AggregatorTypes == Spec => []TypeOK
<1>1. RouteInv => TypeOK
  BY DEF RouteInv
<1> QED
  BY <1>1, AggregatorInvariant, PTL

\* The same app never has two slots: backend_known sees an app in its
\* handshake or in its slot, and connecting_remove comes after registration.
THEOREM AggregatorNoDuplicate == Spec => []NoDuplicateBackend
<1>1. RouteInv => NoDuplicateBackend
  BY DEF RouteInv, MemberInv
<1> QED
  BY <1>1, AggregatorInvariant, PTL

\* A call that the agent makes is answered at most once: by handle_tools_call,
\* by the reader that relays the reply, or by backend_teardown_locked.
THEOREM AggregatorAnsweredOnce == Spec => []AnsweredOnce
<1>1. RouteInv => AnsweredOnce
  BY DEF RouteInv, OnceInv, AnswerOf, AnsweredOnce
<1> QED
  BY <1>1, AggregatorInvariant, PTL

\* What the agent gets under an id is the backend's reply to that call: the
\* local ids of inflight_alloc bring every reply back to its own caller.
THEOREM AggregatorRightAnswer == Spec => []RightAnswer
<1>1. RouteInv => RightAnswer
  BY DEF RouteInv, OnceInv, AnswerOf, RightAnswer
<1> QED
  BY <1>1, AggregatorInvariant, PTL

\* The in-flight table leaks no entry: each one has its request or reply under
\* way, or its backend's reader is about to tear it down.
THEOREM AggregatorExplained == Spec => []InflightExplained
<1>1. RouteInv => InflightExplained
  BY DEF RouteInv
<1> QED
  BY <1>1, AggregatorInvariant, PTL

\* An agent whose tool list is out of date has been sent list_changed, or
\* emit_list_changed_upstream is still to come.
THEOREM AggregatorTold == Spec => []AgentTold
<1>1. RouteInv => AgentTold
  BY DEF RouteInv
<1> QED
  BY <1>1, AggregatorInvariant, PTL

-----------------------------------------------------------------------------
(***************************************************************************)
(* Proof that the tools the aggregator has cached of an app are out of     *)
(* date only while a refresh is due or under way, or a list_changed was    *)
(* lost: CacheExplained.                                                   *)
(*                                                                         *)
(* What slot s will have cached when all that is under way has arrived is  *)
(* what the app has (CacheInv).  For that no reply to a refresh may be     *)
(* dropped (AwaitedInv), hence no id may be under way twice (UniqueInv),   *)
(* and the one list of the handshake must have come before its connection  *)
(* becomes a backend's (HandshakeInv).                                     *)
(***************************************************************************)

\* An app that works on nothing.
IdleOf(a) == serving[a].type = "none" => serving[a] = NoMsg
IdleInv == \A a \in Apps : IdleOf(a)

\* On one connection no id is under way twice.
Distinct(q) == \A i, j \in 1..Len(q) : q[i].lid = q[j].lid => i = j \/ q[i].lid = 0
Apart(P, Q) == \A m \in P, n \in Q : m.lid = n.lid => m.lid = 0
UniqueOf(a) ==
    /\ Distinct(toApp[a]) /\ Distinct(fromApp[a])
    /\ Apart({serving[a]}, Elems(toApp[a])) /\ Apart({serving[a]}, Elems(fromApp[a]))
    /\ Apart(Elems(toApp[a]), Elems(fromApp[a]))
UniqueHeld(s) == reader[s] = "lookup" => Apart({held[s].msg}, Riding(backends[s]))
UniqueInv == (\A a \in Apps : UniqueOf(a)) /\ (\A s \in Slots : UniqueHeld(s))

\* A request for the list, or its reply, on the connection of a member has its
\* entry in the table.
Awaited(m, s) == \E fl \in inflight : fl.lid = m.lid /\ fl.slot = s /\ fl.kind = "refresh"
AwaitedOf(s) ==
    /\ \A m \in Riding(backends[s]) : IsList(m) => Awaited(m, s)
    /\ reader[s] = "lookup" /\ IsList(held[s].msg) => Awaited(held[s].msg, s)
AwaitedInv == \A s \in Members : link[backends[s]] = "open" => AwaitedOf(s)

\* In the handshake one request for the list is under way, and no call.
NoList(q) == \A m \in Elems(q) : ~IsList(m)
OneList(q) == \A i, j \in 1..Len(q) : IsList(q[i]) /\ IsList(q[j]) => i = j
HandshakeOf(a) ==
    /\ \A m \in Riding(a) : m.id = 0
    /\ toApp[a] # <<>> => Len(toApp[a]) = 1 /\ serving[a] = NoMsg /\ NoList(fromApp[a])
    /\ IsList(serving[a]) => NoList(fromApp[a])
    /\ OneList(fromApp[a])
HandshakeInv == \A a \in Apps : setup[a] = "list" => HandshakeOf(a)

\* The last list in q is of version v.
LastIs(q, v) ==
    \E i \in 1..Len(q) : IsList(q[i]) /\ q[i].ver = v /\ \A j \in i + 1..Len(q) : ~IsList(q[j])

\* A newer list of app a will be asked for.
Renewal(a) == (\E m \in Elems(fromApp[a]) : m.type = "changed") \/ ~NoList(toApp[a])

\* The last list under way from app a, or v if there is none, is the app's
\* current one, or will be followed by another.
Settles(a, v) ==
    \/ Renewal(a)
    \/ IsList(serving[a]) /\ serving[a].ver = version[a]
    \/ ~IsList(serving[a]) /\ LastIs(fromApp[a], version[a])
    \/ ~IsList(serving[a]) /\ NoList(fromApp[a]) /\ v = version[a]

\* The list that slot s has, or that its reader has in hand.
Latest(s) ==
    IF reader[s] \in {"lookup", "apply"} /\ IsList(held[s].msg) THEN held[s].msg.ver ELSE cache[s]
NoVersion == MaxChanges + 1

CacheOf(s) == reader[s] \in {"refresh", "write"} \/ Settles(backends[s], Latest(s))
CacheInv ==
    /\ \A s \in Members : link[backends[s]] = "open" /\ backends[s] \notin missed => CacheOf(s)
    /\ \A a \in Apps : setup[a] = "list" /\ link[a] = "open" /\ a \notin missed => Settles(a, NoVersion)

RefreshInv == IdleInv /\ UniqueInv /\ AwaitedInv /\ HandshakeInv /\ CacheInv

-----------------------------------------------------------------------------
(***************************************************************************)
(* Queues                                                                  *)
(***************************************************************************)
\* The places of a queue as it grows and shrinks.
LEMMA QueuePlaces ==
    ASSUME NEW q \in Seq(Frames)
    PROVE  /\ Len(q) \in Nat /\ \A i \in 1..Len(q) : q[i] \in Elems(q)
           /\ \A m \in Frames : /\ Len(Append(q, m)) = Len(q) + 1 /\ Append(q, m)[Len(q) + 1] = m
                                /\ \A i \in 1..Len(q) : Append(q, m)[i] = q[i]
           /\ q # <<>> => /\ Len(Tail(q)) = Len(q) - 1 /\ Len(q) > 0 /\ q[1] = Head(q)
                          /\ \A i \in 1..Len(Tail(q)) : Tail(q)[i] = q[i + 1]
<1>1. \A i \in 1..Len(q) : q[i] \in Elems(q)
  BY DEF Elems
<1>2. Len(q) \in Nat
  OBVIOUS
<1>3. \A m \in Frames : /\ Len(Append(q, m)) = Len(q) + 1 /\ Append(q, m)[Len(q) + 1] = m
                        /\ \A i \in 1..Len(q) : Append(q, m)[i] = q[i]
  OBVIOUS
<1>4. q # <<>> => /\ Len(Tail(q)) = Len(q) - 1 /\ Len(q) > 0 /\ q[1] = Head(q)
                  /\ \A i \in 1..Len(Tail(q)) : Tail(q)[i] = q[i + 1]
  OBVIOUS
<1> QED
  BY <1>1, <1>2, <1>3, <1>4

\* The ids of a queue stay distinct when it gets one that it does not have.
LEMMA DistinctGrows ==
    ASSUME NEW q \in Seq(Frames), NEW m \in Frames, Distinct(q), Apart({m}, Elems(q))
    PROVE  Distinct(Append(q, m))
<1> DEFINE r == Append(q, m)
<1>1. /\ Len(q) \in Nat /\ Len(r) = Len(q) + 1 /\ r[Len(q) + 1] = m
      /\ \A i \in 1..Len(q) : r[i] = q[i] /\ q[i] \in Elems(q)
  BY QueuePlaces
<1> HIDE DEF r
<1>2. SUFFICES ASSUME NEW i \in 1..Len(r), NEW j \in 1..Len(r), r[i].lid = r[j].lid, i # j
               PROVE  r[i].lid = 0
  BY DEF Distinct, r
<1>3. CASE i \in 1..Len(q) /\ j \in 1..Len(q)
  BY <1>1, <1>2, <1>3 DEF Distinct
<1>4. CASE i \in 1..Len(q) /\ j = Len(q) + 1
  BY <1>1, <1>2, <1>4 DEF Apart
<1>5. CASE j \in 1..Len(q) /\ i = Len(q) + 1
  BY <1>1, <1>2, <1>5 DEF Apart
<1> QED
  BY <1>1, <1>2, <1>3, <1>4, <1>5

\* ... and the first one is none of the others.
LEMMA DistinctShrinks ==
    ASSUME NEW q \in Seq(Frames), Distinct(q), q # <<>>
    PROVE  Distinct(Tail(q)) /\ Apart({Head(q)}, Elems(Tail(q)))
<1> DEFINE r == Tail(q)
<1>1. /\ Len(q) \in Nat /\ Len(r) = Len(q) - 1 /\ Len(q) > 0 /\ q[1] = Head(q)
      /\ \A i \in 1..Len(r) : r[i] = q[i + 1]
  BY QueuePlaces
<1> HIDE DEF r
<1>2. \A i, j \in 1..Len(r) : r[i].lid = r[j].lid => i = j \/ r[i].lid = 0
  <2>1. SUFFICES ASSUME NEW i \in 1..Len(r), NEW j \in 1..Len(r), r[i].lid = r[j].lid
                 PROVE  i = j \/ r[i].lid = 0
    OBVIOUS
  <2>2. i + 1 \in 1..Len(q) /\ j + 1 \in 1..Len(q) /\ r[i] = q[i + 1] /\ r[j] = q[j + 1]
    BY <1>1
  <2>3. i + 1 = j + 1 \/ q[i + 1].lid = 0
    BY <2>1, <2>2 DEF Distinct
  <2> QED
    BY <2>2, <2>3
<1>3. \A n \in Elems(r) : Head(q).lid = n.lid => Head(q).lid = 0
  <2>1. SUFFICES ASSUME NEW i \in 1..Len(r), q[1].lid = r[i].lid
                 PROVE  q[1].lid = 0
    BY <1>1 DEF Elems
  <2>2. i + 1 \in 1..Len(q) /\ 1 \in 1..Len(q) /\ i + 1 # 1 /\ r[i] = q[i + 1]
    BY <1>1
  <2> QED
    BY <2>1, <2>2 DEF Distinct
<1> QED
  BY <1>2, <1>3 DEF Distinct, Apart, r

\* The lists in a queue as it grows ...
LEMMA ListsGrow ==
    ASSUME NEW q \in Seq(Frames), NEW m \in Frames
    PROVE  /\ NoList(Append(q, m)) <=> NoList(q) /\ ~IsList(m)
           /\ OneList(q) /\ (~IsList(m) \/ NoList(q)) => OneList(Append(q, m))
           /\ IsList(m) => LastIs(Append(q, m), m.ver)
           /\ \A v : ~IsList(m) /\ LastIs(q, v) => LastIs(Append(q, m), v)
<1> DEFINE r == Append(q, m)
<1>1. /\ Len(q) \in Nat /\ Len(r) = Len(q) + 1 /\ r[Len(q) + 1] = m
      /\ \A i \in 1..Len(q) : r[i] = q[i] /\ q[i] \in Elems(q)
  BY QueuePlaces
<1>2. Elems(r) = Elems(q) \cup {m}
  BY QueueFacts
<1> HIDE DEF r
<1>3. NoList(r) <=> NoList(q) /\ ~IsList(m)
  BY <1>2 DEF NoList
<1>4. ASSUME OneList(q), ~IsList(m) \/ NoList(q)
      PROVE  OneList(r)
  <2>1. SUFFICES ASSUME NEW i \in 1..Len(r), NEW j \in 1..Len(r), IsList(r[i]), IsList(r[j])
                 PROVE  i = j
    BY DEF OneList
  <2>2. CASE i \in 1..Len(q) /\ j \in 1..Len(q)
    BY <1>1, <1>4, <2>1, <2>2 DEF OneList
  <2>3. CASE i = Len(q) + 1 /\ j \in 1..Len(q)
    BY <1>1, <1>4, <2>1, <2>3 DEF NoList
  <2>4. CASE j = Len(q) + 1 /\ i \in 1..Len(q)
    BY <1>1, <1>4, <2>1, <2>4 DEF NoList
  <2> QED
    BY <1>1, <2>2, <2>3, <2>4
<1>5. ASSUME IsList(m)
      PROVE  LastIs(r, m.ver)
  <2>1. Len(q) + 1 \in 1..Len(r) /\ (Len(q) + 1) + 1..Len(r) = {}
    BY <1>1
  <2> QED
    BY <1>1, <1>5, <2>1 DEF LastIs
<1>6. ASSUME NEW v, ~IsList(m), LastIs(q, v)
      PROVE  LastIs(r, v)
  <2>1. PICK i \in 1..Len(q) : IsList(q[i]) /\ q[i].ver = v /\ \A j \in i + 1..Len(q) : ~IsList(q[j])
    BY <1>6 DEF LastIs
  <2>2. i \in 1..Len(r) /\ IsList(r[i]) /\ r[i].ver = v
    BY <1>1, <2>1
  <2>3. ASSUME NEW j \in i + 1..Len(r)
        PROVE  ~IsList(r[j])
    <3>1. CASE j \in i + 1..Len(q)
      BY <1>1, <2>1, <3>1
    <3>2. CASE j = Len(q) + 1
      BY <1>1, <1>6, <3>2
    <3> QED
      BY <1>1, <2>1, <3>1, <3>2
  <2> QED
    BY <2>2, <2>3 DEF LastIs
<1> QED
  BY <1>3, <1>4, <1>5, <1>6 DEF r

\* ... and shrinks.
LEMMA ListsShrink ==
    ASSUME NEW q \in Seq(Frames), q # <<>>
    PROVE  /\ NoList(q) => NoList(Tail(q)) /\ ~IsList(Head(q))
           /\ ~IsList(Head(q)) /\ NoList(Tail(q)) => NoList(q)
           /\ OneList(q) => OneList(Tail(q)) /\ (IsList(Head(q)) => NoList(Tail(q)))
           /\ \A v : LastIs(q, v) => \/ LastIs(Tail(q), v)
                                     \/ IsList(Head(q)) /\ Head(q).ver = v /\ NoList(Tail(q))
<1> DEFINE r == Tail(q)
<1>1. /\ Len(q) \in Nat /\ Len(r) = Len(q) - 1 /\ Len(q) > 0 /\ q[1] = Head(q)
      /\ \A i \in 1..Len(r) : r[i] = q[i + 1]
  BY QueuePlaces
<1>2. Elems(q) = {Head(q)} \cup Elems(r)
  BY QueueFacts
<1> HIDE DEF r
<1>3. /\ NoList(q) => NoList(r) /\ ~IsList(Head(q))
      /\ ~IsList(Head(q)) /\ NoList(r) => NoList(q)
  BY <1>2 DEF NoList
<1>4. ASSUME OneList(q)
      PROVE  OneList(r) /\ (IsList(Head(q)) => NoList(r))
  <2>1. \A i \in 1..Len(r) : i + 1 \in 1..Len(q) /\ i + 1 # 1 /\ 1 \in 1..Len(q)
    BY <1>1
  <2>2. ASSUME NEW i \in 1..Len(r), NEW j \in 1..Len(r), IsList(r[i]), IsList(r[j])
        PROVE  i = j
    <3>1. i + 1 = j + 1
      BY <1>1, <1>4, <2>1, <2>2 DEF OneList
    <3> QED
      BY <1>1, <3>1
  <2>3. ASSUME IsList(Head(q)), NEW i \in 1..Len(r)
        PROVE  ~IsList(r[i])
    BY <1>1, <1>4, <2>1, <2>3 DEF OneList
  <2>4. IsList(Head(q)) => NoList(r)
    BY <2>3 DEF NoList, Elems
  <2> QED
    BY <2>2, <2>4 DEF OneList
<1>5. ASSUME NEW v, LastIs(q, v)
      PROVE  LastIs(r, v) \/ (IsList(Head(q)) /\ Head(q).ver = v /\ NoList(r))
  <2>1. PICK i \in 1..Len(q) : IsList(q[i]) /\ q[i].ver = v /\ \A j \in i + 1..Len(q) : ~IsList(q[j])
    BY <1>5 DEF LastIs
  <2>2. CASE i = 1
    <3>1. \A j \in 1..Len(r) : ~IsList(r[j])
      <4>1. \A j \in 1..Len(r) : j + 1 \in i + 1..Len(q)
        BY <1>1, <2>2
      <4> QED
        BY <1>1, <2>1, <4>1
    <3>2. NoList(r)
      BY <3>1 DEF NoList, Elems
    <3> QED
      BY <1>1, <2>1, <2>2, <3>2
  <2>3. CASE i # 1
    <3>1. PICK k \in 1..Len(r) : k + 1 = i
      <4>1. i - 1 \in 1..Len(r) /\ (i - 1) + 1 = i
        BY <1>1, <2>1, <2>3
      <4> QED
        BY <4>1
    <3>2. IsList(r[k]) /\ r[k].ver = v
      BY <1>1, <2>1, <3>1
    <3>3. \A j \in k + 1..Len(r) : ~IsList(r[j])
      <4>1. \A j \in k + 1..Len(r) : j \in 1..Len(r) /\ j + 1 \in i + 1..Len(q)
        BY <1>1, <3>1
      <4> QED
        BY <1>1, <2>1, <4>1
    <3> QED
      BY <3>2, <3>3 DEF LastIs
  <2> QED
    BY <2>2, <2>3
<1> QED
  BY <1>3, <1>4, <1>5 DEF r

\* An empty queue has no list.
LEMMA EmptyLists == NoList(<<>>) /\ OneList(<<>>) /\ Distinct(<<>>)
  BY EmptyQueue DEF NoList, OneList, Distinct

(***************************************************************************)
(* What a step does to a connection                                        *)
(***************************************************************************)
Same(a) == toApp'[a] = toApp[a] /\ fromApp'[a] = fromApp[a] /\ serving'[a] = serving[a]

\* A thread that holds the lock writes the newest entry to a backend.
WroteOne(a, m) ==
    /\ toApp'[a] = Append(toApp[a], m) /\ m.lid = next_local_id
    /\ IsList(m) => \E fl \in inflight : fl.lid = next_local_id /\ fl.kind = "refresh" /\ fl.of = a
Wrote(a) ==
    /\ fromApp'[a] = fromApp[a] /\ serving'[a] = serving[a]
    /\ lock # <<>> /\ inflight' = inflight /\ \E s \in Slots : backends[s] = a
    /\ \E m \in Frames : WroteOne(a, m)

Served(a) ==
    /\ toApp[a] # <<>> /\ toApp'[a] = Tail(toApp[a]) /\ fromApp'[a] = fromApp[a]
    /\ serving[a] = NoMsg /\ serving'[a] = [Head(toApp[a]) EXCEPT !.ver = version[a]]
Replied(a) ==
    /\ toApp'[a] = toApp[a] /\ fromApp'[a] = Append(fromApp[a], [serving[a] EXCEPT !.type = "reply"])
    /\ serving[a] # NoMsg /\ serving'[a] = NoMsg
Notified(a) ==
    /\ toApp'[a] = toApp[a] /\ fromApp'[a] = Append(fromApp[a], Msg("changed", 0, 0, 0))
    /\ serving'[a] = serving[a]

\* A reader takes a frame, or the setup thread does and is through or drops it.
Took(a) ==
    /\ toApp'[a] = toApp[a] /\ fromApp[a] # <<>> /\ fromApp'[a] = Tail(fromApp[a])
    /\ serving'[a] = serving[a]
    /\ \/ setup[a] = "list" /\ (setup'[a] # "list" \/ a \in missed')
       \/ \E s \in Slots : backends[s] = a /\ reader'[s] # reader[s]

\* The connection is closed, or made.
Cleared(a) ==
    /\ toApp'[a] = <<>> /\ fromApp'[a] \in {fromApp[a], <<>>} /\ serving'[a] = NoMsg
    /\ link'[a] # "open"
Greeted(a) ==
    /\ toApp[a] = <<>> /\ fromApp[a] = <<>> /\ serving[a] = NoMsg /\ link[a] = "none"
    /\ toApp'[a] = <<Msg("list", HandshakeId, 0, 0)>> /\ fromApp'[a] = <<>> /\ serving'[a] = NoMsg

ConnMove(a) ==
    \/ Same(a) \/ Wrote(a) \/ Served(a) \/ Replied(a) \/ Notified(a) \/ Took(a)
    \/ Cleared(a) \/ Greeted(a)

\* Who writes a request, and where to.
LEMMA CallGoes ==
    ASSUME AllTypes, TableInv, LockInv, CallWrite, NEW b \in Apps
    PROVE  Same(b) \/ Wrote(b)
<1> DEFINE m == Msg("call", next_local_id, Head(stdin).id, 0)
<1>1. main = "write" /\ stdin # <<>> /\ Head(stdin).type = "call" /\ lock # <<>>
  <2>1. main = "write" /\ stdin # <<>> /\ Head(stdin).type = "call" /\ lock = <<"main">>
    BY DEF CallWrite, LockInv
  <2> QED
    BY <2>1, LockTaken
<1>2. PICK fl \in inflight : fl.lid = next_local_id /\ fl.of = Head(stdin).target
  BY <1>1 DEF LockInv
<1>3. fl.of \in Apps /\ fl.slot \in Slots /\ backends[fl.slot] = fl.of /\ next_local_id \in Nat
  BY DEF AllTypes, TableTypes, Entries, TableInv
<1>4. Head(stdin).id \in AgentIds
  BY <1>1, AnswerTypes, CallType DEF AllTypes
<1>5. m \in Frames
  BY <1>3, <1>4, FrameTypes DEF AllTypes
<1>6. m.lid = next_local_id /\ ~IsList(m)
  BY DEF Msg, IsList
<1>7. PICK a \in Apps : a = Head(stdin).target
  BY <1>2, <1>3
<1>8. /\ toApp'[a] = Append(toApp[a], m) /\ \A c \in Apps \ {a} : toApp'[c] = toApp[c]
      /\ UNCHANGED <<serving, fromApp, inflight>>
  BY <1>7 DEF CallWrite, tableVars, AllTypes, LinkTypes
<1> HIDE DEF m
<1>9. CASE b = a
  <2>1. WroteOne(a, m)
    BY <1>6, <1>8 DEF WroteOne
  <2> QED
    BY <1>1, <1>2, <1>3, <1>5, <1>7, <1>8, <1>9, <2>1 DEF Wrote
<1>10. CASE b # a
  BY <1>8, <1>10 DEF Same
<1> QED
  BY <1>9, <1>10

\* ... to be told its tools.
LEMMA RefreshGoes ==
    ASSUME AllTypes, MemberInv, TableInv, LockInv, NEW s \in Slots, RefreshWrite(s), NEW b \in Apps
    PROVE  Same(b) \/ Wrote(b)
<1> DEFINE m == Msg("list", next_local_id, 0, 0)
<1>1. reader[s] = "write" /\ lock # <<>> /\ backends[s] \in Apps
  <2>1. reader[s] = "write" /\ lock = <<"reader", s>>
    BY DEF RefreshWrite, LockInv
  <2>2. backends[s] \in Apps
    BY <2>1 DEF MemberInv, AllTypes, MemberTypes
  <2> QED
    BY <2>1, <2>2, LockTaken
<1>2. PICK fl \in inflight : fl.lid = next_local_id /\ fl.kind = "refresh" /\ fl.slot = s
  BY <1>1 DEF LockInv
<1>3. fl.of = backends[s] /\ next_local_id \in Nat
  BY <1>2 DEF TableInv, AllTypes, TableTypes
<1>4. m \in Frames
  BY <1>3, FrameTypes DEF AllTypes
<1>5. m.lid = next_local_id
  BY DEF Msg
<1>6. PICK a \in Apps : a = backends[s]
  BY <1>1
<1>7. /\ toApp'[a] = Append(toApp[a], m) /\ \A c \in Apps \ {a} : toApp'[c] = toApp[c]
      /\ UNCHANGED <<serving, fromApp, inflight>>
  BY <1>6 DEF RefreshWrite, tableVars, AllTypes, LinkTypes
<1> HIDE DEF m
<1>8. CASE b = a
  <2>1. WroteOne(a, m)
    BY <1>2, <1>3, <1>5, <1>6, <1>7 DEF WroteOne
  <2> QED
    BY <1>1, <1>4, <1>6, <1>7, <1>8, <2>1 DEF Wrote
<1>9. CASE b # a
  BY <1>7, <1>9 DEF Same
<1> QED
  BY <1>8, <1>9

\* The connection that a reader reads or frees is its own backend's.
LEMMA ReaderTakes ==
    ASSUME AllTypes, MemberInv, NEW s \in Slots, ReaderRead(s)
    PROVE  /\ backends[s] \in Apps /\ backends' = backends /\ Took(backends[s])
           /\ \A b \in Apps \ {backends[s]} : Same(b)
           /\ held'[s].msg = Head(fromApp[backends[s]])
           /\ reader'[s] = IF Head(fromApp[backends[s]]).type = "changed" THEN "refresh" ELSE "lookup"
           /\ reader[s] = "read"
           /\ \A t \in Slots \ {s} : reader'[t] = reader[t] /\ held'[t] = held[t]
           /\ UNCHANGED <<link, version, cache, missed, setup, inflight>>
<1>1. backends[s] \in Apps /\ reader[s] = "read"
  BY DEF ReaderRead, MemberInv, AllTypes, MemberTypes
<1>2. PICK a \in Apps : a = backends[s]
  BY <1>1
<1>3. /\ fromApp[a] # <<>> /\ fromApp'[a] = Tail(fromApp[a])
      /\ (\A b \in Apps \ {a} : fromApp'[b] = fromApp[b]) /\ UNCHANGED <<toApp, serving>>
  BY <1>2 DEF ReaderRead, AllTypes, LinkTypes
<1>4. /\ held'[s].msg = Head(fromApp[a])
      /\ reader'[s] = IF Head(fromApp[a]).type = "changed" THEN "refresh" ELSE "lookup"
      /\ \A t \in Slots \ {s} : reader'[t] = reader[t] /\ held'[t] = held[t]
  BY <1>2 DEF ReaderRead, AllTypes, ReaderTypes
<1>5. UNCHANGED <<backends, link, version, cache, missed, setup, inflight>>
  BY DEF ReaderRead, memberVars, appVars, historyVars, tableVars
<1>6. Took(a) /\ \A b \in Apps \ {a} : Same(b)
  <2>1. backends[s] = a /\ reader'[s] # reader[s]
    BY <1>1, <1>2, <1>4
  <2> QED
    BY <1>3, <2>1 DEF Took, Same
<1> QED
  BY <1>1, <1>2, <1>4, <1>5, <1>6

\* Every step moves a connection in one of these ways, or not at all.
LEMMA ConnMoves ==
    ASSUME AllTypes, MemberInv, TableInv, LockInv, Next, NEW b \in Apps
    PROVE  ConnMove(b)
<1>0. LinkTypes
  BY DEF AllTypes
<1>1. CASE Main
  <2>1. CASE CallWrite
    BY <2>1, CallGoes DEF ConnMove
  <2>2. CASE ~CallWrite
    BY <1>1, <2>2 DEF Main, HandleInitialize, HandleToolsList, WriteToolsList, CallAnsweredHere, CallAlloc,
                      CallWriteFails, linkVars, Same, ConnMove
  <2> QED
    BY <2>1, <2>2
<1>2. CASE poll_thread \/ emit_list_changed_upstream \/ AgentStep
  BY <1>2, PollFrame, EmitFrame, AgentFrame DEF Same, ConnMove
<1>3. ASSUME NEW s \in Slots, Reader(s)
      PROVE  ConnMove(b)
  <2>1. CASE RefreshWrite(s)
    BY <2>1, RefreshGoes DEF ConnMove
  <2>2. CASE ReaderRead(s)
    BY <2>2, ReaderTakes DEF ConnMove
  <2>3. CASE backend_teardown_locked(s)
    <3>1. PICK a \in Apps : a = backends[s]
      BY <2>3, TeardownFacts
    <3>2. CASE b = a
      BY <2>3, <3>1, <3>2, TeardownFacts DEF Cleared, ConnMove
    <3>3. CASE b # a
      BY <2>3, <3>1, <3>3, TeardownFacts DEF Same, ConnMove
    <3> QED
      BY <3>2, <3>3
  <2>4. CASE ~RefreshWrite(s) /\ ~ReaderRead(s) /\ ~backend_teardown_locked(s)
    <3>1. UNCHANGED linkVars
      BY <1>3, <2>4 DEF Reader, ReaderTop, ReaderEOF, ReaderLookup, ReaderRelay, ReaderApply, ReaderEmit,
                        RefreshLost, RefreshAlloc, RefreshWriteFails
    <3> QED
      BY <3>1 DEF linkVars, Same, ConnMove
  <2> QED
    BY <2>1, <2>2, <2>3, <2>4
<1>4. ASSUME NEW a \in Apps, backend_setup(a)
      PROVE  ConnMove(b)
  <2>1. CASE b # a
    <3>1. toApp'[b] = toApp[b] /\ fromApp'[b] = fromApp[b] /\ serving'[b] = serving[b]
      BY <1>0, <1>4, <2>1 DEF backend_setup, SetupConnect, SetupSkip, SetupFails, SetupRegister, SetupNoSlot,
                              connecting_remove, linkVars, LinkTypes
    <3> QED
      BY <3>1 DEF Same, ConnMove
  <2>2. CASE b = a /\ SetupConnect(a)
    <3>1. link[a] = "none"
      BY <2>2, Candidate DEF SetupConnect
    <3>2. toApp[a] = <<>> /\ fromApp[a] = <<>> /\ serving[a] = NoMsg
      BY <3>1 DEF MemberInv
    <3>3. toApp'[a] = <<Msg("list", HandshakeId, 0, 0)>> /\ UNCHANGED <<fromApp, serving>>
      BY <1>0, <2>2 DEF SetupConnect, LinkTypes
    <3> QED
      BY <2>2, <3>1, <3>2, <3>3 DEF Greeted, ConnMove
  <2>3. CASE b = a /\ (SetupSkip(a) \/ SetupRegister(a))
    <3>1. fromApp[a] # <<>> /\ fromApp'[a] = Tail(fromApp[a]) /\ UNCHANGED <<toApp, serving>>
      BY <1>0, <2>3 DEF SetupSkip, SetupRegister, LinkTypes
    <3>2. setup[a] = "list" /\ (setup'[a] # "list" \/ a \in missed')
      BY <2>3 DEF SetupSkip, SetupRegister, AllTypes, MemberTypes
    <3> QED
      BY <2>3, <3>1, <3>2 DEF Took, ConnMove
  <2>4. CASE b = a /\ (SetupFails(a) \/ SetupNoSlot(a))
    <3>1. toApp'[a] = <<>> /\ fromApp'[a] = <<>> /\ serving'[a] = NoMsg /\ link'[a] = "none"
      BY <1>0, <2>4 DEF SetupFails, SetupNoSlot, LinkTypes
    <3> QED
      BY <2>4, <3>1 DEF Cleared, ConnMove
  <2>5. CASE connecting_remove(a)
    BY <2>5 DEF connecting_remove, linkVars, Same, ConnMove
  <2> QED
    BY <1>4, <2>1, <2>2, <2>3, <2>4, <2>5 DEF backend_setup
<1>5. ASSUME NEW a \in Apps, AppStep(a)
      PROVE  ConnMove(b)
  <2>1. CASE b # a
    <3>1. toApp'[b] = toApp[b] /\ fromApp'[b] = fromApp[b] /\ serving'[b] = serving[b]
      BY <1>0, <1>5, <2>1 DEF AppStep, AppWorks, AppServes, AppReplies, AppStart, AppHang, AppDies,
                              AppHangsUp, Closed, AppChanges, linkVars, LinkTypes
    <3> QED
      BY <3>1 DEF Same, ConnMove
  <2>2. CASE b = a /\ AppServes(a)
    BY <1>0, <2>2 DEF AppServes, LinkTypes, Served, ConnMove
  <2>3. CASE b = a /\ AppReplies(a)
    BY <1>0, <2>3 DEF AppReplies, LinkTypes, Replied, ConnMove
  <2>4. CASE AppStart(a) \/ AppHang(a)
    BY <2>4 DEF AppStart, AppHang, linkVars, Same, ConnMove
  <2>5. CASE b = a /\ (AppDies(a) \/ AppHangsUp(a))
    <3>1. toApp'[a] = <<>> /\ fromApp' = fromApp /\ serving'[a] = NoMsg /\ link'[a] # "open"
      BY <1>0, <2>5 DEF AppDies, AppHangsUp, Closed, LinkTypes
    <3> QED
      BY <2>5, <3>1 DEF Cleared, ConnMove
  <2>6. CASE b = a /\ AppChanges(a)
    BY <1>0, <2>6 DEF AppChanges, LinkTypes, Same, Notified, ConnMove
  <2> QED
    BY <1>5, <2>1, <2>2, <2>3, <2>4, <2>5, <2>6, Zenon DEF AppStep, AppWorks
<1> QED
  BY <1>1, <1>2, <1>3, <1>4, <1>5, AggregatorSteps

(***************************************************************************)
(* Ids                                                                     *)
(***************************************************************************)
\* A frame that was there under the same id, and one the lock's holder wrote.
Old(m, a) == \E n \in Riding(a) : n.lid = m.lid /\ (IsList(m) => IsList(n))
Fresh(m, a) ==
    /\ lock # <<>> /\ m.lid = next_local_id /\ inflight' = inflight
    /\ IsList(m) => \E fl \in inflight : fl.lid = m.lid /\ fl.kind = "refresh" /\ fl.of = a

\* What a connection carries after a step comes from what it carried, is a
\* notification, the request of a handshake, or what the lock's holder wrote.
LEMMA RidingMoves ==
    ASSUME AllTypes, LinkInv, IdleInv, NEW a \in Apps, ConnMove(a), NEW m \in Riding(a)'
    PROVE  Old(m, a) \/ Fresh(m, a) \/ (m.lid = 0 /\ ~IsList(m)) \/ Greeted(a)
<1> DEFINE p == toApp[a]
           q == fromApp[a]
<1>1. /\ p \in Seq(Frames) /\ q \in Seq(Frames) /\ serving[a] \in Frames
      /\ m \in {serving'[a]} \cup Elems(toApp'[a]) \cup Elems(fromApp'[a])
      /\ {serving[a]} \cup Elems(p) \cup Elems(q) = Riding(a)
  BY DEF AllTypes, LinkTypes, Riding
<1>2. NoMsg.lid = 0 /\ ~IsList(NoMsg)
  BY DEF NoMsg, Msg, IsList
<1>3. ASSUME m \in Riding(a)
      PROVE  Old(m, a)
  BY <1>3 DEF Old
<1> HIDE DEF p, q
<1>4. CASE Same(a)
  BY <1>1, <1>3, <1>4 DEF Same, p, q
<1>5. CASE Wrote(a)
  <2>1. PICK n \in Frames : WroteOne(a, n)
    BY <1>5 DEF Wrote
  <2>2. Elems(toApp'[a]) = Elems(p) \cup {n}
    BY <1>1, <2>1, QueueFacts DEF WroteOne, p
  <2>3. CASE m = n
    BY <1>5, <2>1, <2>3 DEF Wrote, WroteOne, Fresh
  <2> QED
    BY <1>1, <1>3, <1>5, <2>2, <2>3 DEF Wrote, q
<1>6. CASE Served(a)
  <2>1. Elems(p) = {Head(p)} \cup Elems(Tail(p)) /\ Head(p) \in Frames
    BY <1>1, <1>6, QueueFacts DEF Served, p
  <2>2. serving'[a] = [Head(p) EXCEPT !.ver = version[a]] /\ toApp'[a] = Tail(p) /\ fromApp'[a] = q
    BY <1>6 DEF Served, p, q
  <2>3. Head(p) \in Riding(a)
    BY <1>1, <2>1
  <2>4. serving'[a].lid = Head(p).lid /\ (IsList(serving'[a]) => IsList(Head(p)))
    BY <2>1, <2>2 DEF Frames, IsList
  <2>5. CASE m = serving'[a]
    BY <2>3, <2>4, <2>5 DEF Old
  <2> QED
    BY <1>1, <1>3, <2>1, <2>2, <2>5
<1>7. CASE Replied(a)
  <2>1. PICK r \in Frames : r = [serving[a] EXCEPT !.type = "reply"]
    BY <1>1 DEF Frames
  <2>2. Elems(fromApp'[a]) = Elems(q) \cup {r} /\ serving'[a] = NoMsg /\ toApp'[a] = p
    BY <1>1, <1>7, <2>1, QueueFacts DEF Replied, p, q
  <2>3. r.lid = serving[a].lid /\ r.id = serving[a].id
    BY <1>1, <2>1 DEF Frames
  <2>4. serving[a].type \in {"call", "list"}
    BY <1>7 DEF Replied, LinkInv, Framed, IdleInv, IdleOf
  <2>5. CASE m = r
    BY <1>1, <2>3, <2>4, <2>5 DEF Old, IsList, LinkInv, Framed, FrameOf
  <2> QED
    BY <1>1, <1>2, <1>3, <2>2, <2>5
<1>8. CASE Notified(a)
  <2>1. PICK n \in Frames : n = Msg("changed", 0, 0, 0)
    BY FrameTypes DEF AllTypes
  <2>2. Elems(fromApp'[a]) = Elems(q) \cup {n} /\ serving'[a] = serving[a] /\ toApp'[a] = p
    BY <1>1, <1>8, <2>1, QueueFacts DEF Notified, p, q
  <2>3. n.lid = 0 /\ ~IsList(n)
    BY <2>1 DEF Msg, IsList
  <2> QED
    BY <1>1, <1>3, <2>2, <2>3
<1>9. CASE Took(a)
  <2>1. Elems(q) = {Head(q)} \cup Elems(Tail(q))
    BY <1>1, <1>9, QueueFacts DEF Took, q
  <2> QED
    BY <1>1, <1>3, <1>9, <2>1 DEF Took, p, q
<1>10. CASE Cleared(a)
  BY <1>1, <1>2, <1>3, <1>10, EmptyQueue DEF Cleared, q
<1> QED
  BY <1>4, <1>5, <1>6, <1>7, <1>8, <1>9, <1>10 DEF ConnMove

\* An app works on nothing, or on a request.
LEMMA IdleStep ==
    ASSUME AllTypes, LinkInv, IdleInv, NEW a \in Apps, ConnMove(a)
    PROVE  IdleOf(a)'
<1>1. CASE Served(a)
  <2>1. toApp[a] # <<>> /\ toApp[a] \in Seq(Frames)
    BY <1>1 DEF Served, AllTypes, LinkTypes
  <2>2. Head(toApp[a]) \in Elems(toApp[a]) /\ Head(toApp[a]) \in Frames
    BY <2>1, QueueFacts
  <2>3. Head(toApp[a]).type # "none"
    BY <2>2 DEF LinkInv, Framed
  <2>4. serving'[a].type = Head(toApp[a]).type
    BY <1>1, <2>2 DEF Served, Frames
  <2> QED
    BY <2>3, <2>4 DEF IdleOf
<1>2. CASE ~Served(a)
  <2>1. serving'[a] \in {serving[a], NoMsg}
    BY <1>2 DEF ConnMove, Same, Wrote, Replied, Notified, Took, Cleared, Greeted
  <2> QED
    BY <2>1 DEF IdleInv, IdleOf
<1> QED
  BY <1>1, <1>2

\* A connection still carries no id twice after a step.
LEMMA UniqueConn ==
    ASSUME AllTypes, LinkInv, UniqueInv, NEW a \in Apps, ConnMove(a)
    PROVE  UniqueOf(a)'
<1> DEFINE p == toApp[a]
           q == fromApp[a]
           x == serving[a]
<1>1. p \in Seq(Frames) /\ q \in Seq(Frames) /\ x \in Frames
  BY DEF AllTypes, LinkTypes
<1>2. /\ Distinct(p) /\ Distinct(q) /\ Apart({x}, Elems(p)) /\ Apart({x}, Elems(q))
      /\ Apart(Elems(p), Elems(q))
  BY DEF UniqueInv, UniqueOf
<1>3. NoMsg.lid = 0
  BY DEF NoMsg, Msg
<1>4. SUFFICES /\ Distinct(toApp'[a]) /\ Distinct(fromApp'[a])
               /\ Apart({serving'[a]}, Elems(toApp'[a])) /\ Apart({serving'[a]}, Elems(fromApp'[a]))
               /\ Apart(Elems(toApp'[a]), Elems(fromApp'[a]))
  BY DEF UniqueOf, Distinct, Apart, Elems
<1>5. CASE Same(a)
  BY <1>2, <1>5 DEF Same
<1>6. CASE Wrote(a)
  <2>1. PICK m \in Frames : WroteOne(a, m)
    BY <1>6 DEF Wrote
  <2>2. m.lid = next_local_id /\ lock # <<>>
    BY <1>6, <2>1 DEF WroteOne, Wrote
  <2>3. x.lid # m.lid /\ (\A n \in Elems(p) : n.lid # m.lid) /\ (\A n \in Elems(q) : n.lid # m.lid)
    BY <2>2 DEF LinkInv, Framed, FrameOf, Unlocked
  <2>4. toApp'[a] = Append(p, m) /\ fromApp'[a] = q /\ serving'[a] = x
    BY <1>6, <2>1 DEF Wrote, WroteOne
  <2>5. Elems(Append(p, m)) = Elems(p) \cup {m}
    BY <1>1, QueueFacts
  <2> HIDE DEF p, q, x
  <2>6. Apart({m}, Elems(p))
    BY <2>3 DEF Apart
  <2>7. Distinct(Append(p, m))
    BY <1>1, <1>2, <2>6, DistinctGrows
  <2>8. Apart({x}, Elems(p) \cup {m}) /\ Apart(Elems(p) \cup {m}, Elems(q))
    BY <1>2, <2>3 DEF Apart
  <2> QED
    BY <1>2, <2>4, <2>5, <2>7, <2>8
<1>7. CASE Served(a)
  <2>1. p # <<>> /\ toApp'[a] = Tail(p) /\ fromApp'[a] = q /\ serving'[a] = [Head(p) EXCEPT !.ver = version[a]]
    BY <1>7 DEF Served
  <2>2. Elems(p) = {Head(p)} \cup Elems(Tail(p)) /\ Head(p) \in Frames
    BY <1>1, <2>1, QueueFacts
  <2> HIDE DEF p, q, x
  <2>3. Distinct(Tail(p)) /\ Apart({Head(p)}, Elems(Tail(p)))
    BY <1>1, <1>2, <2>1, DistinctShrinks
  <2>4. serving'[a].lid = Head(p).lid
    BY <2>1, <2>2 DEF Frames
  <2>5. Apart({serving'[a]}, Elems(Tail(p))) /\ Apart({serving'[a]}, Elems(q)) /\ Apart(Elems(Tail(p)), Elems(q))
    BY <1>2, <2>2, <2>3, <2>4 DEF Apart
  <2> QED
    BY <1>2, <2>1, <2>3, <2>5
<1>8. CASE Replied(a)
  <2>1. PICK r \in Frames : r = [x EXCEPT !.type = "reply"]
    BY <1>1 DEF Frames
  <2>2. toApp'[a] = p /\ fromApp'[a] = Append(q, r) /\ serving'[a] = NoMsg
    BY <1>8, <2>1 DEF Replied
  <2>3. Elems(Append(q, r)) = Elems(q) \cup {r}
    BY <1>1, QueueFacts
  <2> HIDE DEF p, q, x
  <2>4. r.lid = x.lid
    BY <1>1, <2>1 DEF Frames
  <2>5. Apart({r}, Elems(q)) /\ Apart(Elems(p), Elems(q) \cup {r})
    BY <1>2, <2>4 DEF Apart
  <2>6. Distinct(Append(q, r))
    BY <1>1, <1>2, <2>5, DistinctGrows
  <2>7. \A S : Apart({NoMsg}, S)
    BY <1>3 DEF Apart
  <2> QED
    BY <1>2, <2>2, <2>3, <2>5, <2>6, <2>7
<1>9. CASE Notified(a)
  <2>1. PICK r \in Frames : r = Msg("changed", 0, 0, 0)
    BY FrameTypes DEF AllTypes
  <2>2. toApp'[a] = p /\ fromApp'[a] = Append(q, r) /\ serving'[a] = x
    BY <1>9, <2>1 DEF Notified
  <2>3. Elems(Append(q, r)) = Elems(q) \cup {r}
    BY <1>1, QueueFacts
  <2> HIDE DEF p, q, x
  <2>4. r.lid = 0
    BY <2>1 DEF Msg
  <2>5. Apart({r}, Elems(q)) /\ Apart(Elems(p), Elems(q) \cup {r}) /\ Apart({x}, Elems(q) \cup {r})
    BY <1>2, <2>4 DEF Apart
  <2>6. Distinct(Append(q, r))
    BY <1>1, <1>2, <2>5, DistinctGrows
  <2> QED
    BY <1>2, <2>2, <2>3, <2>5, <2>6
<1>10. CASE Took(a)
  <2>1. q # <<>> /\ toApp'[a] = p /\ fromApp'[a] = Tail(q) /\ serving'[a] = x
    BY <1>10 DEF Took
  <2>2. Elems(q) = {Head(q)} \cup Elems(Tail(q))
    BY <1>1, <2>1, QueueFacts
  <2> HIDE DEF p, q, x
  <2>3. Distinct(Tail(q))
    BY <1>1, <1>2, <2>1, DistinctShrinks
  <2>4. Apart({x}, Elems(Tail(q))) /\ Apart(Elems(p), Elems(Tail(q)))
    BY <1>2, <2>2 DEF Apart
  <2> QED
    BY <1>2, <2>1, <2>3, <2>4
<1>11. CASE Cleared(a)
  <2>1. toApp'[a] = <<>> /\ fromApp'[a] \in {q, <<>>} /\ serving'[a] = NoMsg
    BY <1>11 DEF Cleared
  <2> HIDE DEF p, q, x
  <2>2. \A S : Apart({NoMsg}, S) /\ Apart({}, S)
    BY <1>3 DEF Apart
  <2>3. Distinct(fromApp'[a])
    BY <1>2, <2>1, EmptyLists
  <2> QED
    BY <1>2, <2>1, <2>2, <2>3, EmptyLists, EmptyQueue
<1>12. CASE Greeted(a)
  <2>1. PICK m : m = Msg("list", HandshakeId, 0, 0)
    OBVIOUS
  <2>2. toApp'[a] = <<m>> /\ fromApp'[a] = <<>> /\ serving'[a] = NoMsg
    BY <1>12, <2>1 DEF Greeted
  <2>3. Distinct(<<m>>)
    BY DEF Distinct
  <2>4. \A S : Apart({NoMsg}, S) /\ Apart(S, {})
    BY <1>3 DEF Apart
  <2> QED
    BY <2>2, <2>3, <2>4, EmptyLists, EmptyQueue
<1> QED
  BY <1>5, <1>6, <1>7, <1>8, <1>9, <1>10, <1>11, <1>12 DEF ConnMove

\* A reply comes into the hands of a reader when it reads.
LEMMA LookupMoves ==
    ASSUME AllTypes, MemberInv, Next, NEW s \in Slots, reader'[s] = "lookup"
    PROVE  \/ ReaderRead(s)
           \/ reader[s] = "lookup" /\ held'[s] = held[s] /\ backends'[s] = backends[s]
<1>0. ReaderTypes /\ MemberTypes
  BY DEF AllTypes
<1>1. CASE Main
  BY <1>1, MainFrame
<1>2. CASE poll_thread \/ emit_list_changed_upstream \/ AgentStep
  BY <1>2, PollFrame, EmitFrame, AgentFrame
<1>3. ASSUME NEW t \in Slots, Reader(t), ~ReaderRead(s)
      PROVE  reader[s] = "lookup" /\ held'[s] = held[s] /\ backends'[s] = backends[s]
  <2>1. CASE ReaderRead(t)
    BY <1>3, <2>1, ReaderTakes
  <2>2. CASE backend_teardown_locked(t)
    <3>1. reader'[t] = "none" /\ held' = held
          /\ \A u \in Slots \ {t} : backends'[u] = backends[u] /\ reader'[u] = reader[u]
      BY <2>2, TeardownFacts
    <3> QED
      BY <3>1
  <2>3. CASE ReaderTop(t) \/ ReaderEOF(t) \/ ReaderRelay(t) \/ ReaderApply(t) \/ ReaderEmit(t)
    BY <1>0, <2>3 DEF ReaderTop, ReaderEOF, ReaderRelay, ReaderApply, ReaderEmit, memberVars, ReaderTypes
  <2>4. CASE ReaderLookup(t)
    <3>1. reader'[t] # "lookup" /\ backends' = backends
          /\ \A u \in Slots \ {t} : reader'[u] = reader[u] /\ held'[u] = held[u]
      BY <1>0, <2>4 DEF ReaderLookup, memberVars, ReaderTypes
    <3> QED
      BY <3>1
  <2>5. CASE RefreshLost(t) \/ RefreshAlloc(t) \/ RefreshWrite(t) \/ RefreshWriteFails(t)
    <3>1. reader'[t] # "lookup" /\ backends' = backends
          /\ \A u \in Slots \ {t} : reader'[u] = reader[u] /\ held'[u] = held[u]
      BY <1>0, <2>5 DEF RefreshLost, RefreshAlloc, RefreshWrite, RefreshWriteFails, memberVars, ReaderTypes
    <3> QED
      BY <3>1
  <2> QED
    BY <1>3, <2>1, <2>2, <2>3, <2>4, <2>5, Zenon DEF Reader
<1>4. ASSUME NEW a \in Apps, backend_setup(a)
      PROVE  reader[s] = "lookup" /\ held'[s] = held[s] /\ backends'[s] = backends[s]
  <2>1. held' = held
    BY <1>4, SetupFrame
  <2>2. CASE SetupRegister(a)
    <3>1. PICK t : t = Min(FreeSlots)
      OBVIOUS
    <3>2. reader' = [reader EXCEPT ![t] = "top"] /\ backends' = [backends EXCEPT ![t] = a]
      BY <2>2, <3>1 DEF SetupRegister
    <3> QED
      BY <1>0, <2>1, <3>2 DEF ReaderTypes, MemberTypes
  <2>3. CASE ~SetupRegister(a)
    BY <1>4, <2>1, <2>3 DEF backend_setup, SetupConnect, SetupSkip, SetupFails, SetupNoSlot, connecting_remove,
                            memberVars, readerVars
  <2> QED
    BY <2>2, <2>3
<1>5. ASSUME NEW a \in Apps, AppStep(a)
      PROVE  reader[s] = "lookup" /\ held'[s] = held[s] /\ backends'[s] = backends[s]
  BY <1>5, AppFrame
<1> QED
  BY <1>1, <1>2, <1>3, <1>4, <1>5, AggregatorSteps

\* No id comes twice, on a connection or in the hands of a reader.
LEMMA UniqueStep ==
    ASSUME AllTypes, MemberInv, TableInv, LockInv, LinkInv, HeldInv, IdleInv, UniqueInv, Next
    PROVE  UniqueInv'
<1>1. ASSUME NEW a \in Apps
      PROVE  UniqueOf(a)'
  BY ConnMoves, UniqueConn
<1>2. ASSUME NEW s \in Slots, reader'[s] = "lookup"
      PROVE  Apart({held'[s].msg}, Riding(backends[s])')
  <2>1. CASE ReaderRead(s)
    <3>1. PICK a \in Apps : a = backends[s]
      BY <2>1, ReaderTakes
    <3>2. /\ fromApp[a] # <<>> /\ fromApp'[a] = Tail(fromApp[a]) /\ backends' = backends
          /\ serving'[a] = serving[a] /\ toApp'[a] = toApp[a] /\ held'[s].msg = Head(fromApp[a])
      BY <2>1, <3>1, ReaderTakes DEF Took
    <3>3. fromApp[a] \in Seq(Frames) /\ Distinct(fromApp[a])
      BY DEF AllTypes, LinkTypes, UniqueInv, UniqueOf
    <3>4. Apart({Head(fromApp[a])}, Elems(Tail(fromApp[a]))) /\ Head(fromApp[a]) \in Elems(fromApp[a])
      BY <3>2, <3>3, DistinctShrinks, QueueFacts
    <3>5. Apart({serving[a]}, Elems(fromApp[a])) /\ Apart(Elems(toApp[a]), Elems(fromApp[a]))
      BY DEF UniqueInv, UniqueOf
    <3>6. Riding(backends[s])' = {serving[a]} \cup Elems(toApp[a]) \cup Elems(Tail(fromApp[a]))
      BY <3>1, <3>2 DEF Riding, Elems
    <3> QED
      BY <3>2, <3>4, <3>5, <3>6 DEF Apart
  <2>2. CASE reader[s] = "lookup" /\ held'[s] = held[s] /\ backends'[s] = backends[s]
    <3>1. backends[s] \in Apps
      BY <2>2 DEF MemberInv, AllTypes, MemberTypes
    <3>2. PICK a \in Apps : a = backends[s]
      BY <3>1
    <3>3. PICK h : h = held[s].msg
      OBVIOUS
    <3>4. Apart({h}, Riding(a)) /\ FrameOf(h, a)
      BY <2>2, <3>2, <3>3 DEF UniqueInv, UniqueHeld, HeldInv, HeldOf, Framed
    <3>5. ~Unlocked => h.lid # next_local_id
      BY <3>4 DEF FrameOf
    <3>6. ~Greeted(a)
      BY <3>2 DEF Greeted, MemberInv
    <3>7. ASSUME NEW m \in Riding(a)', h.lid = m.lid
          PROVE  m.lid = 0
      <4>1. Old(m, a) \/ Fresh(m, a) \/ m.lid = 0
        BY <3>6, ConnMoves, RidingMoves
      <4>2. CASE Old(m, a)
        BY <3>4, <3>7, <4>2 DEF Old, Apart
      <4>3. CASE Fresh(m, a)
        BY <3>5, <3>7, <4>3 DEF Fresh, Unlocked
      <4> QED
        BY <4>1, <4>2, <4>3
    <3>8. Riding(backends[s])' = Riding(a)'
      BY <2>2, <3>2 DEF Riding
    <3> QED
      BY <2>2, <3>3, <3>7, <3>8 DEF Apart
  <2> QED
    BY <1>2, <2>1, <2>2, LookupMoves
<1>3. ASSUME NEW s \in Slots
      PROVE  UniqueHeld(s)'
  BY <1>2 DEF UniqueHeld, Apart
<1> QED
  BY <1>1, <1>3 DEF UniqueInv

(***************************************************************************)
(* The handshake                                                           *)
(***************************************************************************)
\* A setup thread that waits for the list was waiting, or has just connected.
LEMMA SetupMoves ==
    ASSUME AllTypes, MemberInv, Next, NEW a \in Apps, setup'[a] = "list"
    PROVE  setup[a] = "list" \/ Greeted(a)
<1>0. MemberTypes /\ LinkTypes
  BY DEF AllTypes
<1>1. CASE Main \/ emit_list_changed_upstream \/ AgentStep
  BY <1>1, MainFrame, EmitFrame, AgentFrame
<1>2. CASE poll_thread
  <2>1. PICK taken \in SUBSET Apps : setup' = [b \in Apps |-> IF b \in taken THEN "connect" ELSE setup[b]]
    BY <1>2 DEF poll_thread
  <2> QED
    BY <2>1
<1>3. ASSUME NEW s \in Slots, Reader(s)
      PROVE  setup[a] = "list"
  BY <1>3, ReaderFrame
<1>4. ASSUME NEW b \in Apps, backend_setup(b)
      PROVE  setup[a] = "list" \/ Greeted(a)
  <2>1. CASE b # a \/ ~SetupConnect(b)
    BY <1>0, <1>4, <2>1 DEF backend_setup, SetupConnect, SetupSkip, SetupFails, SetupRegister, SetupNoSlot,
                            connecting_remove, memberVars, MemberTypes
  <2>2. CASE b = a /\ SetupConnect(a)
    <3>1. link[a] = "none"
      BY <2>2, Candidate DEF SetupConnect
    <3>2. toApp[a] = <<>> /\ fromApp[a] = <<>> /\ serving[a] = NoMsg
      BY <3>1 DEF MemberInv
    <3>3. toApp'[a] = <<Msg("list", HandshakeId, 0, 0)>> /\ UNCHANGED <<fromApp, serving>>
      BY <1>0, <2>2 DEF SetupConnect, LinkTypes
    <3> QED
      BY <3>1, <3>2, <3>3 DEF Greeted
  <2> QED
    BY <2>1, <2>2
<1>5. ASSUME NEW b \in Apps, AppStep(b)
      PROVE  setup[a] = "list"
  BY <1>5, AppFrame
<1> QED
  BY <1>1, <1>2, <1>3, <1>4, <1>5, AggregatorSteps

\* In the handshake the list is asked for once, and comes once.
LEMMA HandshakeStep ==
    ASSUME AllTypes, MemberInv, TableInv, LockInv, LinkInv, IdleInv, HandshakeInv, Next
    PROVE  HandshakeInv'
<1>1. SUFFICES ASSUME NEW a \in Apps, setup'[a] = "list"
               PROVE  HandshakeOf(a)'
  BY DEF HandshakeInv
<1> DEFINE p == toApp[a]
           q == fromApp[a]
           x == serving[a]
<1>2. p \in Seq(Frames) /\ q \in Seq(Frames) /\ x \in Frames
  BY DEF AllTypes, LinkTypes
<1>3. ~IsList(NoMsg) /\ NoMsg.id = 0
  BY DEF NoMsg, Msg, IsList
<1>4. SUFFICES /\ \A m \in {serving'[a]} \cup Elems(toApp'[a]) \cup Elems(fromApp'[a]) : m.id = 0
               /\ toApp'[a] # <<>> => Len(toApp'[a]) = 1 /\ serving'[a] = NoMsg /\ NoList(fromApp'[a])
               /\ IsList(serving'[a]) => NoList(fromApp'[a])
               /\ OneList(fromApp'[a])
  BY DEF HandshakeOf, Riding, NoList, OneList, Elems, IsList, NoMsg, Msg
<1>5. CASE Greeted(a)
  <2>1. PICK m : m = Msg("list", HandshakeId, 0, 0)
    OBVIOUS
  <2>2. toApp'[a] = <<m>> /\ fromApp'[a] = <<>> /\ serving'[a] = NoMsg
    BY <1>5, <2>1 DEF Greeted
  <2>3. Len(<<m>>) = 1 /\ Elems(<<m>>) = {m}
    BY DEF Elems
  <2>4. m.id = 0
    BY <2>1 DEF Msg
  <2> QED
    BY <1>3, <2>2, <2>3, <2>4, EmptyLists, EmptyQueue
<1>6. CASE ~Greeted(a)
  <2>1. setup[a] = "list" /\ ConnMove(a)
    BY <1>1, <1>6, SetupMoves, ConnMoves
  <2>2. /\ \A m \in {x} \cup Elems(p) \cup Elems(q) : m.id = 0
        /\ p # <<>> => Len(p) = 1 /\ x = NoMsg /\ NoList(q)
        /\ IsList(x) => NoList(q)
        /\ OneList(q)
    BY <2>1 DEF HandshakeInv, HandshakeOf, Riding
  <2>3. ~Wrote(a)
    BY <2>1, Candidate DEF Wrote
  <2>4. CASE Same(a)
    BY <2>2, <2>4 DEF Same
  <2>5. CASE Served(a)
    <3>1. p # <<>> /\ toApp'[a] = Tail(p) /\ fromApp'[a] = q /\ serving'[a] = [Head(p) EXCEPT !.ver = version[a]]
      BY <2>5 DEF Served
    <3> HIDE DEF p, q, x
    <3>2. Head(p) \in Frames /\ Head(p) \in Elems(p)
      BY <1>2, <3>1, QueueFacts
    <3>3. serving'[a].id = Head(p).id
      BY <3>1, <3>2 DEF Frames
    <3>4. Len(p) = 1
      BY <2>2, <3>1
    <3>5. Tail(p) = <<>>
      BY <1>2, <3>1, <3>4
    <3> QED
      BY <2>2, <3>1, <3>2, <3>3, <3>5, EmptyQueue
  <2>6. CASE Replied(a)
    <3>1. PICK r \in Frames : r = [x EXCEPT !.type = "reply"]
      BY <1>2 DEF Frames
    <3>2. toApp'[a] = p /\ fromApp'[a] = Append(q, r) /\ serving'[a] = NoMsg /\ x # NoMsg
      BY <2>6, <3>1 DEF Replied
    <3>3. x.type \in {"call", "list"} /\ (x.type = "call" => x.id # 0)
      BY <3>2 DEF LinkInv, Framed, FrameOf, IdleInv, IdleOf
    <3> HIDE DEF p, q, x
    <3>4. r.id = 0 /\ IsList(x)
      BY <1>2, <2>2, <3>1, <3>3 DEF Frames, IsList
    <3>5. Elems(Append(q, r)) = Elems(q) \cup {r}
      BY <1>2, QueueFacts
    <3>6. OneList(Append(q, r))
      BY <1>2, <2>2, <3>4, ListsGrow
    <3> QED
      BY <1>3, <2>2, <3>2, <3>4, <3>5, <3>6
  <2>7. CASE Notified(a)
    <3>1. PICK r \in Frames : r = Msg("changed", 0, 0, 0)
      BY FrameTypes DEF AllTypes
    <3>2. toApp'[a] = p /\ fromApp'[a] = Append(q, r) /\ serving'[a] = x
      BY <2>7, <3>1 DEF Notified
    <3> HIDE DEF p, q, x
    <3>3. r.id = 0 /\ ~IsList(r)
      BY <3>1 DEF Msg, IsList
    <3>4. Elems(Append(q, r)) = Elems(q) \cup {r}
      BY <1>2, QueueFacts
    <3>5. OneList(Append(q, r)) /\ (NoList(q) => NoList(Append(q, r)))
      BY <1>2, <2>2, <3>3, ListsGrow
    <3> QED
      BY <2>2, <3>2, <3>3, <3>4, <3>5
  <2>8. CASE Took(a)
    <3>1. q # <<>> /\ toApp'[a] = p /\ fromApp'[a] = Tail(q) /\ serving'[a] = x
      BY <2>8 DEF Took
    <3> HIDE DEF p, q, x
    <3>2. Elems(Tail(q)) \subseteq Elems(q)
      BY <1>2, <3>1, QueueFacts
    <3>3. OneList(Tail(q)) /\ (NoList(q) => NoList(Tail(q)))
      BY <1>2, <2>2, <3>1, ListsShrink
    <3> QED
      BY <2>2, <3>1, <3>2, <3>3
  <2>9. CASE Cleared(a)
    <3>1. toApp'[a] = <<>> /\ fromApp'[a] \in {q, <<>>} /\ serving'[a] = NoMsg
      BY <2>9 DEF Cleared
    <3> HIDE DEF p, q, x
    <3> QED
      BY <1>3, <2>2, <3>1, EmptyLists, EmptyQueue
  <2> QED
    BY <1>6, <2>1, <2>3, <2>4, <2>5, <2>6, <2>7, <2>8, <2>9 DEF ConnMove
<1> QED
  BY <1>5, <1>6

\* What the setup thread registers: the list has come, and no other is under way.
LEMMA Registered ==
    ASSUME AllTypes, MemberInv, LinkInv, HandshakeInv, NEW a \in Apps, SetupRegister(a)
    PROVE  /\ Took(a) /\ IsList(Head(fromApp[a])) /\ \A m \in Riding(a)' : ~IsList(m)
           /\ link' = link /\ missed' = missed /\ inflight' = inflight /\ version' = version
           /\ \E s \in Slots : /\ backends[s] = NoApp /\ backends'[s] = a /\ reader'[s] = "top"
                               /\ cache'[s] = Head(fromApp[a]).ver
                               /\ \A t \in Slots \ {s} : backends'[t] = backends[t]
<1> DEFINE q == fromApp[a]
<1>1. /\ setup[a] = "list" /\ q # <<>> /\ Head(q).type = "reply" /\ fromApp'[a] = Tail(q) /\ toApp' = toApp
      /\ serving' = serving /\ setup'[a] = "joined" /\ FreeSlots # {}
      /\ link' = link /\ missed' = missed /\ inflight' = inflight /\ version' = version
  BY DEF SetupRegister, AllTypes, LinkTypes, MemberTypes, historyVars, tableVars, appVars
<1>2. HandshakeOf(a) /\ q \in Seq(Frames)
  BY <1>1 DEF HandshakeInv, AllTypes, LinkTypes
<1>3. Head(q) \in Elems(q) /\ Head(q) \in Riding(a)
  BY <1>1, <1>2, QueueFacts DEF Riding
<1>4. IsList(Head(q))
  BY <1>1, <1>2, <1>3 DEF HandshakeOf, IsList
<1>5. ~NoList(q)
  BY <1>3, <1>4 DEF NoList
<1>6. toApp[a] = <<>> /\ ~IsList(serving[a]) /\ OneList(q)
  BY <1>2, <1>5 DEF HandshakeOf
<1>7. NoList(Tail(q))
  BY <1>1, <1>2, <1>4, <1>6, ListsShrink
<1>8. Riding(a)' = {serving[a]} \cup Elems(<<>>) \cup Elems(Tail(q))
  BY <1>1, <1>6 DEF Riding, Elems
<1>9. \A m \in Riding(a)' : ~IsList(m)
  BY <1>6, <1>7, <1>8, EmptyQueue DEF NoList
<1>10. PICK s \in Slots : s = Min(FreeSlots) /\ backends[s] = NoApp
  <2>1. FreeSlots \in SUBSET Slots
    BY DEF FreeSlots
  <2>2. Min(FreeSlots) \in FreeSlots
    BY <1>1, <2>1, FirstIsMember
  <2> QED
    BY <2>2 DEF FreeSlots, Members
<1>11. /\ backends' = [backends EXCEPT ![s] = a] /\ cache' = [cache EXCEPT ![s] = Head(q).ver]
       /\ reader' = [reader EXCEPT ![s] = "top"]
  BY <1>10 DEF SetupRegister
<1>12. /\ backends'[s] = a /\ reader'[s] = "top" /\ cache'[s] = Head(q).ver
       /\ \A t \in Slots \ {s} : backends'[t] = backends[t]
  BY <1>11 DEF AllTypes, MemberTypes, ReaderTypes
<1>13. Took(a)
  BY <1>1 DEF Took
<1> QED
  BY <1>1, <1>4, <1>9, <1>10, <1>12, <1>13

(***************************************************************************)
(* Replies that are waited for                                             *)
(***************************************************************************)
\* A member whose connection is open after a step was one before, or has just
\* been registered.
Kept(s) == backends'[s] = backends[s] /\ backends[s] \in Apps /\ link[backends[s]] = "open"
JustMade(s) == \E a \in Apps : SetupRegister(a) /\ backends'[s] = a
LEMMA MemberMoves ==
    ASSUME AllTypes, MemberInv, Next, NEW s \in Slots, backends'[s] # NoApp,
           link'[backends'[s]] = "open"
    PROVE  Kept(s) \/ JustMade(s)
<1>0. MemberTypes /\ LinkTypes
  BY DEF AllTypes
<1>1. CASE Main
  BY <1>0, <1>1, MainFrame DEF Kept, MemberTypes
<1>2. CASE poll_thread \/ emit_list_changed_upstream \/ AgentStep
  BY <1>0, <1>2, PollFrame, EmitFrame, AgentFrame DEF Kept, MemberTypes
<1>3. ASSUME NEW t \in Slots, Reader(t)
      PROVE  Kept(s)
  <2>1. CASE backend_teardown_locked(t)
    <3>1. PICK a \in Apps : a = backends[t]
      BY <2>1, TeardownFacts
    <3>2. /\ backends'[t] = NoApp /\ link'[a] = "none"
          /\ \A u \in Slots \ {t} : backends'[u] = backends[u]
          /\ \A b \in Apps \ {a} : link'[b] = link[b]
      BY <2>1, <3>1, TeardownFacts
    <3> QED
      BY <1>0, <3>2 DEF Kept, MemberTypes
  <2>2. CASE ~backend_teardown_locked(t)
    <3>1. UNCHANGED <<backends, link>>
      BY <1>3, <2>2 DEF Reader, ReaderTop, ReaderRead, ReaderEOF, ReaderLookup, ReaderRelay, ReaderApply,
                        ReaderEmit, RefreshLost, RefreshAlloc, RefreshWrite, RefreshWriteFails, linkVars, memberVars
    <3> QED
      BY <1>0, <3>1 DEF Kept, MemberTypes
  <2> QED
    BY <2>1, <2>2
<1>4. ASSUME NEW a \in Apps, backend_setup(a)
      PROVE  Kept(s) \/ JustMade(s)
  <2>1. CASE SetupRegister(a)
    <3>1. PICK t : t = Min(FreeSlots)
      OBVIOUS
    <3>2. backends' = [backends EXCEPT ![t] = a] /\ link' = link
      BY <2>1, <3>1 DEF SetupRegister
    <3>3. CASE backends'[s] = a
      BY <2>1, <3>3 DEF JustMade
    <3>4. CASE backends'[s] # a
      BY <1>0, <3>2, <3>4 DEF Kept, MemberTypes
    <3> QED
      BY <3>3, <3>4
  <2>2. CASE ~SetupRegister(a)
    <3>1. backends' = backends /\ \A b \in Apps \ {a} : link'[b] = link[b]
      BY <1>0, <1>4, <2>2 DEF backend_setup, SetupConnect, SetupSkip, SetupFails, SetupNoSlot, connecting_remove,
                              memberVars, linkVars, LinkTypes
    <3>2. CASE backends[s] = a
      <4>1. setup[a] \in {"none", "joined"}
        <5>1. s \in Members
          BY <3>2, AggregatorAssumption DEF Members
        <5> QED
          BY <3>2, <5>1 DEF MemberInv
      <4>2. connecting_remove(a)
        BY <1>4, <2>2, <4>1 DEF backend_setup, SetupConnect, SetupSkip, SetupFails, SetupNoSlot
      <4> QED
        BY <3>1, <3>2, <4>2 DEF connecting_remove, linkVars, Kept
    <3>3. CASE backends[s] # a
      BY <1>0, <3>1, <3>3 DEF Kept, MemberTypes
    <3> QED
      BY <3>2, <3>3
  <2> QED
    BY <2>1, <2>2
<1>5. ASSUME NEW a \in Apps, AppStep(a)
      PROVE  Kept(s)
  <2>1. backends' = backends
    BY <1>5, AppFrame
  <2>2. \A b \in Apps : link'[b] = "open" => link[b] = "open"
    BY <1>0, <1>5 DEF AppStep, AppWorks, AppServes, AppReplies, AppStart, AppHang, AppDies,
                      AppHangsUp, Closed, AppChanges, linkVars, LinkTypes
  <2> QED
    BY <1>0, <2>1, <2>2 DEF Kept, MemberTypes
<1> QED
  BY <1>1, <1>2, <1>3, <1>4, <1>5, AggregatorSteps

\* The entry of a refresh of an open backend leaves the table when its reader
\* finds the reply, and not before.
LEMMA EntryStays ==
    ASSUME AllTypes, MemberInv, TableInv, LockInv, HeldInv, Next, NEW s \in Slots, Kept(s),
           NEW fl \in inflight, fl.slot = s, fl.kind = "refresh"
    PROVE  fl \in inflight' \/ (ReaderLookup(s) /\ held[s].msg.lid = fl.lid)
<1>0. /\ \A t \in Slots : backends[t] = backends[s] => t = s
      /\ fl.of = backends[s] /\ backends'[s] # NoApp
      /\ \A gl \in inflight : gl.lid = fl.lid => gl = fl
  <2>1. backends[s] # NoApp /\ backends'[s] = backends[s]
    BY AggregatorAssumption DEF Kept
  <2>2. \A t \in Slots : backends[t] = backends[s] => t = s
    BY <2>1 DEF MemberInv, NoDuplicateBackend, Members
  <2> QED
    BY <2>1, <2>2 DEF TableInv
<1>1. CASE Main
  <2>1. CASE CallWriteFails
    <3>1. main = "write" /\ inflight' = {gl \in inflight : gl.lid # next_local_id}
      BY <2>1 DEF CallWriteFails
    <3>2. \E gl \in inflight : gl.lid = next_local_id /\ gl.kind = "agent"
      BY <3>1 DEF LockInv
    <3>3. fl.lid # next_local_id
      BY <1>0, <3>2
    <3> QED
      BY <3>1, <3>3
  <2>2. CASE ~CallWriteFails
    <3>1. inflight \subseteq inflight'
      BY <1>1, <2>2 DEF Main, HandleInitialize, HandleToolsList, WriteToolsList, CallAnsweredHere, CallAlloc,
                        CallWrite, inflight_alloc, tableVars
    <3> QED
      BY <3>1
  <2> QED
    BY <2>1, <2>2
<1>2. CASE poll_thread \/ emit_list_changed_upstream \/ AgentStep
  BY <1>2, PollFrame, EmitFrame, AgentFrame
<1>3. ASSUME NEW t \in Slots, Reader(t)
      PROVE  fl \in inflight' \/ (ReaderLookup(s) /\ held[s].msg.lid = fl.lid)
  <2>1. CASE ReaderLookup(t)
    <3>1. CASE fl.lid = held[t].msg.lid
      <4>1. reader[t] = "lookup"
        BY <2>1 DEF ReaderLookup
      <4>2. fl.of = backends[t]
        BY <3>1, <4>1 DEF HeldInv, HeldOf, Framed, FrameOf, Matches
      <4> QED
        BY <1>0, <2>1, <3>1, <4>2
    <3>2. CASE fl.lid # held[t].msg.lid
      BY <2>1, <3>2 DEF ReaderLookup, inflight_find
    <3> QED
      BY <3>1, <3>2
  <2>2. CASE RefreshWriteFails(t)
    <3>1. /\ reader[t] = "write" /\ link[backends[t]] = "closed"
          /\ inflight' = {gl \in inflight : gl.lid # next_local_id}
      BY <2>2 DEF RefreshWriteFails
    <3>2. \E gl \in inflight : gl.lid = next_local_id /\ gl.slot = t
      BY <3>1 DEF LockInv
    <3>3. fl.lid # next_local_id
      BY <1>0, <3>1, <3>2 DEF Kept
    <3> QED
      BY <3>1, <3>3
  <2>3. CASE backend_teardown_locked(t)
    <3>1. backends'[t] = NoApp /\ inflight' = {gl \in inflight : gl.slot # t}
      BY <2>3, TeardownFacts
    <3> QED
      BY <1>0, <3>1
  <2>4. CASE ReaderTop(t) \/ ReaderRead(t) \/ ReaderEOF(t) \/ ReaderRelay(t) \/ ReaderApply(t) \/ ReaderEmit(t)
    BY <2>4 DEF ReaderTop, ReaderRead, ReaderEOF, ReaderRelay, ReaderApply, ReaderEmit, tableVars
  <2>5. CASE RefreshLost(t) \/ RefreshAlloc(t) \/ RefreshWrite(t)
    BY <2>5 DEF RefreshLost, RefreshAlloc, RefreshWrite, inflight_alloc, tableVars
  <2> QED
    BY <1>3, <2>1, <2>2, <2>3, <2>4, <2>5, Zenon DEF Reader
<1>4. ASSUME NEW a \in Apps, backend_setup(a)
      PROVE  fl \in inflight'
  BY <1>4, SetupFrame
<1>5. ASSUME NEW a \in Apps, AppStep(a)
      PROVE  fl \in inflight'
  BY <1>5, AppFrame
<1> QED
  BY <1>1, <1>2, <1>3, <1>4, <1>5, AggregatorSteps

\* What a reader does with a reply it looks up.
LEMMA LookupLeaves ==
    ASSUME AllTypes, NEW s \in Slots, ReaderLookup(s)
    PROVE  /\ reader[s] = "lookup" /\ reader'[s] \in {"top", "apply", "relay"}
           /\ UNCHANGED <<linkVars, appVars, memberVars, missed>>
           /\ \A t \in Slots \ {s} : reader'[t] = reader[t] /\ held'[t] = held[t]
  BY DEF ReaderLookup, AllTypes, ReaderTypes, historyVars

\* A request for the list or its reply stays in the table while it is under way.
LEMMA AwaitedStep ==
    ASSUME AllTypes, AllTypes', MemberInv, TableInv, LockInv, LinkInv, HeldInv, IdleInv, UniqueInv, AwaitedInv,
           HandshakeInv, Next
    PROVE  AwaitedInv'
<1>1. SUFFICES ASSUME NEW s \in Slots, backends'[s] # NoApp, link'[backends'[s]] = "open"
               PROVE  AwaitedOf(s)'
  BY DEF AwaitedInv, Members
<1>2. CASE JustMade(s)
  <2>1. PICK a \in Apps : SetupRegister(a) /\ backends'[s] = a
    BY <1>2 DEF JustMade
  <2>2. PICK t \in Slots : /\ backends'[t] = a /\ reader'[t] = "top" /\ backends[t] = NoApp
                           /\ \A u \in Slots \ {t} : backends'[u] = backends[u]
    BY <2>1, Registered
  <2>3. \A u \in Slots : backends[u] # a
    BY <2>1, Candidate DEF SetupRegister
  <2>4. reader'[s] = "top"
    BY <2>1, <2>2, <2>3
  <2>5. \A m \in Riding(a)' : ~IsList(m)
    BY <2>1, Registered
  <2>6. Riding(backends[s])' = Riding(a)'
    BY <2>1 DEF Riding
  <2> QED
    BY <2>4, <2>5, <2>6 DEF AwaitedOf, IsList
<1>3. CASE Kept(s)
  <2>1. PICK a \in Apps : a = backends[s] /\ a = backends'[s] /\ link[a] = "open"
    BY <1>3 DEF Kept
  <2>2. \A t \in Slots : backends[t] = a => t = s
    <3>1. a # NoApp
      BY AggregatorAssumption
    <3>2. NoDuplicateBackend
      BY DEF MemberInv
    <3> QED
      BY <2>1, <3>1, <3>2 DEF NoDuplicateBackend, Members
  <2>3. /\ \A m \in Riding(a) : IsList(m) => Awaited(m, s)
        /\ reader[s] = "lookup" /\ IsList(held[s].msg) => Awaited(held[s].msg, s)
    BY <2>1, AggregatorAssumption DEF AwaitedInv, AwaitedOf, Members
  <2>4. ASSUME NEW m, Awaited(m, s), ~ReaderLookup(s) \/ held[s].msg.lid # m.lid
        PROVE  \E fl \in inflight' : fl.lid = m.lid /\ fl.slot = s /\ fl.kind = "refresh"
    <3>1. PICK fl \in inflight : fl.lid = m.lid /\ fl.slot = s /\ fl.kind = "refresh"
      BY <2>4 DEF Awaited
    <3>2. fl \in inflight'
      BY <1>3, <2>4, <3>1, EntryStays
    <3> QED
      BY <3>1, <3>2
  <2>5. ASSUME NEW m \in Riding(a)', IsList(m)
        PROVE  \E fl \in inflight' : fl.lid = m.lid /\ fl.slot = s /\ fl.kind = "refresh"
    <3>1. Old(m, a) \/ Fresh(m, a)
      <4>1. ~Greeted(a)
        BY <2>1 DEF Greeted
      <4> QED
        BY <2>5, <4>1, ConnMoves, RidingMoves
    <3>2. CASE Fresh(m, a)
      <4>1. inflight' = inflight /\ \E fl \in inflight : fl.lid = m.lid /\ fl.kind = "refresh" /\ fl.of = a
        BY <2>5, <3>2 DEF Fresh
      <4>2. \A fl \in inflight : fl.slot \in Slots /\ backends[fl.slot] = fl.of
        BY DEF AllTypes, TableTypes, Entries, TableInv
      <4> QED
        BY <2>2, <4>1, <4>2
    <3>3. CASE Old(m, a)
      <4>1. PICK n \in Riding(a) : n.lid = m.lid /\ IsList(n)
        BY <2>5, <3>3 DEF Old
      <4>2. Awaited(n, s)
        BY <2>3, <4>1
      <4>3. CASE ~ReaderLookup(s) \/ held[s].msg.lid # n.lid
        BY <2>4, <4>1, <4>2, <4>3
      <4>4. CASE ReaderLookup(s) /\ held[s].msg.lid = n.lid
        <5>1. reader[s] = "lookup"
          BY <4>4, LookupLeaves
        <5>2. n.lid = 0
          BY <2>1, <4>4, <5>1 DEF UniqueInv, UniqueHeld, Apart
        <5>3. \E fl \in inflight : fl.lid = n.lid
          BY <4>2 DEF Awaited
        <5>4. \A fl \in inflight : fl.lid # 0
          BY DEF TableInv, AllTypes, TableTypes
        <5> QED
          BY <5>2, <5>3, <5>4
      <4> QED
        BY <4>3, <4>4
    <3> QED
      BY <3>1, <3>2, <3>3
  <2>6. ASSUME reader'[s] = "lookup", IsList(held'[s].msg)
        PROVE  \E fl \in inflight' : fl.lid = held'[s].msg.lid /\ fl.slot = s /\ fl.kind = "refresh"
    <3>1. ~ReaderLookup(s)
      <4>1. ReaderLookup(s) => reader'[s] # "lookup"
        BY LookupLeaves
      <4> QED
        BY <2>6, <4>1
    <3>2. PICK h : h = held'[s].msg
      OBVIOUS
    <3>3. CASE ReaderRead(s)
      <4>1. h = Head(fromApp[a]) /\ fromApp[a] # <<>>
        BY <2>1, <3>2, <3>3, ReaderTakes DEF Took
      <4>2. h \in Riding(a)
        BY <4>1, QueueFacts DEF Riding, AllTypes, LinkTypes
      <4>3. Awaited(h, s)
        BY <2>3, <2>6, <3>2, <4>2
      <4> QED
        BY <2>4, <3>1, <3>2, <4>3
    <3>4. CASE reader[s] = "lookup" /\ held'[s] = held[s]
      <4>1. Awaited(h, s)
        BY <2>3, <2>6, <3>2, <3>4
      <4> QED
        BY <2>4, <3>1, <3>2, <4>1
    <3> QED
      BY <2>6, <3>3, <3>4, LookupMoves
  <2>7. Riding(backends[s])' = Riding(a)'
    BY <2>1 DEF Riding
  <2> QED
    BY <2>5, <2>6, <2>7 DEF AwaitedOf, Awaited, IsList
<1> QED
  BY <1>1, <1>2, <1>3, MemberMoves

(***************************************************************************)
(* The cached list                                                         *)
(***************************************************************************)
\* Requests, replies and notifications on their way keep a connection settled.
LEMMA SettlesOn ==
    ASSUME AllTypes, LinkInv, IdleInv, NEW a \in Apps, NEW v, Settles(a, v),
           Same(a) \/ Wrote(a) \/ Served(a) \/ Replied(a) \/ Notified(a),
           version'[a] = version[a] \/ Notified(a)
    PROVE  Settles(a, v)'
<1> DEFINE p == toApp[a]
           q == fromApp[a]
           x == serving[a]
           Renew(P, Q) == (\E m \in Elems(Q) : m.type = "changed") \/ ~NoList(P)
           Settled(P, Q, y) ==
               \/ Renew(P, Q)
               \/ IsList(y) /\ y.ver = version[a]
               \/ ~IsList(y) /\ LastIs(Q, version[a])
               \/ ~IsList(y) /\ NoList(Q) /\ v = version[a]
<1>1. p \in Seq(Frames) /\ q \in Seq(Frames) /\ x \in Frames
  BY DEF AllTypes, LinkTypes
<1>2. Settled(p, q, x)
  BY DEF Settles, Renewal
<1>3. ASSUME Renew(toApp'[a], fromApp'[a])
      PROVE  Settles(a, v)'
  BY <1>3 DEF Settles, Renewal, NoList, Elems, IsList
<1>4. ASSUME version'[a] = version[a], Settled(toApp'[a], fromApp'[a], serving'[a])
      PROVE  Settles(a, v)'
  BY <1>4 DEF Settles, Renewal, NoList, Elems, IsList, LastIs
<1>5. ~IsList(NoMsg)
  BY DEF NoMsg, Msg, IsList
<1> HIDE DEF Settled
<1>6. CASE Notified(a)
  <2>1. PICK r \in Frames : r = Msg("changed", 0, 0, 0)
    BY FrameTypes DEF AllTypes
  <2>2. fromApp'[a] = Append(q, r)
    BY <1>6, <2>1 DEF Notified
  <2>3. r \in Elems(fromApp'[a]) /\ r.type = "changed"
    BY <1>1, <2>1, <2>2, QueueFacts DEF Msg
  <2> QED
    BY <1>3, <2>3
<1> HIDE DEF Renew
<1>7. CASE Same(a) /\ version'[a] = version[a]
  BY <1>2, <1>4, <1>7 DEF Same
<1>8. CASE Wrote(a) /\ version'[a] = version[a]
  <2>1. PICK m \in Frames : WroteOne(a, m)
    BY <1>8 DEF Wrote
  <2>2. toApp'[a] = Append(p, m) /\ fromApp'[a] = q /\ serving'[a] = x
    BY <1>8, <2>1 DEF Wrote, WroteOne
  <2> HIDE DEF p, q, x
  <2>3. ~NoList(p) => ~NoList(Append(p, m))
    BY <1>1, ListsGrow
  <2>4. Settled(Append(p, m), q, x)
    BY <1>2, <2>3 DEF Settled, Renew
  <2> QED
    BY <1>4, <1>8, <2>2, <2>4
<1>9. CASE Served(a) /\ version'[a] = version[a]
  <2>1. /\ p # <<>> /\ toApp'[a] = Tail(p) /\ fromApp'[a] = q /\ x = NoMsg
        /\ serving'[a] = [Head(p) EXCEPT !.ver = version[a]]
    BY <1>9 DEF Served
  <2> HIDE DEF p, q, x
  <2>2. Head(p) \in Frames
    BY <1>1, <2>1, QueueFacts
  <2>3. (IsList(serving'[a]) <=> IsList(Head(p))) /\ serving'[a].ver = version[a]
    BY <2>1, <2>2 DEF Frames, IsList
  <2>4. ~IsList(Head(p)) /\ ~NoList(p) => ~NoList(Tail(p))
    BY <1>1, <2>1, ListsShrink
  <2>5. Settled(Tail(p), q, serving'[a])
    BY <1>2, <1>5, <2>1, <2>3, <2>4 DEF Settled, Renew
  <2> QED
    BY <1>4, <1>9, <2>1, <2>5
<1>10. CASE Replied(a) /\ version'[a] = version[a]
  <2>1. PICK r \in Frames : r = [x EXCEPT !.type = "reply"]
    BY <1>1 DEF Frames
  <2>2. toApp'[a] = p /\ fromApp'[a] = Append(q, r) /\ serving'[a] = NoMsg /\ x # NoMsg
    BY <1>10, <2>1 DEF Replied
  <2>3. x.type \in {"call", "list"} /\ (x.type = "call" => x.id # 0)
    BY <2>2 DEF LinkInv, Framed, FrameOf, IdleInv, IdleOf
  <2> HIDE DEF p, q, x
  <2>4. (IsList(r) <=> IsList(x)) /\ r.ver = x.ver
    BY <1>1, <2>1, <2>3 DEF Frames, IsList
  <2>5. Elems(Append(q, r)) = Elems(q) \cup {r}
    BY <1>1, QueueFacts
  <2>6. /\ IsList(r) => LastIs(Append(q, r), r.ver)
        /\ ~IsList(r) => /\ NoList(q) => NoList(Append(q, r))
                         /\ LastIs(q, version[a]) => LastIs(Append(q, r), version[a])
    BY <1>1, ListsGrow
  <2>7. Renew(p, q) => Renew(p, Append(q, r))
    BY <2>5 DEF Renew
  <2>8. Settled(p, Append(q, r), NoMsg)
    BY <1>2, <1>5, <2>4, <2>6, <2>7 DEF Settled
  <2> QED
    BY <1>4, <1>10, <2>2, <2>8
<1> QED
  BY <1>6, <1>7, <1>8, <1>9, <1>10

\* A frame that is taken and is no notification: a list is now in hand.
LEMMA SettlesTook ==
    ASSUME AllTypes, NEW a \in Apps, NEW v, Settles(a, v), Took(a), version'[a] = version[a],
           Head(fromApp[a]).type # "changed", NEW w,
           w = IF IsList(Head(fromApp[a])) THEN Head(fromApp[a]).ver ELSE v
    PROVE  Settles(a, w)'
<1> DEFINE q == fromApp[a]
<1>1. q \in Seq(Frames) /\ q # <<>>
  BY DEF AllTypes, LinkTypes, Took
<1>2. /\ fromApp'[a] = Tail(q) /\ toApp'[a] = toApp[a] /\ serving'[a] = serving[a]
  BY DEF Took
<1>3. \/ (\E m \in Elems(q) : m.type = "changed") \/ ~NoList(toApp[a])
      \/ IsList(serving[a]) /\ serving[a].ver = version[a]
      \/ ~IsList(serving[a]) /\ LastIs(q, version[a])
      \/ ~IsList(serving[a]) /\ NoList(q) /\ v = version[a]
  BY DEF Settles, Renewal
<1>4. w = IF IsList(Head(q)) THEN Head(q).ver ELSE v
  OBVIOUS
<1>5. Head(q).type # "changed"
  OBVIOUS
<1> HIDE DEF q
<1>6. (\E m \in Elems(q) : m.type = "changed") => \E m \in Elems(Tail(q)) : m.type = "changed"
  <2>1. Elems(q) = {Head(q)} \cup Elems(Tail(q))
    BY <1>1, QueueFacts
  <2> QED
    BY <1>5, <2>1
<1>7. NoList(q) => NoList(Tail(q)) /\ ~IsList(Head(q))
  BY <1>1, ListsShrink
<1>8. LastIs(q, version[a]) => \/ LastIs(Tail(q), version[a])
                               \/ IsList(Head(q)) /\ Head(q).ver = version[a] /\ NoList(Tail(q))
  BY <1>1, ListsShrink
<1>9. \/ (\E m \in Elems(Tail(q)) : m.type = "changed") \/ ~NoList(toApp[a])
      \/ IsList(serving[a]) /\ serving[a].ver = version[a]
      \/ ~IsList(serving[a]) /\ LastIs(Tail(q), version[a])
      \/ ~IsList(serving[a]) /\ NoList(Tail(q)) /\ w = version[a]
  BY <1>3, <1>4, <1>6, <1>7, <1>8
<1> QED
  BY <1>2, <1>9 DEF Settles, Renewal, NoList, Elems, IsList, LastIs

\* A change of an app's tools is notified on its connection, or counts as missed.
LEMMA VersionMoves ==
    ASSUME AllTypes, Next, NEW a \in Apps, link[a] = "open"
    PROVE  version'[a] = version[a] \/ Notified(a) \/ a \in missed'
<1>1. CASE Main \/ poll_thread \/ emit_list_changed_upstream \/ AgentStep
  BY <1>1, MainFrame, PollFrame, EmitFrame, AgentFrame
<1>2. ASSUME NEW s \in Slots, Reader(s)
      PROVE  version'[a] = version[a]
  BY <1>2, ReaderFrame
<1>3. ASSUME NEW b \in Apps, backend_setup(b)
      PROVE  version'[a] = version[a]
  BY <1>3, SetupFrame
<1>4. ASSUME NEW b \in Apps, AppStep(b)
      PROVE  version'[a] = version[a] \/ Notified(a) \/ a \in missed'
  <2>1. CASE AppChanges(b) /\ b = a
    <3>1. Len(fromApp[a]) \in Nat /\ Len(fromApp[a]) <= Cap /\ Cap \in Nat
      BY AggregatorNumbers, QueueFacts DEF AllTypes, LinkTypes
    <3>2. CASE Len(fromApp[a]) = Cap
      BY <2>1, <3>2 DEF AppChanges
    <3>3. CASE Len(fromApp[a]) < Cap
      <4>1. fromApp'[a] = Append(fromApp[a], Msg("changed", 0, 0, 0)) /\ UNCHANGED <<toApp, serving>>
        BY <2>1, <3>3 DEF AppChanges, AllTypes, LinkTypes
      <4> QED
        BY <4>1 DEF Notified
    <3> QED
      BY <3>1, <3>2, <3>3
  <2>2. CASE AppChanges(b) /\ b # a
    BY <2>2 DEF AppChanges, AllTypes, AppTypes
  <2>3. CASE ~AppChanges(b)
    BY <1>4, <2>3 DEF AppStep, AppWorks, AppServes, AppReplies, AppStart, AppHang, AppDies, AppHangsUp, Closed,
                      appVars
  <2> QED
    BY <2>1, <2>2, <2>3
<1> QED
  BY <1>1, <1>2, <1>3, <1>4, AggregatorSteps

\* What was missed stays missed until the app is connected to again.
LEMMA MissedMoves ==
    ASSUME AllTypes, MemberInv, Next, NEW a \in Apps, a \in missed
    PROVE  a \in missed' \/ Greeted(a)
<1>1. CASE Main \/ poll_thread \/ emit_list_changed_upstream \/ AgentStep
  BY <1>1, MainFrame, PollFrame, EmitFrame, AgentFrame
<1>2. ASSUME NEW s \in Slots, Reader(s)
      PROVE  a \in missed'
  <2>1. missed \subseteq missed'
    BY <1>2 DEF Reader, ReaderTop, ReaderRead, ReaderEOF, ReaderLookup, ReaderRelay, ReaderApply, ReaderEmit,
                RefreshLost, RefreshAlloc, RefreshWrite, RefreshWriteFails, backend_teardown_locked, FreeSlot,
                historyVars
  <2> QED
    BY <2>1
<1>3. ASSUME NEW b \in Apps, backend_setup(b)
      PROVE  a \in missed' \/ Greeted(a)
  <2>1. CASE SetupConnect(b) /\ b = a
    <3>1. setup'[a] = "list" /\ setup[a] = "connect"
      BY <2>1 DEF SetupConnect, AllTypes, MemberTypes
    <3> QED
      BY <3>1, SetupMoves
  <2>2. CASE ~(SetupConnect(b) /\ b = a)
    BY <1>3, <2>2 DEF backend_setup, SetupConnect, SetupSkip, SetupFails, SetupRegister, SetupNoSlot,
                      connecting_remove, historyVars
  <2> QED
    BY <2>1, <2>2
<1>4. ASSUME NEW b \in Apps, AppStep(b)
      PROVE  a \in missed'
  BY <1>4 DEF AppStep, AppWorks, AppServes, AppReplies, AppStart, AppHang, AppDies, AppHangsUp, Closed,
              AppChanges, historyVars
<1> QED
  BY <1>1, <1>2, <1>3, <1>4, AggregatorSteps

\* Only its reader works for a slot that is taken.
LEMMA SlotMoves ==
    ASSUME AllTypes, MemberInv, Next, NEW s \in Slots, Kept(s)
    PROVE  Reader(s) \/ (reader'[s] = reader[s] /\ held'[s] = held[s] /\ cache'[s] = cache[s])
<1>1. CASE Main \/ poll_thread \/ emit_list_changed_upstream \/ AgentStep
  BY <1>1, MainFrame, PollFrame, EmitFrame, AgentFrame
<1>2. ASSUME NEW t \in Slots, Reader(t), t # s
      PROVE  reader'[s] = reader[s] /\ held'[s] = held[s] /\ cache'[s] = cache[s]
  <2>0. ReaderTypes /\ MemberTypes
    BY DEF AllTypes
  <2>1. CASE ReaderTop(t) \/ ReaderRead(t) \/ ReaderEOF(t) \/ ReaderRelay(t) \/ ReaderApply(t) \/ ReaderEmit(t)
    BY <1>2, <2>0, <2>1 DEF ReaderTop, ReaderRead, ReaderEOF, ReaderRelay, ReaderApply, ReaderEmit, memberVars,
                            ReaderTypes, MemberTypes
  <2>2. CASE ReaderLookup(t)
    BY <1>2, <2>2, LookupLeaves DEF memberVars
  <2>3. CASE RefreshLost(t) \/ RefreshAlloc(t) \/ RefreshWrite(t) \/ RefreshWriteFails(t)
    BY <1>2, <2>0, <2>3 DEF RefreshLost, RefreshAlloc, RefreshWrite, RefreshWriteFails, memberVars, ReaderTypes
  <2>4. CASE backend_teardown_locked(t)
    BY <1>2, <2>0, <2>4 DEF backend_teardown_locked, FreeSlot, ReaderTypes, MemberTypes
  <2> QED
    BY <1>2, <2>1, <2>2, <2>3, <2>4, Zenon DEF Reader
<1>3. ASSUME NEW a \in Apps, backend_setup(a)
      PROVE  reader'[s] = reader[s] /\ held'[s] = held[s] /\ cache'[s] = cache[s]
  <2>1. held' = held
    BY <1>3, SetupFrame
  <2>2. CASE SetupRegister(a)
    <3>1. PICK t : t = Min(FreeSlots)
      OBVIOUS
    <3>2. /\ reader' = [reader EXCEPT ![t] = "top"] /\ backends' = [backends EXCEPT ![t] = a]
          /\ cache' = [cache EXCEPT ![t] = Head(fromApp[a]).ver] /\ setup[a] = "list"
      BY <2>2, <3>1 DEF SetupRegister
    <3>3. backends[s] # a /\ backends'[s] # a
      BY <3>2, Candidate DEF Kept
    <3>4. s # t
      BY <3>2, <3>3 DEF AllTypes, MemberTypes
    <3> QED
      BY <2>1, <3>2, <3>4 DEF AllTypes, ReaderTypes, MemberTypes
  <2>3. CASE ~SetupRegister(a)
    BY <1>3, <2>1, <2>3 DEF backend_setup, SetupConnect, SetupSkip, SetupFails, SetupNoSlot, connecting_remove,
                            memberVars, readerVars
  <2> QED
    BY <2>2, <2>3
<1>4. ASSUME NEW a \in Apps, AppStep(a)
      PROVE  reader'[s] = reader[s] /\ held'[s] = held[s] /\ cache'[s] = cache[s]
  BY <1>4, AppFrame
<1> QED
  BY <1>1, <1>2, <1>3, <1>4, AggregatorSteps

\* A connection that its app has closed is not open again in one step.
LEMMA ClosedStays ==
    ASSUME AllTypes, MemberInv, Next, NEW a \in Apps, link[a] = "closed"
    PROVE  link'[a] # "open"
<1>0. LinkTypes
  BY DEF AllTypes
<1>1. CASE Main \/ poll_thread \/ emit_list_changed_upstream \/ AgentStep
  BY <1>1, MainFrame, PollFrame, EmitFrame, AgentFrame
<1>2. ASSUME NEW s \in Slots, Reader(s)
      PROVE  link'[a] # "open"
  BY <1>0, <1>2 DEF Reader, ReaderTop, ReaderRead, ReaderEOF, ReaderLookup, ReaderRelay, ReaderApply, ReaderEmit,
                    RefreshLost, RefreshAlloc, RefreshWrite, RefreshWriteFails, backend_teardown_locked, FreeSlot,
                    linkVars, LinkTypes
<1>3. ASSUME NEW b \in Apps, backend_setup(b)
      PROVE  link'[a] # "open"
  <2>1. CASE SetupConnect(b)
    <3>1. link[b] = "none"
      BY <2>1, Candidate DEF SetupConnect
    <3> QED
      BY <1>0, <2>1, <3>1 DEF SetupConnect, LinkTypes
  <2>2. CASE ~SetupConnect(b)
    BY <1>0, <1>3, <2>2 DEF backend_setup, SetupSkip, SetupFails, SetupRegister, SetupNoSlot, connecting_remove,
                            linkVars, LinkTypes
  <2> QED
    BY <2>1, <2>2
<1>4. ASSUME NEW b \in Apps, AppStep(b)
      PROVE  link'[a] # "open"
  BY <1>0, <1>4 DEF AppStep, AppWorks, AppServes, AppReplies, AppStart, AppHang, AppDies,
                    AppHangsUp, Closed, AppChanges, linkVars, LinkTypes
<1> QED
  BY <1>1, <1>2, <1>3, <1>4, AggregatorSteps

\* What its reader does for a slot keeps what will be cached.
LEMMA CacheReader ==
    ASSUME AllTypes, MemberInv, TableInv, LockInv, LinkInv, HeldInv, IdleInv, AwaitedInv,
           NEW s \in Slots, Kept(s), Reader(s), link'[backends[s]] = "open", backends[s] \notin missed', CacheOf(s)
    PROVE  CacheOf(s)'
<1>0. PICK a \in Apps : a = backends[s] /\ a = backends'[s] /\ link[a] = "open"
  BY DEF Kept
<1>1. reader[s] \in {"refresh", "write"} \/ Settles(a, Latest(s))
  BY <1>0 DEF CacheOf
<1>2. PICK v : v = Latest(s)
  OBVIOUS
<1>3. ASSUME Settles(a, v)', Latest(s)' = v
      PROVE  CacheOf(s)'
  BY <1>0, <1>3 DEF CacheOf
<1>4. ASSUME UNCHANGED <<linkVars, version>>, reader[s] \notin {"refresh", "write"}
      PROVE  Settles(a, v)'
  <2>1. Settles(a, v)
    BY <1>1, <1>2, <1>4
  <2> QED
    BY <1>4, <2>1 DEF Settles, Renewal, NoList, LastIs, Elems, IsList, linkVars
<1>5. ReaderTypes /\ MemberTypes
  BY DEF AllTypes
<1>6. CASE ReaderTop(s) \/ ReaderEOF(s) \/ ReaderRelay(s) \/ ReaderEmit(s)
  <2>1. /\ reader[s] \in {"top", "read", "relay", "emit"} /\ reader'[s] \in {"top", "read", "teardown"}
        /\ cache' = cache /\ UNCHANGED <<linkVars, version>>
    BY <1>5, <1>6 DEF ReaderTop, ReaderEOF, ReaderRelay, ReaderEmit, memberVars, appVars, ReaderTypes
  <2>2. Latest(s)' = v
    BY <1>2, <2>1 DEF Latest
  <2> QED
    BY <1>3, <1>4, <2>1, <2>2
<1>7. CASE ReaderRead(s)
  <2>1. /\ Took(a) /\ held'[s].msg = Head(fromApp[a]) /\ reader[s] = "read"
        /\ reader'[s] = IF Head(fromApp[a]).type = "changed" THEN "refresh" ELSE "lookup"
        /\ UNCHANGED <<version, cache>>
    BY <1>0, <1>7, ReaderTakes
  <2>2. CASE Head(fromApp[a]).type = "changed"
    BY <2>1, <2>2 DEF CacheOf
  <2>3. CASE Head(fromApp[a]).type # "changed"
    <3>1. PICK w : w = IF IsList(Head(fromApp[a])) THEN Head(fromApp[a]).ver ELSE v
      OBVIOUS
    <3>2. Settles(a, v) /\ v = cache[s]
      BY <1>1, <1>2, <2>1 DEF Latest
    <3>3. Settles(a, w)'
      BY <2>1, <2>3, <3>1, <3>2, SettlesTook
    <3>4. Latest(s)' = w
      BY <2>1, <2>3, <3>1, <3>2 DEF Latest, IsList
    <3> QED
      BY <1>0, <3>3, <3>4 DEF CacheOf
  <2> QED
    BY <2>2, <2>3
<1>8. CASE ReaderLookup(s)
  <2>1. reader[s] = "lookup" /\ UNCHANGED <<linkVars, version, cache>>
    BY <1>8, LookupLeaves DEF appVars, memberVars
  <2>2. PICK h : h = held[s].msg
    OBVIOUS
  <2>3. CASE IsList(h)
    <3>1. Awaited(h, s)
      <4>1. s \in Members /\ link[backends[s]] = "open"
        BY <1>0, AggregatorAssumption DEF Members
      <4> QED
        BY <2>1, <2>2, <2>3, <4>1 DEF AwaitedInv, AwaitedOf
    <3>2. PICK fl \in inflight : fl.lid = h.lid /\ fl.slot = s /\ fl.kind = "refresh"
      BY <3>1 DEF Awaited
    <3>3. inflight_find(h.lid) = {fl}
      BY <3>2 DEF inflight_find, TableInv
    <3>4. reader'[s] = "apply" /\ held'[s].msg = h
      BY <1>5, <1>8, <2>2, <3>2, <3>3 DEF ReaderLookup, ReaderTypes
    <3>5. Latest(s)' = v
      BY <1>2, <2>1, <2>2, <2>3, <3>4 DEF Latest, IsList
    <3> QED
      BY <1>3, <1>4, <2>1, <3>5
  <2>4. CASE ~IsList(h)
    <3>1. reader'[s] = "apply" => held'[s].msg = h
      BY <1>5, <1>8, <2>2 DEF ReaderLookup, ReaderTypes
    <3>2. reader'[s] # "lookup"
      BY <1>8, LookupLeaves
    <3>3. Latest(s)' = v
      BY <1>2, <2>1, <2>2, <2>4, <3>1, <3>2 DEF Latest, IsList
    <3> QED
      BY <1>3, <1>4, <2>1, <3>3
  <2> QED
    BY <2>3, <2>4
<1>9. CASE ReaderApply(s)
  <2>1. /\ reader[s] = "apply" /\ reader'[s] = "emit" /\ cache'[s] = held[s].msg.ver
        /\ UNCHANGED <<linkVars, version>>
    BY <1>5, <1>9 DEF ReaderApply, appVars, ReaderTypes, MemberTypes
  <2>2. IsList(held[s].msg)
    BY <2>1 DEF HeldInv, HeldOf
  <2>3. Latest(s)' = v
    BY <1>2, <2>1, <2>2 DEF Latest
  <2> QED
    BY <1>3, <1>4, <2>1, <2>3
<1>10. CASE RefreshLost(s)
  BY <1>10 DEF RefreshLost
<1>11. CASE RefreshAlloc(s)
  <2>1. reader'[s] = "write"
    BY <1>11, RefreshEntered
  <2> QED
    BY <2>1 DEF CacheOf
<1>12. CASE RefreshWrite(s)
  <2>1. PICK m : m = Msg("list", next_local_id, 0, 0)
    OBVIOUS
  <2>2. toApp'[a] = Append(toApp[a], m) /\ toApp[a] \in Seq(Frames)
    BY <1>0, <1>12, <2>1 DEF RefreshWrite, AllTypes, LinkTypes
  <2>3. m \in Frames
    BY <2>1, FrameTypes DEF AllTypes, TableTypes
  <2>4. IsList(m)
    BY <2>1 DEF Msg, IsList
  <2>5. m \in Elems(toApp'[a])
    BY <2>2, <2>3, QueueFacts
  <2>6. Renewal(a)'
    BY <2>4, <2>5 DEF Renewal, NoList, Elems, IsList
  <2> QED
    BY <1>0, <2>6 DEF CacheOf, Settles
<1>13. CASE RefreshWriteFails(s)
  BY <1>0, <1>13 DEF RefreshWriteFails
<1>14. CASE backend_teardown_locked(s)
  BY <1>0, <1>14, TeardownFacts
<1> QED
  BY <1>6, <1>7, <1>8, <1>9, <1>10, <1>11, <1>12, <1>13, <1>14, Zenon DEF Reader

\* No step leaves a cache that is out of date with nothing under way to renew it.
LEMMA CacheStep ==
    ASSUME AllTypes, AllTypes', MemberInv, TableInv, LockInv, LinkInv, HeldInv, IdleInv, AwaitedInv, HandshakeInv,
           CacheInv, Next
    PROVE  CacheInv'
<1>1. ASSUME NEW a \in Apps, setup'[a] = "list", link'[a] = "open", a \notin missed'
      PROVE  Settles(a, NoVersion)'
  <2>1. CASE Greeted(a)
    <3>1. PICK m : m = Msg("list", HandshakeId, 0, 0)
      OBVIOUS
    <3>2. toApp'[a] = <<m>> /\ IsList(m)
      BY <2>1, <3>1 DEF Greeted, Msg, IsList
    <3>3. m \in Elems(toApp'[a])
      BY <3>2 DEF Elems
    <3>4. Renewal(a)'
      BY <3>2, <3>3 DEF Renewal, NoList, Elems, IsList
    <3> QED
      BY <3>4 DEF Settles
  <2>2. CASE ~Greeted(a)
    <3>1. setup[a] = "list" /\ ConnMove(a) /\ a \notin missed
      BY <1>1, <2>2, SetupMoves, ConnMoves, MissedMoves
    <3>2. \A s \in Slots : backends[s] # a
      BY <3>1, Candidate
    <3>3. link[a] = "open"
      <4>1. CASE link[a] = "closed"
        <5>1. link'[a] # "open"
          BY <1>1, <3>1, <3>2, <4>1, ClosedStays
        <5> QED
          BY <1>1, <5>1
      <4>2. link[a] # "none"
        BY <3>1 DEF MemberInv
      <4> QED
        BY <4>1, <4>2 DEF AllTypes, LinkTypes
    <3>4. Settles(a, NoVersion)
      BY <3>1, <3>3 DEF CacheInv
    <3>5. Same(a) \/ Served(a) \/ Replied(a) \/ Notified(a)
      BY <1>1, <2>2, <3>1, <3>2 DEF ConnMove, Wrote, Took, Cleared
    <3>6. version'[a] = version[a] \/ Notified(a)
      BY <1>1, <3>3, VersionMoves
    <3>7. PICK v : v = NoVersion
      OBVIOUS
    <3>8. Settles(a, v)'
      BY <3>4, <3>5, <3>6, <3>7, SettlesOn
    <3> QED
      BY <3>7, <3>8 DEF NoVersion
  <2> QED
    BY <2>1, <2>2
<1>2. ASSUME NEW s \in Slots, backends'[s] # NoApp, link'[backends'[s]] = "open", backends'[s] \notin missed'
      PROVE  CacheOf(s)'
  <2>1. CASE JustMade(s)
    <3>1. PICK a \in Apps : SetupRegister(a) /\ backends'[s] = a
      BY <2>1 DEF JustMade
    <3>2. PICK t \in Slots : /\ backends'[t] = a /\ reader'[t] = "top" /\ cache'[t] = Head(fromApp[a]).ver
                             /\ \A u \in Slots \ {t} : backends'[u] = backends[u]
      BY <3>1, Registered
    <3>3. setup[a] = "list" /\ \A u \in Slots : backends[u] # a
      BY <3>1, Candidate DEF SetupRegister
    <3>4. s = t
      BY <3>1, <3>2, <3>3
    <3>5. Took(a) /\ IsList(Head(fromApp[a])) /\ link' = link /\ missed' = missed /\ version' = version
      BY <3>1, Registered
    <3>6. Settles(a, NoVersion)
      BY <1>2, <3>1, <3>3, <3>5 DEF CacheInv
    <3>7. Head(fromApp[a]).type # "changed"
      BY <3>5 DEF IsList
    <3>8. PICK w : w = Head(fromApp[a]).ver
      OBVIOUS
    <3>9. Settles(a, w)'
      <4>1. PICK v : v = NoVersion
        OBVIOUS
      <4>2. Settles(a, v)
        BY <3>6, <4>1
      <4> QED
        BY <3>5, <3>7, <3>8, <4>2, SettlesTook
    <3>10. Latest(s)' = w
      BY <3>2, <3>4, <3>8 DEF Latest
    <3> QED
      BY <3>1, <3>9, <3>10 DEF CacheOf
  <2>2. CASE Kept(s)
    <3>1. PICK a \in Apps : a = backends[s] /\ a = backends'[s] /\ link[a] = "open"
      BY <2>2 DEF Kept
    <3>2. link'[a] = "open" /\ a \notin missed' /\ ~Greeted(a)
      BY <1>2, <3>1 DEF Greeted
    <3>3. a \notin missed
      BY <3>2, MissedMoves
    <3>4. CacheOf(s) /\ s \in Members
      <4>1. s \in Members
        BY <3>1, AggregatorAssumption DEF Members
      <4> QED
        BY <3>1, <3>3, <4>1 DEF CacheInv
    <3>5. CASE Reader(s)
      BY <2>2, <3>1, <3>2, <3>4, <3>5, CacheReader
    <3>6. CASE reader'[s] = reader[s] /\ held'[s] = held[s] /\ cache'[s] = cache[s]
      <4>1. CASE reader[s] \in {"refresh", "write"}
        BY <3>6, <4>1 DEF CacheOf
      <4>2. CASE reader[s] \notin {"refresh", "write"}
        <5>1. PICK v : v = Latest(s)
          OBVIOUS
        <5>2. Settles(a, v)
          BY <3>1, <3>4, <4>2, <5>1 DEF CacheOf
        <5>3. ~Took(a)
          <6>1. setup[a] # "list"
            BY <3>1, <3>4 DEF MemberInv
          <6>2. \A t \in Slots : backends[t] = a => t = s
            <7>1. NoDuplicateBackend /\ a # NoApp
              BY AggregatorAssumption DEF MemberInv
            <7> QED
              BY <3>1, <7>1 DEF NoDuplicateBackend, Members
          <6> QED
            BY <3>6, <6>1, <6>2 DEF Took
        <5>4. Same(a) \/ Wrote(a) \/ Served(a) \/ Replied(a) \/ Notified(a)
          <6>1. ConnMove(a) /\ ~Cleared(a)
            BY <3>2, ConnMoves DEF Cleared
          <6> QED
            BY <3>2, <5>3, <6>1 DEF ConnMove
        <5>5. version'[a] = version[a] \/ Notified(a)
          BY <3>1, <3>2, VersionMoves
        <5>6. Settles(a, v)'
          BY <5>2, <5>4, <5>5, SettlesOn
        <5>7. Latest(s)' = v
          BY <3>6, <5>1 DEF Latest, IsList
        <5> QED
          BY <3>1, <5>6, <5>7 DEF CacheOf
      <4> QED
        BY <4>1, <4>2
    <3> QED
      BY <2>2, <3>5, <3>6, SlotMoves
  <2> QED
    BY <1>2, <2>1, <2>2, MemberMoves
<1> QED
  BY <1>1, <1>2 DEF CacheInv, Members

-----------------------------------------------------------------------------
(***************************************************************************)
(* The invariant and the theorem                                           *)
(***************************************************************************)
\* At the start nothing is under way and nobody is a member.
LEMMA RefreshInit == Init => RefreshInv
<1>1. SUFFICES ASSUME Init
               PROVE  RefreshInv
  OBVIOUS
<1>2. \A a \in Apps : serving[a] = NoMsg /\ toApp[a] = <<>> /\ fromApp[a] = <<>> /\ setup[a] = "none"
  BY <1>1 DEF Init
<1>3. \A s \in Slots : backends[s] = NoApp /\ reader[s] = "none"
  BY <1>1 DEF Init
<1>4. ASSUME NEW a \in Apps
      PROVE  IdleOf(a) /\ UniqueOf(a)
  <2>1. \A S : Apart(S, {})
    BY DEF Apart
  <2> QED
    BY <1>2, <2>1, EmptyQueue, EmptyLists DEF IdleOf, UniqueOf
<1>5. IdleInv /\ UniqueInv
  BY <1>3, <1>4 DEF IdleInv, UniqueInv, UniqueHeld
<1>6. AwaitedInv /\ HandshakeInv /\ CacheInv
  BY <1>2, <1>3 DEF AwaitedInv, HandshakeInv, CacheInv, Members
<1> QED
  BY <1>5, <1>6 DEF RefreshInv

\* A step keeps it.
LEMMA RefreshStep ==
    ASSUME RouteInv, RouteInv', RefreshInv, [Next]_vars
    PROVE  RefreshInv'
<1>1. CASE UNCHANGED vars
  <2> USE <1>1 DEF vars, linkVars, appVars, memberVars, readerVars, tableVars, mainVars, agentVars, historyVars
  <2>1. IdleInv' /\ UniqueInv'
    BY DEF RefreshInv, IdleInv, IdleOf, UniqueInv, UniqueOf, UniqueHeld, Distinct, Apart, Riding, Elems
  <2>2. AwaitedInv'
    BY DEF RefreshInv, AwaitedInv, AwaitedOf, Awaited, Members, Riding, Elems, IsList
  <2>3. HandshakeInv'
    BY DEF RefreshInv, HandshakeInv, HandshakeOf, NoList, OneList, Riding, Elems, IsList
  <2>4. CacheInv'
    BY DEF RefreshInv, CacheInv, CacheOf, Settles, Renewal, Latest, LastIs, NoList, NoVersion, Members, Elems, IsList
  <2> QED
    BY <2>1, <2>2, <2>3, <2>4 DEF RefreshInv
<1>2. CASE Next
  <2>1. AllTypes /\ MemberInv /\ TableInv /\ LockInv /\ LinkInv /\ HeldInv
    BY TypeParts DEF RouteInv, AllTypes
  <2>2. AllTypes'
    BY <1>2, <2>1, TypesStep
  <2>3. IdleInv /\ UniqueInv /\ AwaitedInv /\ HandshakeInv /\ CacheInv
    BY DEF RefreshInv
  <2>4. \A a \in Apps : IdleOf(a)'
    BY <1>2, <2>1, <2>3, ConnMoves, IdleStep
  <2>5. IdleInv'
    BY <2>4 DEF IdleInv
  <2>6. UniqueInv'
    BY <1>2, <2>1, <2>3, UniqueStep
  <2>7. AwaitedInv'
    BY <1>2, <2>1, <2>2, <2>3, AwaitedStep
  <2>8. HandshakeInv'
    BY <1>2, <2>1, <2>3, HandshakeStep
  <2>9. CacheInv'
    BY <1>2, <2>1, <2>2, <2>3, CacheStep
  <2> QED
    BY <2>5, <2>6, <2>7, <2>8, <2>9 DEF RefreshInv
<1> QED
  BY <1>1, <1>2

\* A cache that is out of date has a refresh due or under way.
LEMMA OutOfDate ==
    ASSUME RouteInv, RefreshInv
    PROVE  CacheExplained
<1>1. SUFFICES ASSUME NEW s \in Members, link[backends[s]] = "open", cache[s] # version[backends[s]],
                      backends[s] \notin missed
               PROVE  Refreshing(s)
  BY DEF CacheExplained
<1>2. PICK a \in Apps : a = backends[s]
  BY DEF Members, RouteInv, TypeOK
<1>3. CacheOf(s) /\ AwaitedOf(s)
  BY <1>1 DEF RefreshInv, CacheInv, AwaitedInv
<1>4. ASSUME NEW m \in Riding(a), IsList(m)
      PROVE  Refreshing(s)
  BY <1>2, <1>3, <1>4 DEF AwaitedOf, Awaited, Refreshing
<1>5. CASE reader[s] \in {"refresh", "write"}
  BY <1>5 DEF Refreshing
<1>6. CASE Settles(a, Latest(s))
  <2>1. CASE \E m \in Elems(fromApp[a]) : m.type = "changed"
    BY <1>2, <2>1 DEF Elems, Refreshing
  <2>2. CASE ~NoList(toApp[a])
    BY <1>4, <2>2 DEF NoList, Riding
  <2>3. CASE IsList(serving[a])
    BY <1>4, <2>3 DEF Riding
  <2>4. CASE LastIs(fromApp[a], version[a])
    <3>1. PICK i \in 1..Len(fromApp[a]) : IsList(fromApp[a][i])
      BY <2>4 DEF LastIs
    <3>2. fromApp[a][i] \in Riding(a)
      BY DEF Riding, Elems
    <3> QED
      BY <1>4, <3>1, <3>2
  <2>5. CASE Latest(s) = version[a]
    <3>1. reader[s] \in {"lookup", "apply"} /\ IsList(held[s].msg)
      BY <1>1, <1>2, <2>5 DEF Latest
    <3>2. CASE reader[s] = "lookup"
      BY <1>3, <3>1, <3>2 DEF AwaitedOf, Awaited, Refreshing
    <3>3. CASE reader[s] = "apply"
      BY <3>3 DEF Refreshing
    <3> QED
      BY <3>1, <3>2, <3>3
  <2> QED
    BY <1>6, <2>1, <2>2, <2>3, <2>4, <2>5 DEF Settles, Renewal
<1> QED
  BY <1>2, <1>3, <1>5, <1>6 DEF CacheOf

\* The tools that apply_tools_result has cached of a backend are those the app
\* has, or refresh_backend_tools has asked or will ask for them again, or a
\* list_changed was lost on a full connection, in the handshake, or to a full
\* in-flight table.
THEOREM AggregatorCacheExplained == Spec => []CacheExplained
<1>1. Init => RefreshInv
  BY RefreshInit
<1>2. RouteInv /\ RouteInv' /\ RefreshInv /\ [Next]_vars => RefreshInv'
  BY RefreshStep
<1>3. RouteInv /\ RefreshInv => CacheExplained
  BY OutOfDate
<1> QED
  BY <1>1, <1>2, <1>3, AggregatorInvariant, PTL DEF Spec

(***************************************************************************)
(* The calls: the aggregator implements RpcProxy                           *)
(***************************************************************************)
\* Call id stays where it is.
Still(id) == StageOf(id)' = StageOf(id)

\* A call that is in the same places before and after a step stays.
LEMMA StageSame ==
    ASSUME NEW id \in AgentIds, Queued(id)' <=> Queued(id),
           (Entered(id) \/ Relayed(id))' <=> (Entered(id) \/ Relayed(id)),
           answers'[id] = answers[id], id \in sent' <=> id \in sent
    PROVE  Still(id)
BY DEF Still, StageOf

\* The stage of a call is the place where it is.
LEMMA StageIs ==
    ASSUME NEW id \in AgentIds, OnceOf(id)
    PROVE  /\ Queued(id) => StageOf(id) = "queued"
           /\ Entered(id) \/ Relayed(id) => StageOf(id) = "forwarded"
           /\ answers[id] # <<>> => StageOf(id) = "answered"
           /\ id \notin sent => StageOf(id) = "free"
BY DEF StageOf, OnceOf

\* ... and after the step.
LEMMA StageIsNext ==
    ASSUME NEW id \in AgentIds, OnceOf(id)'
    PROVE  /\ Queued(id)' => StageOf(id)' = "queued"
           /\ Entered(id)' \/ Relayed(id)' => StageOf(id)' = "forwarded"
           /\ answers'[id] # <<>> => StageOf(id)' = "answered"
BY DEF StageOf, OnceOf

\* When every call stays, so do the stages.
LEMMA StagesStill ==
    ASSUME \A id \in AgentIds : Still(id)
    PROVE  Stage' = Stage
BY DEF Still, Stage

\* When all calls but n stay, only the stage of n changes.
LEMMA StageMoves ==
    ASSUME NEW n \in AgentIds, NEW to, StageOf(n)' = to,
           \A id \in AgentIds \ {n} : Still(id)
    PROVE  Stage' = [Stage EXCEPT ![n] = to]
BY DEF Still, Stage

\* Handling the head of stdin leaves the other calls queued.
LEMMA StdinMoves ==
    ASSUME stdin \in Seq(Requests), stdin # <<>>, stdin' = Tail(stdin), main' # "write",
           NEW id \in AgentIds, UniqueCall(id),
           main = "write" \/ ~(Head(stdin).type = "call" /\ Head(stdin).id = id)
    PROVE  Queued(id)' <=> Queued(id)
<1>1. Queued(id)' => Queued(id)
  BY StdinHandled
<1>2. ASSUME Queued(id) PROVE Queued(id)'
  <2>1. PICK i \in 1..Len(stdin) : Call(i, id) /\ ~(i = 1 /\ main = "write")
    BY <1>2 DEF Queued
  <2>2. stdin[1] = Head(stdin)
    BY <2>1
  <2>3. i # 1
    BY <2>1, <2>2 DEF Call
  <2>4. PICK k \in 1..Len(stdin') : i = k + 1
    <3>1. Len(stdin') = Len(stdin) - 1 /\ Len(stdin) \in Nat
      OBVIOUS
    <3>2. i - 1 \in 1..Len(stdin') /\ i = (i - 1) + 1
      BY <2>1, <2>3, <3>1
    <3> QED BY <3>2
  <2>5. stdin'[k] = stdin[i]
    BY <2>1, <2>4
  <2>6. Call(k, id)'
    BY <2>1, <2>5 DEF Call
  <2> QED BY <2>4, <2>6 DEF Queued
<1> QED BY <1>1, <1>2

\* An answered call has an answer.
LEMMA AnswerThere ==
    ASSUME AllTypes, NEW n \in AgentIds, OnceOf(n), Queued(n) \/ Entered(n) \/ Relayed(n), NEW what,
           answers'[n] = Append(answers[n], what)
    PROVE  answers'[n] # <<>>
<1>1. answers[n] = <<>>
  BY DEF OnceOf
<1>2. answers'[n] = <<what>>
  BY <1>1
<1> QED BY <1>2

\* A step of the proxy, or none.
ProxyStep == Proxy!Next \/ (Stage' = Stage /\ answers' = answers)

\* The main thread.
LEMMA ProxyMain ==
    ASSUME AllTypes, TableInv, LockInv, OnceInv, OnceInv', Main
    PROVE  ProxyStep
<1>0. UNCHANGED <<reader, held, sent>> /\ stdin \in Seq(Requests)
  BY MainFrame DEF AllTypes, MainTypes
<1>1. \A id \in AgentIds : OnceOf(id) /\ OnceOf(id)' /\ UniqueCall(id)
  BY DEF OnceInv, OnceOf
<1>2. \A n : Relayed(n)' <=> Relayed(n)
  BY <1>0 DEF Relays, Relayed
<1>3. CASE HandleInitialize \/ WriteToolsList \/ CallWrite
  <2>1. /\ stdin # <<>> /\ stdin' = Tail(stdin) /\ main' # "write" /\ UNCHANGED <<answers, inflight>>
        /\ main = "write" \/ Head(stdin).type # "call"
    BY <1>3 DEF HandleInitialize, WriteToolsList, CallWrite, Requested, LockInv, tableVars
  <2>2. ASSUME NEW id \in AgentIds PROVE Still(id)
    <3>1. Queued(id)' <=> Queued(id)
      BY <1>0, <1>1, <2>1, StdinMoves
    <3>2. Entered(id)' <=> Entered(id)
      BY <2>1 DEF Entered
    <3> QED BY <1>0, <1>2, <2>1, <3>1, <3>2, StageSame
  <2> QED BY <2>1, <2>2, StagesStill DEF ProxyStep
<1>4. CASE HandleToolsList
  <2>1. stdin' = stdin /\ main' # "write" /\ main # "write" /\ UNCHANGED <<answers, inflight>>
    BY <1>4 DEF HandleToolsList, Requested, agentVars, tableVars
  <2>2. ASSUME NEW id \in AgentIds PROVE Still(id)
    <3>1. Queued(id)' <=> Queued(id)
      BY <2>1 DEF Queued, Call
    <3>2. Entered(id)' <=> Entered(id)
      BY <2>1 DEF Entered
    <3> QED BY <1>0, <1>2, <2>1, <3>1, <3>2, StageSame
  <2> QED BY <2>1, <2>2, StagesStill DEF ProxyStep
<1>5. CASE CallAnsweredHere
  <2>0. PICK n \in AgentIds : n = Head(stdin).id
    BY <1>5, HeadQueued DEF CallAnsweredHere
  <2>10. PICK what \in {Error, AppsList} : what = IF Head(stdin).target = Workspace THEN AppsList ELSE Error
    OBVIOUS
  <2>1. /\ Requested("call") /\ stdin # <<>> /\ stdin' = Tail(stdin) /\ main' # "write"
        /\ inflight' = inflight /\ answers' = Answer(answers, n, what)
    BY <1>5, <2>0, <2>10 DEF CallAnsweredHere, Requested, mainVars, tableVars
  <2>2. n \in AgentIds /\ Queued(n) /\ what \in {Error, AppsList}
    BY <2>0, <2>1, HeadQueued
  <2>3. /\ answers'[n] = Append(answers[n], what)
        /\ \A k \in AgentIds \ {n} : answers'[k] = answers[k]
    BY <2>1, <2>2, AnswerGiven
  <2>4. answers'[n] # <<>>
    BY <1>1, <2>2, <2>3, AnswerThere
  <2>5. ASSUME NEW id \in AgentIds \ {n} PROVE Still(id)
    <3>1. Queued(id)' <=> Queued(id)
      BY <1>0, <1>1, <2>0, <2>1, StdinMoves
    <3>2. Entered(id)' <=> Entered(id)
      BY <2>1 DEF Entered
    <3> QED BY <1>0, <1>2, <2>3, <3>1, <3>2, StageSame
  <2>6. StageOf(n)' = "answered" /\ StageOf(n) = "queued"
    BY <1>1, <2>2, <2>4, StageIs, StageIsNext
  <2>7. Stage' = [Stage EXCEPT ![n] = "answered"] /\ Stage[n] = "queued"
    BY <2>2, <2>5, <2>6, StageMoves DEF Stage
  <2>8. what \in Proxy!Own
    BY <2>2 DEF Error, AppsList, Proxy!Own, Proxy!Failed
  <2>9. Proxy!AnswerHere(n)
    BY <2>1, <2>7, <2>8 DEF Proxy!AnswerHere, Proxy!Settle, Answer
  <2> QED BY <2>2, <2>9 DEF ProxyStep, Proxy!Next
<1>6. CASE CallAlloc
  <2>0. PICK n \in AgentIds : n = Head(stdin).id
    BY <1>6, HeadQueued DEF CallAlloc
  <2> DEFINE e == [lid |-> next_local_id + 1, slot |-> Min(Target), kind |-> "agent",
                   orig |-> n, of |-> backends[Min(Target)]]
  <2>1. /\ Requested("call") /\ stdin' = stdin /\ stdin # <<>> /\ Head(stdin).type = "call"
        /\ main' = "write" /\ main = "idle" /\ answers' = answers
    BY <1>6, CallEntered DEF CallAlloc, agentVars
  <2>2. inflight' = inflight \cup {e} /\ e.orig = n /\ e.kind = "agent"
    BY <1>6, <2>0, CallEntered DEF inflight_alloc
  <2> HIDE DEF e
  <2>3. n \in AgentIds /\ Queued(n)
    BY <2>0, <2>1, HeadQueued
  <2>4. Entered(n)'
    BY <2>2 DEF Entered
  <2>5. ASSUME NEW id \in AgentIds \ {n} PROVE Still(id)
    <3>1. Queued(id)' <=> Queued(id)
      <4>1. \A i \in 1..Len(stdin) : Call(i, id)' <=> Call(i, id)
        BY <2>1 DEF Call
      <4>2. \A i \in 1..Len(stdin) : Call(i, id) => i # 1
        <5>1. stdin[1] = Head(stdin)
          BY <1>0, <2>1
        <5> QED BY <2>0, <5>1 DEF Call
      <4> QED BY <2>1, <4>1, <4>2 DEF Queued
    <3>2. Entered(id)' <=> Entered(id)
      BY <2>2 DEF Entered
    <3> QED BY <1>0, <1>2, <2>1, <3>1, <3>2, StageSame
  <2>6. StageOf(n)' = "forwarded" /\ StageOf(n) = "queued"
    BY <1>1, <2>3, <2>4, StageIs, StageIsNext
  <2>7. Stage' = [Stage EXCEPT ![n] = "forwarded"] /\ Stage[n] = "queued"
    BY <2>3, <2>5, <2>6, StageMoves DEF Stage
  <2>8. Proxy!Forward(n)
    BY <2>1, <2>7 DEF Proxy!Forward
  <2> QED BY <2>3, <2>8 DEF ProxyStep, Proxy!Next
<1>7. CASE CallWriteFails
  <2>0. PICK n \in AgentIds : n = Head(stdin).id
    <3>1. stdin # <<>> /\ Head(stdin).type = "call"
      BY <1>7 DEF CallWriteFails, LockInv
    <3> QED BY <3>1, AnswerTypes, CallType DEF AllTypes
  <2>1. /\ main = "write" /\ stdin # <<>> /\ Head(stdin).type = "call" /\ stdin' = Tail(stdin)
        /\ main' # "write" /\ answers' = Answer(answers, n, Error)
        /\ inflight' = {fl \in inflight : fl.lid # next_local_id}
    BY <1>7, <2>0 DEF CallWriteFails, LockInv
  <2>2. PICK fl \in inflight : fl.lid = next_local_id /\ fl.kind = "agent" /\ fl.orig = n
    BY <2>0, <2>1 DEF LockInv
  <2>3. n \in AgentIds
    OBVIOUS
  <2>4. /\ answers'[n] = Append(answers[n], Error)
        /\ \A k \in AgentIds \ {n} : answers'[k] = answers[k]
    BY <2>1, <2>3, AnswerGiven
  <2>5. answers'[n] # <<>> /\ Entered(n)
    <3>1. Entered(n)
      BY <2>2 DEF Entered
    <3> QED BY <1>1, <2>4, <3>1, AnswerThere
  <2>6. ASSUME NEW id \in AgentIds \ {n} PROVE Still(id)
    <3>1. Queued(id)' <=> Queued(id)
      BY <1>0, <1>1, <2>0, <2>1, StdinMoves
    <3>2. Entered(id)' <=> Entered(id)
      BY <2>1, <2>2 DEF Entered, TableInv
    <3> QED BY <1>0, <1>2, <2>4, <3>1, <3>2, StageSame
  <2>7. StageOf(n)' = "answered" /\ StageOf(n) = "forwarded"
    BY <1>1, <2>3, <2>5, StageIs, StageIsNext
  <2>8. Proxy!Fail({n})
    <3>1. \A id \in {n} : Stage[id] = "forwarded"
      BY <2>3, <2>7 DEF Stage
    <3>2. Stage' = [id \in AgentIds |-> IF id \in {n} THEN "answered" ELSE Stage[id]]
      BY <2>3, <2>6, <2>7 DEF Stage, Still
    <3>3. answers' = [id \in AgentIds |-> IF id \in {n} THEN Append(answers[id], Proxy!Failed) ELSE answers[id]]
      BY <2>1, <2>3 DEF AllTypes, MainTypes, Answer, Error, Proxy!Failed
    <3> QED BY <3>1, <3>2, <3>3 DEF Proxy!Fail
  <2> QED BY <2>3, <2>8 DEF ProxyStep, Proxy!Next
<1> QED
  BY <1>3, <1>4, <1>5, <1>6, <1>7, Zenon DEF Main

\* A backend that is gone is the end of the calls it had.
LEMMA ProxyTeardown ==
    ASSUME AllTypes, TableInv, OnceInv, OnceInv', NEW s \in Slots, backend_teardown_locked(s)
    PROVE  ProxyStep
<1> DEFINE S == {id \in AgentIds : \E fl \in Outstanding(s) : fl.orig = id}
<1>1. /\ inflight' = {fl \in inflight : fl.slot # s} /\ held' = held
      /\ UNCHANGED <<stdin, main, sent>>
  BY DEF backend_teardown_locked, FreeSlot, mainVars
<1>2. answers' = [id \in AgentIds |-> IF id \in S THEN Append(answers[id], Proxy!Failed) ELSE answers[id]]
  BY DEF backend_teardown_locked, Error, Proxy!Failed
<1>3. \A id \in AgentIds : \A t \in Slots : Relays(t, id)' <=> Relays(t, id)
  <2>1. /\ reader[s] = "teardown" /\ reader' = [reader EXCEPT ![s] = "none"]
        /\ reader \in [Slots -> {"none", "top", "read", "lookup", "relay", "apply", "emit", "refresh",
                                 "write", "teardown"}]
    BY DEF backend_teardown_locked, FreeSlot, AllTypes, ReaderTypes
  <2>2. reader'[s] = "none" /\ \A t \in Slots \ {s} : reader'[t] = reader[t]
    BY <2>1
  <2> QED BY <1>1, <2>1, <2>2 DEF Relays
<1>4. \A id \in AgentIds : OnceOf(id) /\ OnceOf(id)'
  BY DEF OnceInv
<1>5. ASSUME NEW id \in S PROVE StageOf(id) = "forwarded" /\ StageOf(id)' = "answered"
  <2>1. PICK fl \in inflight : fl.kind = "agent" /\ fl.orig = id
    BY <1>5 DEF Outstanding
  <2>2. Entered(id)
    BY <2>1 DEF Entered
  <2>3. answers'[id] # <<>>
    BY <1>2, <1>4, <1>5, <2>2, AnswerThere
  <2> QED BY <1>4, <2>2, <2>3, StageIs, StageIsNext
<1>6. ASSUME NEW id \in AgentIds \ S PROVE Still(id)
  <2>1. Queued(id)' <=> Queued(id)
    BY <1>1 DEF Queued, Call
  <2>2. Entered(id)' <=> Entered(id)
    BY <1>1, <1>6 DEF Entered, Outstanding
  <2>3. Relayed(id)' <=> Relayed(id)
    BY <1>3 DEF Relayed
  <2>4. answers'[id] = answers[id]
    BY <1>2, <1>6
  <2> QED BY <1>1, <2>1, <2>2, <2>3, <2>4, StageSame
<1> HIDE DEF S
<1>7. S \subseteq AgentIds
  BY DEF S
<1>8. Proxy!Fail(S)
  <2>1. \A id \in S : Stage[id] = "forwarded"
    BY <1>5, <1>7 DEF Stage
  <2>2. Stage' = [id \in AgentIds |-> IF id \in S THEN "answered" ELSE Stage[id]]
    BY <1>5, <1>6, <1>7 DEF Stage, Still
  <2> QED BY <1>2, <2>1, <2>2 DEF Proxy!Fail
<1> QED BY <1>7, <1>8 DEF ProxyStep, Proxy!Next

\* A reader that only changes itself leaves the calls.
LEMMA ReaderStill ==
    ASSUME ReaderTypes, NEW s \in Slots, reader[s] # "relay", reader'[s] # "relay",
           \A t \in Slots \ {s} : reader'[t] = reader[t] /\ held'[t] = held[t],
           UNCHANGED <<stdin, main, sent, answers>>,
           \A id \in AgentIds : Entered(id)' <=> Entered(id)
    PROVE  ProxyStep
<1>1. ASSUME NEW id \in AgentIds PROVE Still(id)
  <2>1. \A t \in Slots : Relays(t, id)' <=> Relays(t, id)
    BY DEF Relays
  <2>2. Relayed(id)' <=> Relayed(id)
    BY <2>1 DEF Relayed
  <2>3. Queued(id)' <=> Queued(id)
    BY DEF Queued, Call
  <2> QED BY <2>2, <2>3, StageSame
<1> QED BY <1>1, StagesStill DEF ProxyStep

\* The entry of the reply that a reader looks up is its own backend's.
LEMMA OwnEntry ==
    ASSUME AllTypes, MemberInv, TableInv, HeldInv, NEW s \in Slots, reader[s] = "lookup",
           NEW fl \in inflight, fl.lid = held[s].msg.lid
    PROVE  fl.slot = s
<1>1. fl.of = backends[s] /\ backends[fl.slot] = fl.of /\ fl.slot \in Slots /\ fl.of \in Apps
  BY DEF HeldInv, HeldOf, Framed, FrameOf, Matches, TableInv, AllTypes, TableTypes, Entries
<1>2. s \in Members /\ fl.slot \in Members
  BY <1>1, AggregatorAssumption DEF Members
<1> QED BY <1>1, <1>2 DEF MemberInv, NoDuplicateBackend

\* A reader.
LEMMA ProxyReader ==
    ASSUME AllTypes, MemberInv, TableInv, LockInv, HeldInv, OnceInv, OnceInv', NEW s \in Slots, Reader(s)
    PROVE  ProxyStep
<1>0. ReaderTypes /\ UNCHANGED <<stdin, main, sent>>
  BY ReaderFrame DEF AllTypes
<1>1. \A id \in AgentIds : OnceOf(id) /\ OnceOf(id)'
  BY DEF OnceInv
<1>2. CASE ReaderTop(s) \/ ReaderEOF(s) \/ ReaderApply(s) \/ ReaderEmit(s) \/ RefreshLost(s)
  <2>1. UNCHANGED <<answers, inflight>>
    BY <1>2 DEF ReaderTop, ReaderEOF, ReaderApply, ReaderEmit, RefreshLost, tableVars, agentVars
  <2>2. /\ reader[s] # "relay" /\ reader'[s] # "relay"
        /\ \A t \in Slots \ {s} : reader'[t] = reader[t] /\ held'[t] = held[t]
    BY <1>0, <1>2 DEF ReaderTop, ReaderEOF, ReaderApply, ReaderEmit, RefreshLost, ReaderTypes
  <2>3. \A id \in AgentIds : Entered(id)' <=> Entered(id)
    BY <2>1 DEF Entered
  <2> QED BY <1>0, <2>1, <2>2, <2>3, ReaderStill
<1>3. CASE ReaderRead(s) \/ RefreshWrite(s)
  <2>1. UNCHANGED <<answers, inflight>>
    BY <1>3 DEF ReaderRead, RefreshWrite, tableVars, agentVars
  <2>2. /\ reader[s] # "relay" /\ reader'[s] # "relay"
        /\ \A t \in Slots \ {s} : reader'[t] = reader[t] /\ held'[t] = held[t]
    BY <1>0, <1>3 DEF ReaderRead, RefreshWrite, ReaderTypes
  <2>3. \A id \in AgentIds : Entered(id)' <=> Entered(id)
    BY <2>1 DEF Entered
  <2> QED BY <1>0, <2>1, <2>2, <2>3, ReaderStill
<1>4. CASE RefreshWriteFails(s)
  <2>1. /\ answers' = answers /\ reader[s] = "write"
        /\ inflight' = {fl \in inflight : fl.lid # next_local_id}
    BY <1>4 DEF RefreshWriteFails, agentVars
  <2>2. /\ reader'[s] # "relay"
        /\ \A t \in Slots \ {s} : reader'[t] = reader[t] /\ held'[t] = held[t]
    BY <1>0, <1>4 DEF RefreshWriteFails, ReaderTypes
  <2>3. \A fl \in inflight : fl.lid = next_local_id => fl.kind = "refresh"
    BY <2>1 DEF LockInv, TableInv
  <2>4. \A id \in AgentIds : Entered(id)' <=> Entered(id)
    BY <2>1, <2>3 DEF Entered
  <2> QED BY <1>0, <2>1, <2>2, <2>4, ReaderStill
<1>5. CASE RefreshAlloc(s)
  <2> DEFINE e == [lid |-> next_local_id + 1, slot |-> s, kind |-> "refresh", orig |-> 0, of |-> backends[s]]
  <2>1. inflight' = inflight \cup {e} /\ e.kind = "refresh"
    BY <1>5, RefreshEntered DEF inflight_alloc
  <2> HIDE DEF e
  <2>2. /\ reader[s] # "relay" /\ reader'[s] # "relay" /\ answers' = answers
        /\ \A t \in Slots \ {s} : reader'[t] = reader[t] /\ held'[t] = held[t]
    BY <1>0, <1>5 DEF RefreshAlloc, ReaderTypes, agentVars
  <2>3. \A id \in AgentIds : Entered(id)' <=> Entered(id)
    BY <2>1 DEF Entered
  <2> QED BY <1>0, <2>2, <2>3, ReaderStill
<1>6. CASE ReaderRelay(s)
  <2>0. PICK n \in AgentIds : n = held[s].orig
    BY <1>6 DEF ReaderRelay, HeldInv, HeldOf
  <2>1. n = held[s].msg.id /\ reader[s] = "relay" /\ Relays(s, n)
    BY <1>6, <2>0 DEF ReaderRelay, HeldInv, HeldOf, Relays
  <2>2. answers' = Answer(answers, n, Reply(n)) /\ inflight' = inflight
    BY <1>6, <2>0, <2>1 DEF ReaderRelay, tableVars
  <2>3. reader'[s] = "top" /\ \A t \in Slots \ {s} : reader'[t] = reader[t] /\ held'[t] = held[t]
    BY <1>0, <1>6 DEF ReaderRelay, ReaderTypes
  <2>4. /\ answers'[n] = Append(answers[n], Reply(n))
        /\ \A k \in AgentIds \ {n} : answers'[k] = answers[k]
    BY <2>2, AnswerGiven
  <2>5. Relayed(n) /\ answers'[n] # <<>>
    <3>1. Relayed(n)
      BY <2>1 DEF Relayed
    <3> QED BY <1>1, <2>4, <3>1, AnswerThere
  <2>6. ASSUME NEW id \in AgentIds \ {n} PROVE Still(id)
    <3>1. \A t \in Slots : Relays(t, id)' <=> Relays(t, id)
      BY <2>0, <2>1, <2>3 DEF Relays
    <3>2. Relayed(id)' <=> Relayed(id)
      BY <3>1 DEF Relayed
    <3>3. (Queued(id)' <=> Queued(id)) /\ (Entered(id)' <=> Entered(id))
      BY <1>0, <2>2 DEF Queued, Call, Entered
    <3> QED BY <1>0, <2>4, <3>2, <3>3, StageSame
  <2>7. StageOf(n)' = "answered" /\ StageOf(n) = "forwarded"
    BY <1>1, <2>5, StageIs, StageIsNext
  <2>8. Stage' = [Stage EXCEPT ![n] = "answered"] /\ Stage[n] = "forwarded"
    BY <2>6, <2>7, StageMoves DEF Stage
  <2>9. Proxy!Relay(n)
    BY <2>2, <2>8 DEF Proxy!Relay, Proxy!Settle, Proxy!ReplyTo, Reply, Answer
  <2> QED BY <2>9 DEF ProxyStep, Proxy!Next
<1>7. CASE ReaderLookup(s)
  <2>0. answers' = answers /\ reader[s] = "lookup"
    BY <1>7 DEF ReaderLookup, agentVars
  <2>1. CASE /\ inflight' = inflight /\ reader' = [reader EXCEPT ![s] = "top"]
             /\ held' = [held EXCEPT ![s] = NoHold]
    <3>1. /\ reader'[s] # "relay" /\ \A t \in Slots \ {s} : reader'[t] = reader[t] /\ held'[t] = held[t]
      BY <1>0, <2>1 DEF ReaderTypes
    <3>2. \A id \in AgentIds : Entered(id)' <=> Entered(id)
      BY <2>1 DEF Entered
    <3> QED BY <1>0, <2>0, <3>1, <3>2, ReaderStill
  <2>2. ASSUME NEW fl \in inflight, fl.lid = held[s].msg.lid, inflight' = inflight \ {fl},
               reader' = [reader EXCEPT ![s] = IF fl.slot # s THEN "top"
                                               ELSE IF fl.kind = "refresh" THEN "apply" ELSE "relay"],
               held' = [held EXCEPT ![s] = IF fl.slot # s THEN NoHold ELSE [@ EXCEPT !.orig = fl.orig]]
        PROVE  ProxyStep
    <3>0. fl.slot = s /\ \A t \in Slots \ {s} : reader'[t] = reader[t] /\ held'[t] = held[t]
      BY <1>0, <2>0, <2>2, OwnEntry DEF ReaderTypes
    <3>1. CASE fl.kind = "refresh"
      <4>1. reader'[s] # "relay"
        BY <1>0, <2>2, <3>0, <3>1 DEF ReaderTypes
      <4>2. \A id \in AgentIds : Entered(id)' <=> Entered(id)
        BY <2>2, <3>1 DEF Entered
      <4> QED BY <1>0, <2>0, <3>0, <4>1, <4>2, ReaderStill
    <3>2. CASE fl.kind # "refresh"
      <4>1. fl.kind = "agent" /\ reader'[s] = "relay" /\ held'[s].orig = fl.orig
        BY <1>0, <2>2, <3>0, <3>2 DEF ReaderTypes, AllTypes, TableTypes, Entries
      <4>2. ASSUME NEW id \in AgentIds PROVE Still(id)
        <5>1. \A t \in Slots : Relays(t, id)' <=> Relays(t, id) \/ (t = s /\ fl.orig = id)
          BY <2>0, <3>0, <4>1 DEF Relays
        <5>2. Relayed(id)' <=> Relayed(id) \/ fl.orig = id
          BY <5>1 DEF Relayed
        <5>3. Entered(id)' \/ fl.orig = id <=> Entered(id)
          BY <2>2, <4>1 DEF Entered
        <5>4. Queued(id)' <=> Queued(id)
          BY <1>0 DEF Queued, Call
        <5> QED BY <1>0, <2>0, <5>2, <5>3, <5>4, StageSame
      <4> QED BY <2>0, <4>2, StagesStill DEF ProxyStep
    <3> QED BY <3>1, <3>2
  <2> QED BY <1>7, <2>1, <2>2 DEF ReaderLookup, inflight_find
<1>8. CASE backend_teardown_locked(s)
  BY <1>8, ProxyTeardown
<1> QED
  BY <1>2, <1>3, <1>4, <1>5, <1>6, <1>7, <1>8, Zenon DEF Reader

\* The agent.
LEMMA ProxyAgent ==
    ASSUME AllTypes, LockInv, OnceInv, OnceInv', AgentStep
    PROVE  ProxyStep
<1>0. UNCHANGED <<reader, held, inflight, main, answers>> /\ stdin \in Seq(Requests)
  BY AgentFrame DEF AllTypes, MainTypes
<1>1. \A id \in AgentIds : OnceOf(id) /\ OnceOf(id)'
  BY DEF OnceInv
<1>2. \A id \in AgentIds : (Entered(id)' <=> Entered(id)) /\ (Relayed(id)' <=> Relayed(id))
  BY <1>0 DEF Entered, Relayed, Relays
<1>3. ASSUME NEW m \in Requests, stdin' = Append(stdin, m)
      PROVE  /\ \A id \in AgentIds : ~(m.type = "call" /\ m.id = id) => (Queued(id)' <=> Queued(id))
             /\ \A id \in AgentIds : m.type = "call" /\ m.id = id => Queued(id)'
  <2>1. /\ Len(stdin) \in Nat /\ Len(stdin') = Len(stdin) + 1
        /\ \A i \in 1..Len(stdin) : stdin'[i] = stdin[i]
        /\ stdin'[Len(stdin) + 1] = m
    BY <1>0, <1>3
  <2>2. \A id \in AgentIds : \A i \in 1..Len(stdin) : Call(i, id)' <=> Call(i, id)
    BY <2>1 DEF Call
  <2>3. \A id \in AgentIds : \A k : k = Len(stdin) + 1 => (Call(k, id)' <=> m.type = "call" /\ m.id = id)
    BY <2>1 DEF Call
  <2>4. ASSUME NEW id \in AgentIds, ~(m.type = "call" /\ m.id = id) PROVE Queued(id)' <=> Queued(id)
    <3>1. \A i \in 1..Len(stdin') : i \in 1..Len(stdin) \/ i = Len(stdin) + 1
      BY <2>1
    <3>2. \A i \in 1..Len(stdin) : i \in 1..Len(stdin')
      BY <2>1
    <3> QED BY <1>0, <2>2, <2>3, <2>4, <3>1, <3>2 DEF Queued
  <2>5. ASSUME NEW id \in AgentIds, m.type = "call", m.id = id PROVE Queued(id)'
    <3>1. Len(stdin) + 1 \in 1..Len(stdin')
      BY <2>1
    <3>2. PICK k \in 1..Len(stdin') : k = Len(stdin) + 1
      BY <3>1
    <3>3. Call(k, id)'
      BY <2>3, <2>5, <3>2
    <3>4. ~(k = 1 /\ main' = "write")
      <4>1. main = "write" => stdin # <<>>
        BY DEF LockInv
      <4>2. stdin # <<>> => Len(stdin) > 0
        BY <1>0
      <4> QED BY <1>0, <2>1, <3>2, <4>1, <4>2
    <3> QED BY <3>2, <3>3, <3>4 DEF Queued
  <2> QED BY <2>4, <2>5
<1>4. CASE AgentLists
  <2> DEFINE m == [type |-> "tools/list"]
  <2>1. m \in Requests /\ m.type # "call"
    BY DEF Requests
  <2>2. stdin' = Append(stdin, m) /\ sent' = sent
    BY <1>4 DEF AgentLists
  <2> HIDE DEF m
  <2>3. ASSUME NEW id \in AgentIds PROVE Still(id)
    <3>1. Queued(id)' <=> Queued(id)
      BY <1>3, <2>1, <2>2
    <3> QED BY <1>0, <1>2, <2>2, <3>1, StageSame
  <2> QED BY <1>0, <2>3, StagesStill DEF ProxyStep
<1>5. ASSUME NEW n \in AgentIds, NEW target \in Apps \cup {Workspace}, AgentCalls(n, target)
      PROVE  ProxyStep
  <2> DEFINE m == [type |-> "call", id |-> n, target |-> target]
  <2>1. m \in Requests /\ m.type = "call" /\ m.id = n
    BY DEF Requests
  <2>2. stdin' = Append(stdin, m) /\ n \notin sent /\ sent' = sent \cup {n}
    BY <1>5 DEF AgentCalls
  <2> HIDE DEF m
  <2>3. ASSUME NEW id \in AgentIds \ {n} PROVE Still(id)
    <3>1. Queued(id)' <=> Queued(id)
      BY <1>3, <2>1, <2>2
    <3> QED BY <1>0, <1>2, <2>2, <3>1, StageSame
  <2>4. Queued(n)'
    BY <1>3, <2>1, <2>2
  <2>5. StageOf(n)' = "queued" /\ StageOf(n) = "free"
    BY <1>1, <2>2, <2>4, StageIs, StageIsNext
  <2>6. Stage' = [Stage EXCEPT ![n] = "queued"] /\ Stage[n] = "free"
    BY <2>3, <2>5, StageMoves DEF Stage
  <2>7. Proxy!Ask(n)
    BY <1>0, <2>6 DEF Proxy!Ask
  <2> QED BY <2>7 DEF ProxyStep, Proxy!Next
<1> QED BY <1>4, <1>5 DEF AgentStep

\* A setup thread gives no reader a reply.
LEMMA ProxySetup ==
    ASSUME AllTypes, MemberInv, NEW a \in Apps, backend_setup(a)
    PROVE  ProxyStep
<1>1. UNCHANGED <<held, inflight, main, stdin, answers, sent>> /\ ReaderTypes
  BY SetupFrame DEF AllTypes
<1>2. \A t \in Slots : reader'[t] = "relay" <=> reader[t] = "relay"
  <2>1. CASE SetupRegister(a)
    <3>1. reader' = [reader EXCEPT ![Min(FreeSlots)] = "top"] /\ FreeSlots # {} /\ FreeSlots \subseteq Slots
      BY <2>1 DEF SetupRegister, FreeSlots
    <3>2. Min(FreeSlots) \in FreeSlots
      BY <3>1, FirstIsMember
    <3>3. reader[Min(FreeSlots)] = "none"
      BY <3>1, <3>2 DEF FreeSlots, Members, MemberInv
    <3> QED BY <1>1, <3>1, <3>2, <3>3 DEF ReaderTypes
  <2>2. CASE ~SetupRegister(a)
    BY <2>2 DEF backend_setup, SetupConnect, SetupSkip, SetupFails, SetupNoSlot,
                connecting_remove, readerVars
  <2> QED BY <2>1, <2>2
<1>3. ASSUME NEW id \in AgentIds PROVE Still(id)
  <2>1. \A t \in Slots : Relays(t, id)' <=> Relays(t, id)
    BY <1>1, <1>2 DEF Relays
  <2>2. (Relayed(id)' <=> Relayed(id)) /\ (Queued(id)' <=> Queued(id)) /\ (Entered(id)' <=> Entered(id))
    BY <1>1, <2>1 DEF Relayed, Queued, Call, Entered
  <2> QED BY <1>1, <2>2, StageSame
<1> QED BY <1>1, <1>3, StagesStill DEF ProxyStep

\* A step that leaves calls, table and readers alone.
LEMMA ProxyStutters ==
    ASSUME UNCHANGED <<reader, held, inflight, main, stdin, answers, sent>>
    PROVE  ProxyStep
<1>1. ASSUME NEW id \in AgentIds PROVE Still(id)
  BY StageSame DEF Relayed, Relays, Queued, Call, Entered
<1> QED BY <1>1, StagesStill DEF ProxyStep

\* Every step is a step of the proxy, or changes nothing that it shows.
LEMMA ProxySteps ==
    ASSUME RouteInv, RouteInv', [Next]_vars
    PROVE  ProxyStep
<1>1. AllTypes /\ MemberInv /\ TableInv /\ LockInv /\ HeldInv /\ OnceInv /\ OnceInv'
  BY TypeParts DEF RouteInv, AllTypes
<1>2. CASE UNCHANGED vars
  BY <1>2, ProxyStutters DEF vars, readerVars, tableVars, mainVars, agentVars
<1>3. CASE poll_thread \/ emit_list_changed_upstream \/ \E a \in Apps : AppStep(a)
  <2>1. UNCHANGED <<reader, held, inflight, main, stdin, answers, sent>>
    BY <1>3, PollFrame, EmitFrame, AppFrame
  <2> QED BY <2>1, ProxyStutters
<1>4. CASE \E a \in Apps : backend_setup(a)
  BY <1>1, <1>4, ProxySetup
<1>5. CASE Main \/ AgentStep \/ \E s \in Slots : Reader(s)
  BY <1>1, <1>5, ProxyMain, ProxyAgent, ProxyReader
<1> QED
  BY <1>2, <1>3, <1>4, <1>5, AggregatorSteps

\* At first no call has been made.
LEMMA ProxyInit ==
    ASSUME Init
    PROVE  Proxy!Init
<1>1. /\ answers = [id \in AgentIds |-> <<>>] /\ inflight = {} /\ sent = {}
      /\ stdin = <<[type |-> "initialize"]>> /\ reader = [s \in Slots |-> "none"]
  BY DEF Init
<1>2. ASSUME NEW id \in AgentIds PROVE StageOf(id) = "free"
  <2>1. ~Entered(id) /\ id \notin sent /\ answers[id] = <<>>
    BY <1>1 DEF Entered
  <2>2. ~Relayed(id)
    BY <1>1 DEF Relayed, Relays
  <2>3. Len(stdin) = 1 /\ stdin[1].type = "initialize"
    BY <1>1
  <2>4. \A i \in 1..Len(stdin) : stdin[i].type # "call"
    BY <2>3
  <2>5. ~Queued(id)
    BY <2>4 DEF Queued, Call
  <2> QED BY <2>1, <2>2, <2>5 DEF StageOf
<1> QED BY <1>1, <1>2 DEF Proxy!Init, Stage

\* The aggregator implements the proxy of RpcProxy: whatever the threads,
\* the apps and the agent do, every call moves through its stages, is never
\* forgotten, and its one answer is the reply to it or comes from the party
\* that gave it up.
THEOREM AggregatorImplementsProxy == Spec => ImplementsProxy
<1>1. Init => Proxy!Init
  BY ProxyInit
<1>2. RouteInv /\ RouteInv' /\ [Next]_vars => [Proxy!Next]_(Proxy!vars)
  BY ProxySteps DEF ProxyStep, Proxy!vars
<1> QED
  BY <1>1, <1>2, AggregatorInvariant, PTL DEF Spec, ImplementsProxy, Proxy!Spec

\* A call of the agent is always somewhere: queued, in the table, in the hands
\* of a reader, or answered.
Remembered == \A id \in AgentIds : id \in sent => StageOf(id) # "forgotten"

\* No step of the proxy brings a call to a stage that it does not have.
LEMMA ProxyStages ==
    ASSUME Remembered, ProxyStep
    PROVE  Remembered'
<1>1. \A id \in AgentIds : Stage[id] = StageOf(id) /\ StageOf(id) # "forgotten"
  BY DEF Remembered, Stage, StageOf
<1>2. \A id \in AgentIds : Stage'[id] = StageOf(id)'
  BY DEF Stage
<1>3. Stage = [id \in AgentIds |-> Stage[id]]
  BY DEF Stage
<1>4. \A id \in AgentIds : Stage'[id] # "forgotten"
  BY <1>1, <1>3 DEF ProxyStep, Proxy!Next, Proxy!Ask, Proxy!Forward, Proxy!AnswerHere, Proxy!Relay,
                    Proxy!Settle, Proxy!Fail
<1> QED BY <1>2, <1>4 DEF Remembered

\* The aggregator never loses a call: between handle_tools_call, the readers
\* and backend_teardown_locked there is always one that will answer it.
THEOREM AggregatorRemembers == Spec => []Remembered
<1>1. Init => Remembered
  BY DEF Init, Remembered
<1>2. Remembered /\ RouteInv /\ RouteInv' /\ [Next]_vars => Remembered'
  BY ProxySteps, ProxyStages
<1> QED
  BY <1>1, <1>2, AggregatorInvariant, PTL DEF Spec

=============================================================================
