------------------------ MODULE WorkspaceAggregator ------------------------
(***************************************************************************)
(* The workspace aggregator, adapter/workspace_aggregator.c: the main      *)
(* thread serves the agent on stdin, the poll thread discovers apps, one   *)
(* setup thread per candidate does the handshake, and one reader thread    *)
(* per backend relays replies and list_changed notifications.              *)
(*                                                                         *)
(* All of them share g.lock.  A critical section that does not block is    *)
(* one action, guarded by the lock being free; the two that write to a     *)
(* backend keep the lock over a write that blocks while the connection is  *)
(* full.  The prefixes are in module PrefixRegistry: here a call names its *)
(* target app.  A tool list is the version of it that the app had.  Apps   *)
(* and the agent are external.                                             *)
(***************************************************************************)
EXTENDS Naturals, Sequences, FiniteSets, FiniteSetsExt

CONSTANTS
    Apps,           \* app sessions, and the shell
    Shell,          \* the member of Apps with the shell role, if it is one
    MAX_BACKENDS,   \* slots, and candidates in the handshake at a time
    MAX_INFLIGHT,   \* requests to backends that are not yet answered
    Cap,            \* frames that one direction of a connection holds
    AgentIds,       \* bound: ids of the calls the agent makes, each once
    MaxLists,       \* bound: tools/list requests of the agent
    MaxChanges,     \* bound: tool-list changes of each app
    MaxHangups,     \* bound: connections an app closes while it lives on
    MayHang,        \* apps that may stop reading and answering
    MayDie          \* apps that may exit

Slots == 1..MAX_BACKENDS
NoApp == "no app"
Workspace == "workspace"   \* the target of workspace__list_apps

ASSUME AggregatorAssumption ==
    /\ NoApp \notin Apps /\ Workspace \notin Apps
    /\ MAX_BACKENDS \in Nat \ {0} /\ MAX_INFLIGHT \in Nat \ {0} /\ Cap \in Nat \ {0}
    /\ AgentIds \subseteq Nat \ {0}
    /\ MaxLists \in Nat /\ MaxChanges \in Nat /\ MaxHangups \in Nat
    /\ MayHang \subseteq Apps /\ MayDie \subseteq Apps

VARIABLES
    app,          \* app -> absent, up, hung or dead
    version,      \* app -> the version of its tool list
    serving,      \* app -> the request its serve thread works on, or NoMsg
    link,         \* app -> none, open, or closed by the app
    toApp,        \* app -> frames under way to it
    fromApp,      \* app -> frames under way from it
    hangups,
    backends,     \* slot -> its app, or NoApp
    cache,        \* slot -> the cached tool list
    connecting,   \* candidates in the handshake (connecting, shell_connecting)
    setup,        \* app -> where its setup thread is
    reader,       \* slot -> where its reader thread is
    held,         \* slot -> the message it holds, and the agent id to restore
    inflight,     \* the in-flight table
    next_local_id,
    lock,         \* who holds g.lock over a blocking write
    main,         \* where the main thread is
    stdin,        \* requests of the agent, first the one being handled
    agent_initialized,
    emitters,     \* readers past their teardown, about to emit list_changed
    answers,      \* agent id -> what it was answered
    view,         \* the tool list the agent has
    built,        \* the one the main thread is about to send it
    told,         \* has list_changed come since the agent last asked?
    lists,        \* tools/list requests so far
    sent,         \* calls it has made
    missed        \* apps of which a list_changed was lost

linkVars == <<link, toApp, fromApp, serving>>
appVars == <<app, version, hangups>>
memberVars == <<backends, cache, connecting, setup>>
readerVars == <<reader, held>>
tableVars == <<inflight, next_local_id>>
mainVars == <<main, agent_initialized, built>>
agentVars == <<stdin, answers, view, told, lists, sent>>
historyVars == <<emitters, missed>>
vars == <<lock, linkVars, appVars, memberVars, readerVars, tableVars, mainVars, agentVars,
          historyVars>>

\* A frame: a request (call, list), a reply to one, or changed.  id is the
\* agent's id of the call that it is about, ver the version of a list.
Msg(type, lid, id, ver) == [type |-> type, lid |-> lid, id |-> id, ver |-> ver]
NoMsg == Msg("none", 0, 0, 0)
NoHold == [msg |-> NoMsg, orig |-> 0]
HandshakeId == 0   \* the id of the handshake's tools/list, private to its connection

NoView == {<<NoApp, 0>>}
Members == {s \in Slots : backends[s] # NoApp}
\* what build_merged_tools lists
Surface == {<<backends[s], cache[s]>> : s \in Members}

Init ==
    /\ app = [a \in Apps |-> "absent"]
    /\ version = [a \in Apps |-> 0]
    /\ serving = [a \in Apps |-> NoMsg]
    /\ link = [a \in Apps |-> "none"]
    /\ toApp = [a \in Apps |-> <<>>] /\ fromApp = [a \in Apps |-> <<>>]
    /\ hangups = 0
    /\ backends = [s \in Slots |-> NoApp] /\ cache = [s \in Slots |-> 0]
    /\ connecting = {}
    /\ setup = [a \in Apps |-> "none"]
    /\ reader = [s \in Slots |-> "none"] /\ held = [s \in Slots |-> NoHold]
    /\ inflight = {} /\ next_local_id = 0
    /\ lock = <<>>
    /\ main = "idle" /\ stdin = <<[type |-> "initialize"]>>
    /\ agent_initialized = FALSE
    /\ emitters = 0
    /\ answers = [id \in AgentIds |-> <<>>]
    /\ view = NoView /\ built = NoView /\ told = FALSE /\ lists = 0 /\ sent = {}
    /\ missed = {}

Unlocked == lock = <<>>

-----------------------------------------------------------------------------
(***************************************************************************)
(* The in-flight table.                                                    *)
(***************************************************************************)
HasRoom == Cardinality(inflight) < MAX_INFLIGHT

\* Mutant of inflight_alloc: next_local_id is used before it is incremented.
inflight_allocSameId(s, kind, orig) ==
    /\ next_local_id' = next_local_id
    /\ inflight' = inflight \cup {[lid |-> next_local_id, slot |-> s, kind |-> kind,
                                   orig |-> orig, of |-> backends[s]]}

\* of records, as history, the app the entry was made for.
inflight_alloc(s, kind, orig) ==
    /\ next_local_id' = next_local_id + 1
    /\ inflight' = inflight \cup {[lid |-> next_local_id + 1, slot |-> s, kind |-> kind,
                                   orig |-> orig, of |-> backends[s]]}

inflight_find(lid) == {fl \in inflight : fl.lid = lid}

\* What an agent's call is answered: an error, the list of apps, or the
\* reply that a backend made to call id.
Error == <<"error">>
AppsList == <<"apps">>
Reply(id) == <<"reply", id>>
Answer(ans, id, what) == [ans EXCEPT ![id] = Append(@, what)]

-----------------------------------------------------------------------------
(***************************************************************************)
(* Membership: the poll thread and the setup threads.                      *)
(***************************************************************************)
\* Mutant of backend_known: only the candidates are looked at.
backend_knownConnecting(a) == a \in connecting

backend_known(a) == a \in connecting \/ \E s \in Slots : backends[s] = a

\* One turn of poll_thread.  Endpoints of apps that have exited may still be
\* enumerated; the shell needs no room in connecting.
poll_thread ==
    /\ Unlocked
    /\ \E stale \in SUBSET {a \in Apps : app[a] = "dead"} :
       LET seen == {a \in Apps : app[a] \in {"up", "hung"}} \cup stale
           fresh == {a \in seen : ~backend_known(a)}
       IN  \E taken \in SUBSET fresh :
              /\ taken # {}
              /\ Shell \in fresh => Shell \in taken
              /\ LET room == MAX_BACKENDS - Cardinality(connecting \ {Shell})
                     most == IF Cardinality(fresh \ {Shell}) < room THEN Cardinality(fresh \ {Shell}) ELSE room
                 IN  Cardinality(taken \ {Shell}) = most
              /\ connecting' = connecting \cup taken
              /\ setup' = [a \in Apps |-> IF a \in taken THEN "connect" ELSE setup[a]]
    /\ UNCHANGED <<backends, cache, lock, linkVars, appVars, readerVars, tableVars, mainVars,
                   agentVars, historyVars>>

\* backend_setup connects, is answered to initialize and asks for the tools.
SetupConnect(a) ==
    /\ setup[a] = "connect" /\ app[a] = "up"
    /\ link' = [link EXCEPT ![a] = "open"]
    /\ toApp' = [toApp EXCEPT ![a] = <<Msg("list", HandshakeId, 0, 0)>>]
    /\ setup' = [setup EXCEPT ![a] = "list"]
    /\ missed' = missed \ {a}
    /\ UNCHANGED <<serving, fromApp, backends, cache, connecting, lock, emitters, appVars,
                   readerVars, tableVars, mainVars, agentVars>>

\* sync_request drops what is not the reply.
SetupSkip(a) ==
    /\ setup[a] = "list" /\ fromApp[a] # <<>> /\ Head(fromApp[a]).type = "changed"
    /\ fromApp' = [fromApp EXCEPT ![a] = Tail(@)]
    /\ missed' = missed \cup {a}
    /\ UNCHANGED <<serving, link, toApp, lock, emitters, appVars, memberVars, readerVars,
                   tableVars, mainVars, agentVars>>

\* Nobody answers, or the connection breaks: give up.
SetupFails(a) ==
    /\ \/ setup[a] = "connect" /\ app[a] = "dead"
       \/ setup[a] = "list" /\ link[a] = "closed"
    /\ setup' = [setup EXCEPT ![a] = "failed"]
    /\ link' = [link EXCEPT ![a] = "none"]
    /\ toApp' = [toApp EXCEPT ![a] = <<>>] /\ fromApp' = [fromApp EXCEPT ![a] = <<>>]
    /\ serving' = [serving EXCEPT ![a] = NoMsg]
    /\ UNCHANGED <<backends, cache, connecting, lock, appVars, readerVars, tableVars, mainVars,
                   agentVars, historyVars>>

FreeSlots == Slots \ Members

\* The reply to tools/list: register the backend in the first free slot and
\* start its reader.
SetupRegister(a) ==
    /\ setup[a] = "list" /\ fromApp[a] # <<>> /\ Head(fromApp[a]).type = "reply"
    /\ Unlocked /\ FreeSlots # {}
    /\ LET s == Min(FreeSlots)
       IN  /\ backends' = [backends EXCEPT ![s] = a]
           /\ cache' = [cache EXCEPT ![s] = Head(fromApp[a]).ver]
           /\ reader' = [reader EXCEPT ![s] = "top"]
    /\ fromApp' = [fromApp EXCEPT ![a] = Tail(@)]
    /\ setup' = [setup EXCEPT ![a] = "joined"]
    /\ UNCHANGED <<serving, link, toApp, connecting, held, lock, appVars, tableVars, mainVars,
                   agentVars, historyVars>>

\* ... or close the connection when there is none.
SetupNoSlot(a) ==
    /\ setup[a] = "list" /\ fromApp[a] # <<>> /\ Head(fromApp[a]).type = "reply"
    /\ Unlocked /\ FreeSlots = {}
    /\ setup' = [setup EXCEPT ![a] = "failed"]
    /\ link' = [link EXCEPT ![a] = "none"]
    /\ toApp' = [toApp EXCEPT ![a] = <<>>] /\ fromApp' = [fromApp EXCEPT ![a] = <<>>]
    /\ serving' = [serving EXCEPT ![a] = NoMsg]
    /\ UNCHANGED <<backends, cache, connecting, lock, appVars, readerVars, tableVars, mainVars,
                   agentVars, historyVars>>


\* connecting_remove at the end of backend_setup; a thread that has
\* registered its backend goes on to emit list_changed.
connecting_remove(a) ==
    /\ setup[a] \in {"joined", "failed"} /\ Unlocked
    /\ connecting' = connecting \ {a}
    /\ emitters' = IF setup[a] = "joined" THEN emitters + 1 ELSE emitters
    /\ setup' = [setup EXCEPT ![a] = "none"]
    /\ UNCHANGED <<backends, cache, lock, missed, linkVars, appVars, readerVars, tableVars,
                   mainVars, agentVars>>

\* Mutant of emit_list_changed_upstream: it waits for the agent to have listed.
EmitOnlyIfListed ==
    /\ emitters > 0 /\ Unlocked
    /\ told' = (told \/ view # NoView)
    /\ emitters' = emitters - 1
    /\ UNCHANGED <<stdin, answers, view, lists, lock, missed, sent, linkVars, appVars, memberVars,
                   readerVars, tableVars, mainVars>>

\* emit_list_changed_upstream, the last thing a setup or reader thread does:
\* an agent that has not initialized is not told.
emit_list_changed_upstream ==
    /\ emitters > 0 /\ Unlocked
    /\ told' = (told \/ agent_initialized)
    /\ emitters' = emitters - 1
    /\ UNCHANGED <<stdin, answers, view, lists, lock, missed, sent, linkVars, appVars, memberVars,
                   readerVars, tableVars, mainVars>>

-----------------------------------------------------------------------------
(***************************************************************************)
(* backend_reader of slot s.                                               *)
(***************************************************************************)
\* The top of the loop fetches the connection under the lock.
ReaderTop(s) ==
    /\ reader[s] = "top" /\ Unlocked
    /\ reader' = [reader EXCEPT ![s] = "read"]
    /\ UNCHANGED <<held, lock, linkVars, appVars, memberVars, tableVars, mainVars, agentVars,
                   historyVars>>

\* Mutant of ReaderRead: list_changed is ignored while a refresh is in flight.
ReaderReadDedupes(s) ==
    LET a == backends[s]
    IN  /\ reader[s] = "read" /\ fromApp[a] # <<>>
        /\ held' = [held EXCEPT ![s] = [msg |-> Head(fromApp[a]), orig |-> 0]]
        /\ fromApp' = [fromApp EXCEPT ![a] = Tail(@)]
        /\ reader' = [reader EXCEPT ![s] =
                         IF Head(fromApp[a]).type # "changed" THEN "lookup"
                         ELSE IF \E fl \in inflight : fl.slot = s /\ fl.kind = "refresh" THEN "top" ELSE "refresh"]
        /\ UNCHANGED <<link, toApp, serving, cache, backends, connecting, setup, lock, appVars, tableVars,
                       mainVars, agentVars, historyVars>>

ReaderRead(s) ==
    LET a == backends[s]
    IN  /\ reader[s] = "read" /\ fromApp[a] # <<>>
        /\ held' = [held EXCEPT ![s] = [msg |-> Head(fromApp[a]), orig |-> 0]]
        /\ fromApp' = [fromApp EXCEPT ![a] = Tail(@)]
        /\ reader' = [reader EXCEPT ![s] = IF Head(fromApp[a]).type = "changed" THEN "refresh" ELSE "lookup"]
        /\ UNCHANGED <<serving, link, toApp, lock, appVars, memberVars, tableVars, mainVars,
                       agentVars, historyVars>>

\* End of file, or a reset that loses what was under way.
ReaderEOF(s) ==
    /\ reader[s] = "read" /\ link[backends[s]] = "closed"
    /\ reader' = [reader EXCEPT ![s] = "teardown"]
    /\ UNCHANGED <<held, lock, linkVars, appVars, memberVars, tableVars, mainVars, agentVars,
                   historyVars>>

\* A reply: take its entry out of the table; an id that is not there, or is
\* another backend's, is dropped.
ReaderLookup(s) ==
    /\ reader[s] = "lookup" /\ Unlocked
    /\ \/ /\ inflight_find(held[s].msg.lid) = {}
          /\ reader' = [reader EXCEPT ![s] = "top"]
          /\ held' = [held EXCEPT ![s] = NoHold]
          /\ UNCHANGED inflight
       \/ \E fl \in inflight_find(held[s].msg.lid) :
             /\ inflight' = inflight \ {fl}
             /\ reader' = [reader EXCEPT ![s] = IF fl.slot # s THEN "top"
                                                ELSE IF fl.kind = "refresh" THEN "apply" ELSE "relay"]
             /\ held' = [held EXCEPT ![s] = IF fl.slot # s THEN NoHold ELSE [@ EXCEPT !.orig = fl.orig]]
    /\ UNCHANGED <<next_local_id, lock, linkVars, appVars, memberVars, mainVars, agentVars,
                   historyVars>>

\* A reply to an agent's call goes to stdout under the agent's id.
ReaderRelay(s) ==
    /\ reader[s] = "relay"
    /\ answers' = Answer(answers, held[s].orig, Reply(held[s].msg.id))
    /\ held' = [held EXCEPT ![s] = NoHold]
    /\ reader' = [reader EXCEPT ![s] = "top"]
    /\ UNCHANGED <<stdin, view, told, lists, lock, sent, linkVars, appVars, memberVars, tableVars,
                   mainVars, historyVars>>

\* apply_tools_result
ReaderApply(s) ==
    /\ reader[s] = "apply" /\ Unlocked
    /\ cache' = [cache EXCEPT ![s] = held[s].msg.ver]
    /\ held' = [held EXCEPT ![s] = NoHold]
    /\ reader' = [reader EXCEPT ![s] = "emit"]
    /\ UNCHANGED <<backends, connecting, setup, lock, linkVars, appVars, tableVars, mainVars,
                   agentVars, historyVars>>

ReaderEmit(s) ==
    /\ reader[s] = "emit" /\ Unlocked
    /\ told' = (told \/ agent_initialized)
    /\ reader' = [reader EXCEPT ![s] = "top"]
    /\ UNCHANGED <<stdin, answers, view, lists, held, lock, sent, linkVars, appVars, memberVars,
                   tableVars, mainVars, historyVars>>

\* refresh_backend_tools: with the table full, nothing is asked.
RefreshLost(s) ==
    /\ reader[s] = "refresh" /\ Unlocked /\ ~HasRoom
    /\ missed' = missed \cup {backends[s]}
    /\ held' = [held EXCEPT ![s] = NoHold]
    /\ reader' = [reader EXCEPT ![s] = "top"]
    /\ UNCHANGED <<lock, emitters, linkVars, appVars, memberVars, tableVars, mainVars, agentVars>>

\* Otherwise the request is entered and written with the lock held.
RefreshAlloc(s) ==
    /\ reader[s] = "refresh" /\ Unlocked /\ HasRoom
    /\ inflight_alloc(s, "refresh", 0)
    /\ lock' = <<"reader", s>>
    /\ held' = [held EXCEPT ![s] = NoHold]
    /\ reader' = [reader EXCEPT ![s] = "write"]
    /\ UNCHANGED <<linkVars, appVars, memberVars, mainVars, agentVars, historyVars>>

RefreshWrite(s) ==
    LET a == backends[s]
    IN  /\ reader[s] = "write" /\ link[a] = "open" /\ Len(toApp[a]) < Cap
        /\ toApp' = [toApp EXCEPT ![a] = Append(@, Msg("list", next_local_id, 0, 0))]
        /\ lock' = <<>>
        /\ reader' = [reader EXCEPT ![s] = "top"]
        /\ UNCHANGED <<serving, link, fromApp, held, appVars, memberVars, tableVars, mainVars,
                       agentVars, historyVars>>

RefreshWriteFails(s) ==
    /\ reader[s] = "write" /\ link[backends[s]] = "closed"
    /\ inflight' = {fl \in inflight : fl.lid # next_local_id}
    /\ lock' = <<>>
    /\ reader' = [reader EXCEPT ![s] = "top"]
    /\ UNCHANGED <<held, next_local_id, linkVars, appVars, memberVars, mainVars, agentVars,
                   historyVars>>

\* The agent calls that wait for slot s.
Outstanding(s) == {fl \in inflight : fl.slot = s /\ fl.kind = "agent"}

\* The part of backend_teardown_locked that clears the slot.
FreeSlot(s) ==
    LET a == backends[s]
    IN  /\ backends' = [backends EXCEPT ![s] = NoApp]
        /\ cache' = [cache EXCEPT ![s] = 0]
        /\ link' = [link EXCEPT ![a] = "none"]
        /\ toApp' = [toApp EXCEPT ![a] = <<>>] /\ fromApp' = [fromApp EXCEPT ![a] = <<>>]
        /\ serving' = [serving EXCEPT ![a] = NoMsg]
        /\ reader' = [reader EXCEPT ![s] = "none"]
        /\ emitters' = emitters + 1
        /\ UNCHANGED <<stdin, view, told, lists, connecting, setup, held, next_local_id, lock, missed,
                       sent, appVars, mainVars>>

\* Mutant of backend_teardown_locked: refresh requests stay in the table.
TeardownKeepsRefresh(s) ==
    /\ reader[s] = "teardown" /\ Unlocked
    /\ answers' = [id \in AgentIds |->
                      IF \E fl \in Outstanding(s) : fl.orig = id THEN Append(answers[id], Error) ELSE answers[id]]
    /\ inflight' = inflight \ Outstanding(s)
    /\ FreeSlot(s)

\* Mutant of backend_teardown_locked: the calls are dropped without an error.
TeardownSilent(s) ==
    /\ reader[s] = "teardown" /\ Unlocked
    /\ answers' = answers
    /\ inflight' = {fl \in inflight : fl.slot # s}
    /\ FreeSlot(s)

\* backend_teardown_locked: the agent calls in flight get an error, the slot
\* is freed and the connection closed.
backend_teardown_locked(s) ==
    /\ reader[s] = "teardown" /\ Unlocked
    /\ answers' = [id \in AgentIds |->
                      IF \E fl \in Outstanding(s) : fl.orig = id THEN Append(answers[id], Error) ELSE answers[id]]
    /\ inflight' = {fl \in inflight : fl.slot # s}
    /\ FreeSlot(s)

-----------------------------------------------------------------------------
(***************************************************************************)
(* The main thread: handle_agent_frame.                                    *)
(***************************************************************************)
Requested(type) == main = "idle" /\ stdin # <<>> /\ Head(stdin).type = type

HandleInitialize ==
    /\ Requested("initialize") /\ Unlocked
    /\ agent_initialized' = TRUE
    /\ stdin' = Tail(stdin)
    /\ UNCHANGED <<answers, view, told, lists, lock, main, built, sent, linkVars, appVars,
                   memberVars, readerVars, tableVars, historyVars>>

\* build_merged_tools, under the lock; the list is written after it.
HandleToolsList ==
    /\ Requested("tools/list") /\ Unlocked
    /\ built' = Surface
    /\ main' = "list"
    /\ UNCHANGED <<lock, agent_initialized, linkVars, appVars, memberVars, readerVars, tableVars,
                   agentVars, historyVars>>

WriteToolsList ==
    /\ main = "list"
    /\ view' = built /\ built' = NoView
    /\ main' = "idle" /\ stdin' = Tail(stdin)
    /\ UNCHANGED <<answers, told, lists, lock, agent_initialized, sent, linkVars, appVars,
                   memberVars, readerVars, tableVars, historyVars>>

Target == {s \in Members : backends[s] = Head(stdin).target}

\* handle_tools_call answers at once: a call of workspace__list_apps, no such
\* prefix, or too many calls in flight.
CallAnsweredHere ==
    /\ Requested("call") /\ Unlocked
    /\ Target = {} \/ ~HasRoom
    /\ answers' = Answer(answers, Head(stdin).id, IF Head(stdin).target = Workspace THEN AppsList ELSE Error)
    /\ stdin' = Tail(stdin)
    /\ UNCHANGED <<view, told, lists, lock, sent, linkVars, appVars, memberVars, readerVars,
                   tableVars, mainVars, historyVars>>

\* Otherwise the call is entered and written with the lock held.
CallAlloc ==
    /\ Requested("call") /\ Unlocked
    /\ Target # {} /\ HasRoom
    /\ inflight_alloc(Min(Target), "agent", Head(stdin).id)
    /\ lock' = <<"main">>
    /\ main' = "write"
    /\ UNCHANGED <<agent_initialized, built, linkVars, appVars, memberVars, readerVars, agentVars,
                   historyVars>>

CallWrite ==
    LET a == Head(stdin).target
    IN  /\ main = "write" /\ link[a] = "open" /\ Len(toApp[a]) < Cap
        /\ toApp' = [toApp EXCEPT ![a] = Append(@, Msg("call", next_local_id, Head(stdin).id, 0))]
        /\ lock' = <<>> /\ main' = "idle" /\ stdin' = Tail(stdin)
        /\ UNCHANGED <<serving, link, fromApp, answers, view, told, lists, agent_initialized,
                       built, sent, appVars, memberVars, readerVars, tableVars, historyVars>>

\* Mutant of CallWriteFails: the entry stays in the table.
CallWriteFailsKeeps ==
    /\ main = "write" /\ link[Head(stdin).target] = "closed"
    /\ answers' = Answer(answers, Head(stdin).id, Error)
    /\ lock' = <<>> /\ main' = "idle" /\ stdin' = Tail(stdin)
    /\ UNCHANGED <<view, told, lists, agent_initialized, built, sent, linkVars, appVars,
                   memberVars, readerVars, tableVars, historyVars>>

CallWriteFails ==
    /\ main = "write" /\ link[Head(stdin).target] = "closed"
    /\ inflight' = {fl \in inflight : fl.lid # next_local_id}
    /\ answers' = Answer(answers, Head(stdin).id, Error)
    /\ lock' = <<>> /\ main' = "idle" /\ stdin' = Tail(stdin)
    /\ UNCHANGED <<view, told, lists, next_local_id, agent_initialized, built, sent, linkVars,
                   appVars, memberVars, readerVars, historyVars>>

-----------------------------------------------------------------------------
(***************************************************************************)
(* The apps, external: a process whose MCP server has one serve thread for *)
(* this connection (module McpServer).                                     *)
(***************************************************************************)
AppStart(a) ==
    /\ app[a] = "absent"
    /\ app' = [app EXCEPT ![a] = "up"]
    /\ UNCHANGED <<version, hangups, lock, linkVars, memberVars, readerVars, tableVars, mainVars,
                   agentVars, historyVars>>

AppHang(a) ==
    /\ a \in MayHang /\ app[a] = "up"
    /\ app' = [app EXCEPT ![a] = "hung"]
    /\ UNCHANGED <<version, hangups, lock, linkVars, memberVars, readerVars, tableVars, mainVars,
                   agentVars, historyVars>>

\* The app's end of the connection is closed.
Closed(a) ==
    /\ link' = [link EXCEPT ![a] = IF @ = "open" THEN "closed" ELSE @]
    /\ toApp' = [toApp EXCEPT ![a] = <<>>]
    /\ serving' = [serving EXCEPT ![a] = NoMsg]
    /\ UNCHANGED <<version, fromApp, lock, memberVars, readerVars, tableVars, mainVars, agentVars,
                   historyVars>>

AppDies(a) ==
    /\ a \in MayDie /\ app[a] \in {"up", "hung"}
    /\ app' = [app EXCEPT ![a] = "dead"]
    /\ hangups' = hangups
    /\ Closed(a)

AppHangsUp(a) ==
    /\ app[a] = "up" /\ link[a] = "open" /\ hangups < MaxHangups
    /\ hangups' = hangups + 1
    /\ app' = app
    /\ Closed(a)

\* A tool list is built when the request is taken, and written later.
AppServes(a) ==
    /\ app[a] = "up" /\ serving[a] = NoMsg /\ toApp[a] # <<>>
    /\ serving' = [serving EXCEPT ![a] = [Head(toApp[a]) EXCEPT !.ver = version[a]]]
    /\ toApp' = [toApp EXCEPT ![a] = Tail(@)]
    /\ UNCHANGED <<link, fromApp, lock, appVars, memberVars, readerVars, tableVars, mainVars,
                   agentVars, historyVars>>

AppReplies(a) ==
    /\ app[a] = "up" /\ serving[a] # NoMsg /\ Len(fromApp[a]) < Cap
    /\ fromApp' = [fromApp EXCEPT ![a] = Append(@, [serving[a] EXCEPT !.type = "reply"])]
    /\ serving' = [serving EXCEPT ![a] = NoMsg]
    /\ UNCHANGED <<link, toApp, lock, appVars, memberVars, readerVars, tableVars, mainVars,
                   agentVars, historyVars>>

\* The tool list changes; list_changed is lost when the connection is full.
AppChanges(a) ==
    /\ app[a] = "up" /\ version[a] < MaxChanges
    /\ version' = [version EXCEPT ![a] = @ + 1]
    /\ fromApp' = IF link[a] = "open" /\ Len(fromApp[a]) < Cap
                  THEN [fromApp EXCEPT ![a] = Append(@, Msg("changed", 0, 0, 0))] ELSE fromApp
    /\ missed' = IF link[a] = "open" /\ Len(fromApp[a]) = Cap THEN missed \cup {a} ELSE missed
    /\ UNCHANGED <<app, hangups, link, toApp, serving, emitters, lock, memberVars, readerVars,
                   tableVars, mainVars, agentVars>>

-----------------------------------------------------------------------------
(***************************************************************************)
(* The agent, external: it lists and calls once it is initialized, and     *)
(* counts as told by a list_changed that comes after its last request.     *)
(***************************************************************************)
AgentCalls(id, target) ==
    /\ agent_initialized /\ id \notin sent
    /\ sent' = sent \cup {id}
    /\ stdin' = Append(stdin, [type |-> "call", id |-> id, target |-> target])
    /\ UNCHANGED <<answers, view, told, lists, lock, linkVars, appVars, memberVars, readerVars,
                   tableVars, mainVars, historyVars>>

AgentLists ==
    /\ agent_initialized /\ lists < MaxLists
    /\ lists' = lists + 1
    /\ told' = FALSE
    /\ stdin' = Append(stdin, [type |-> "tools/list"])
    /\ UNCHANGED <<answers, view, sent, lock, linkVars, appVars, memberVars, readerVars, tableVars,
                   mainVars, historyVars>>

-----------------------------------------------------------------------------
Main ==
    \/ HandleInitialize \/ HandleToolsList \/ WriteToolsList
    \/ CallAnsweredHere \/ CallAlloc \/ CallWrite \/ CallWriteFails

Reader(s) ==
    \/ ReaderTop(s) \/ ReaderRead(s) \/ ReaderEOF(s)
    \/ ReaderLookup(s) \/ ReaderRelay(s) \/ ReaderApply(s) \/ ReaderEmit(s)
    \/ RefreshLost(s) \/ RefreshAlloc(s) \/ RefreshWrite(s) \/ RefreshWriteFails(s)
    \/ backend_teardown_locked(s)

backend_setup(a) ==
    \/ SetupConnect(a) \/ SetupSkip(a) \/ SetupFails(a)
    \/ SetupRegister(a) \/ SetupNoSlot(a) \/ connecting_remove(a)

AppWorks(a) == AppServes(a) \/ AppReplies(a)

Next ==
    \/ Main \/ poll_thread \/ emit_list_changed_upstream \/ AgentLists
    \/ \E s \in Slots : Reader(s)
    \/ \E a \in Apps :
          \/ backend_setup(a)
          \/ AppWorks(a) \/ AppStart(a) \/ AppHang(a) \/ AppDies(a) \/ AppHangsUp(a) \/ AppChanges(a)
    \/ \E id \in AgentIds, target \in Apps \cup {Workspace} : AgentCalls(id, target)

\* The threads run, each gets g.lock when it is free again and again, and an
\* app that has not hung serves its connection.
Fairness ==
    /\ SF_vars(Main) /\ SF_vars(poll_thread) /\ WF_vars(emit_list_changed_upstream)
    /\ \A s \in Slots : SF_vars(Reader(s))
    /\ \A a \in Apps : SF_vars(backend_setup(a)) /\ WF_vars(AppWorks(a))

Spec == Init /\ [][Next]_vars /\ Fairness

-----------------------------------------------------------------------------
Frames == [type : {"none", "call", "list", "reply", "changed"}, lid : Nat, id : AgentIds \cup {0}, ver : 0..MaxChanges]

\* Every variable keeps its type; the in-flight table never outgrows its array.
TypeOK ==
    /\ app \in [Apps -> {"absent", "up", "hung", "dead"}]
    /\ version \in [Apps -> 0..MaxChanges]
    /\ serving \in [Apps -> Frames]
    /\ link \in [Apps -> {"none", "open", "closed"}]
    /\ toApp \in [Apps -> Seq(Frames)] /\ \A a \in Apps : Len(toApp[a]) <= Cap
    /\ fromApp \in [Apps -> Seq(Frames)] /\ \A a \in Apps : Len(fromApp[a]) <= Cap
    /\ hangups \in 0..MaxHangups
    /\ backends \in [Slots -> Apps \cup {NoApp}] /\ cache \in [Slots -> 0..MaxChanges]
    /\ connecting \subseteq Apps
    /\ setup \in [Apps -> {"none", "connect", "list", "joined", "failed"}]
    /\ reader \in [Slots -> {"none", "top", "read", "lookup", "relay", "apply", "emit", "refresh",
                             "write", "teardown"}]
    /\ held \in [Slots -> [msg : Frames, orig : AgentIds \cup {0}]]
    /\ inflight \subseteq [lid : Nat, slot : Slots, kind : {"agent", "refresh"},
                           orig : AgentIds \cup {0}, of : Apps]
    /\ Cardinality(inflight) <= MAX_INFLIGHT
    /\ next_local_id \in Nat
    /\ lock \in {<<>>, <<"main">>} \cup ({"reader"} \X Slots)
    /\ main \in {"idle", "list", "write"}
    /\ agent_initialized \in BOOLEAN /\ told \in BOOLEAN
    /\ emitters \in Nat /\ lists \in 0..MaxLists
    /\ sent \subseteq AgentIds /\ missed \subseteq Apps

\* Every call of the agent gets at most one answer, whatever write errors,
\* replies and backend exits come together.
AnsweredOnce == \A id \in AgentIds : Len(answers[id]) <= 1

\* A reply that reaches the agent under an id is the reply to that very call:
\* the rewriting of ids never crosses two of them.
RightAnswer ==
    \A id \in AgentIds : \A i \in 1..Len(answers[id]) :
        answers[id][i] \in {Error, AppsList, Reply(id)}

\* The lids of what is under way on the connection of app a.
Carried(a) ==
    {serving[a].lid} \cup {toApp[a][i].lid : i \in 1..Len(toApp[a])}
                     \cup {fromApp[a][i].lid : i \in 1..Len(fromApp[a])}

\* No entry of the in-flight table is leaked: its backend still has its slot,
\* and the request or its reply is under way, is being written, or the reader
\* is about to find the connection closed.
InflightExplained ==
    \A fl \in inflight :
        /\ backends[fl.slot] = fl.of
        /\ \/ fl.lid \in Carried(fl.of)
           \/ lock # <<>> /\ fl.lid = next_local_id
           \/ reader[fl.slot] = "lookup" /\ held[fl.slot].msg.lid = fl.lid
           \/ link[fl.of] = "closed"

\* An app has one slot at most: discovery never connects twice to the same
\* app, however the poll interleaves with handshakes and exits.
NoDuplicateBackend ==
    \A s, t \in Members : s # t => backends[s] # backends[t]

\* The list the agent has, or is about to be sent, differs from the tools the
\* aggregator would list now only while a list_changed is due or has come.
AgentTold ==
    LET known == IF main = "list" THEN built ELSE view
    IN  known \notin {NoView, Surface} =>
            \/ told \/ emitters > 0
            \/ \E i \in 1..Len(stdin) : stdin[i].type = "tools/list" /\ (i > 1 \/ main # "list")
            \/ \E s \in Slots : reader[s] = "emit"
            \/ \E a \in Apps : setup[a] = "joined"

\* A refresh of slot s is due or under way.
Refreshing(s) ==
    LET a == backends[s]
    IN  \/ reader[s] \in {"refresh", "write", "apply"}
        \/ \E fl \in inflight : fl.slot = s /\ fl.kind = "refresh"
        \/ \E i \in 1..Len(fromApp[a]) : fromApp[a][i].type = "changed"

\* The cached tools of a backend are out of date only while a refresh is due
\* or under way, or its list_changed was lost.
CacheExplained ==
    \A s \in Members :
        link[backends[s]] = "open" /\ cache[s] # version[backends[s]] =>
            Refreshing(s) \/ backends[s] \in missed

\* Where the answer to call id is: the call is queued, entered in the table,
\* its reply is in the hands of a reader, or it has been answered.
Call(i, id) == stdin[i].type = "call" /\ stdin[i].id = id
Queued(id) == \E i \in 1..Len(stdin) : Call(i, id) /\ ~(i = 1 /\ main = "write")
Entered(id) == \E fl \in inflight : fl.kind = "agent" /\ fl.orig = id
Relays(s, id) == reader[s] = "relay" /\ held[s].orig = id
Relayed(id) == \E s \in Slots : Relays(s, id)

StageOf(id) ==
    IF answers[id] # <<>> THEN "answered"
    ELSE IF Queued(id) THEN "queued"
    ELSE IF Entered(id) \/ Relayed(id) THEN "forwarded"
    ELSE IF id \in sent THEN "forgotten" ELSE "free"

Stage == [id \in AgentIds |-> StageOf(id)]

Proxy == INSTANCE RpcProxy WITH Ids <- AgentIds, stage <- Stage

\* The aggregator is a proxy for calls: however its threads interleave and
\* backends come and go, a call passes through the stages of RpcProxy, is
\* answered once, by the right party, and is not forgotten before
\* (handle_tools_call, backend_reader, backend_teardown_locked).
ImplementsProxy == Proxy!Spec

Hung(a) == app[a] = "hung"

\* Every call of the agent is answered, whether its backend replies, exits or
\* drops the connection, as long as no app hangs: a call has no timeout
\* (handle_tools_call, backend_teardown_locked).
CallAnswered ==
    \A id \in AgentIds : id \in sent ~> answers[id] # <<>> \/ \E a \in Apps : Hung(a)

\* The two ways in which hung apps do stall discovery.  Main holds g.lock, which
\* the poll thread needs, in a write that a hung member never takes
\* (handle_tools_call), or hung candidates fill connecting, as their handshake
\* has no timeout (poll_thread).
StuckOnHung ==
    main = "write" /\ \E fl \in inflight : Hung(fl.of) /\ Len(toApp[fl.of]) = Cap
NoRoomFor(a) ==
    a # Shell /\ Cardinality({b \in connecting \ {Shell} : Hung(b)}) = MAX_BACKENDS


\* The header of workspace_aggregator.c makes no exception: "so a hung backend
\* can never stall discovery".  The code does not keep this: MCAggStall.cfg.
HungNeverStalls ==
    \A a \in Apps \ MayHang :
        app[a] = "up" ~> \/ app[a] # "up" \/ Members = Slots
                         \/ \E s \in Slots : backends[s] = a

\* docs/mcp-spec.md 10.5: "the aggregator mirrors, it never snapshots".
MirrorsBackend ==
    \A s \in Members :
        link[backends[s]] = "open" /\ cache[s] # version[backends[s]] => Refreshing(s)

=============================================================================
