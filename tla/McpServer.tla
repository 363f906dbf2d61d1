----------------------------- MODULE McpServer -----------------------------
(***************************************************************************)
(* The multi-client server of src/mcp_server.c.                            *)
(*                                                                         *)
(* Threads: one lifecycle thread (start and stop), Embedders that change   *)
(* the tool registry or the app id and then broadcast list_changed, the    *)
(* accept thread, and one serve thread per connection.  The peers at the   *)
(* other end and the transport (src/mcp_transport.c) are environment: a    *)
(* healthy peer drains what is written to it, a hung one may stop reading, *)
(* a gone one has disconnected.                                            *)
(*                                                                         *)
(* A critical section that cannot block is one action, guarded by its      *)
(* mutex being free.  conns_mutex is held over several actions only by a   *)
(* broadcaster, write_mutex by whoever is writing a frame; tools_mutex     *)
(* never, and it has no variable.  A frame is written in two steps, header *)
(* and body, as the code does.                                             *)
(***************************************************************************)
EXTENDS Integers, Sequences, FiniteSets

CONSTANTS
    Conns,          \* connections, each used for one connect
    NoConn,         \* NULL
    Embedders,      \* threads that call register / unregister / set_app_id
    NoOwner,        \* a mutex nobody holds
    Tools,          \* names embedders register
    AppIds,         \* ids embedders declare
    ValidIds,       \* those that app_id_valid accepts
    NoId,           \* app_id not set
    Methods,        \* what peers send
    MAX_CONNS,
    MAX_TOOLS,
    MaxStarts,      \* bound: calls of mcp_server_start
    MaxChanges,     \* bound: registry changes
    MaxRequests,    \* bound: requests per connection
    AcceptMayFail   \* whether accept() may fail with the listener open

Builtins == <<"echo", "tail_log">>
NoRequest == "none"
AllMethods == {"initialize", "tools/list", "tools/call", "ping", "notification", "malformed"}

ASSUME ServerAssumption ==
    /\ NoConn \notin Conns
    /\ NoOwner \notin Embedders
    /\ ValidIds \subseteq AppIds
    /\ Methods \subseteq AllMethods
    /\ MAX_CONNS \in Nat \ {0}
    /\ MAX_TOOLS \in Nat
    /\ MaxStarts \in Nat /\ MaxChanges \in Nat /\ MaxRequests \in Nat
    /\ AcceptMayFail \in BOOLEAN

VARIABLES
    lpc, thread_started, listener, starts,            \* lifecycle thread
    apc, acc,                                         \* accept thread
    clients, active_clients, conns_mutex, write_mutex,
    tools, app_id, ver,                               \* registry; ver: changes so far
    epc, at,                                          \* embedders; slot they write to
    spc, slot,                                        \* serve threads; their slot
    cst, peer, inbox, sent, ready,                    \* connections and peers
    snap, told, lost, torn                            \* history

lifeVars == <<lpc, thread_started, listener, starts>>
acceptVars == <<apc, acc>>
slotVars == <<clients, active_clients>>
toolVars == <<tools, app_id, ver>>
embVars == <<epc, at>>
serveVars == <<spc, slot>>
peerVars == <<peer, inbox, sent, ready>>
histVars == <<snap, told, lost, torn>>
vars == <<lifeVars, acceptVars, slotVars, conns_mutex, write_mutex, toolVars, embVars,
          serveVars, cst, peerVars, histVars>>

Slots == 1..MAX_CONNS
FreeSlot == [conn |-> NoConn, initialized |-> FALSE]
Occupied == {i \in Slots : clients[i].conn # NoConn}
FirstFree == CHOOSE i \in Slots \ Occupied : \A j \in Slots \ Occupied : i <= j

Init ==
    /\ lpc = "stopped" /\ thread_started = FALSE /\ listener = FALSE /\ starts = 0
    /\ apc = "none" /\ acc = NoConn
    /\ clients = [i \in Slots |-> FreeSlot]
    /\ active_clients = 0
    /\ conns_mutex = NoOwner
    /\ write_mutex = [i \in Slots |-> "free"]
    /\ tools = <<>> /\ app_id = NoId /\ ver = 0
    /\ epc = [e \in Embedders |-> "idle"] /\ at = [e \in Embedders |-> 0]
    /\ spc = [c \in Conns |-> "none"] /\ slot = [c \in Conns |-> 0]
    /\ cst = [c \in Conns |-> "none"]
    /\ peer = [c \in Conns |-> "healthy"]
    /\ inbox = [c \in Conns |-> NoRequest]
    /\ sent = [c \in Conns |-> 0]
    /\ ready = [c \in Conns |-> FALSE]
    /\ snap = [c \in Conns |-> -1]
    /\ told = [c \in Conns |-> FALSE]
    /\ lost = [c \in Conns |-> {}]
    /\ torn = [c \in Conns |-> FALSE]

-----------------------------------------------------------------------------
(***************************************************************************)
(* mcp_server_start and mcp_server_stop                                    *)
(***************************************************************************)
\* mcp_server_register_tool on the registry: a full one drops the tool.
WithTool(ts, t) == IF Len(ts) < MAX_TOOLS THEN Append(ts, t) ELSE ts

\* register_builtins runs before every listener is opened.
WithBuiltins == WithTool(WithTool(tools, Builtins[1]), Builtins[2])

\* The listener is bound and the accept thread created.
StartListening ==
    /\ lpc = "stopped" /\ starts < MaxStarts
    /\ starts' = starts + 1
    /\ tools' = WithBuiltins
    /\ listener' = TRUE
    /\ apc' = "accept"
    /\ lpc' = "starting"
    /\ UNCHANGED <<thread_started, acc, slotVars, conns_mutex, write_mutex,
                   app_id, ver, embVars, serveVars, cst, peerVars, histVars>>

\* No listener, or no thread: "MCP disabled", with the built-ins registered.
StartFails ==
    /\ lpc = "stopped" /\ starts < MaxStarts
    /\ starts' = starts + 1
    /\ tools' = WithBuiltins
    /\ UNCHANGED <<lpc, thread_started, listener, acceptVars, slotVars, conns_mutex,
                   write_mutex, app_id, ver, embVars, serveVars, cst, peerVars, histVars>>

StartDone ==
    /\ lpc = "starting"
    /\ thread_started' = TRUE
    /\ lpc' = "running"
    /\ UNCHANGED <<listener, starts, acceptVars, slotVars, conns_mutex, write_mutex,
                   toolVars, embVars, serveVars, cst, peerVars, histVars>>

\* mcp_listener_close: connections still in the backlog are reset.
StopListening ==
    /\ lpc = "running"
    /\ listener' = FALSE
    /\ cst' = [c \in Conns |-> IF cst[c] = "backlog" THEN "closed" ELSE cst[c]]
    /\ lpc' = "joining"
    /\ UNCHANGED <<thread_started, starts, acceptVars, slotVars, conns_mutex, write_mutex,
                   toolVars, embVars, serveVars, peerVars, histVars>>

\* Mutant of StopJoin: the accept thread is not waited for.
StopJoinSkipped ==
    /\ lpc = "joining"
    /\ lpc' = "aborting"
    /\ UNCHANGED <<thread_started, listener, starts, acceptVars, slotVars, conns_mutex,
                   write_mutex, toolVars, embVars, serveVars, cst, peerVars, histVars>>

StopJoin ==
    /\ lpc = "joining" /\ apc = "exited"
    /\ apc' = "none"
    /\ lpc' = "aborting"
    /\ UNCHANGED <<thread_started, listener, starts, acc, slotVars, conns_mutex,
                   write_mutex, toolVars, embVars, serveVars, cst, peerVars, histVars>>

\* Abort every connection, then wait until conns_drained is signalled; the
\* wait releases conns_mutex.
StopAbort ==
    /\ lpc = "aborting" /\ conns_mutex = NoOwner
    /\ cst' = [c \in Conns |-> IF \E i \in Slots : clients[i].conn = c
                               THEN "aborted" ELSE cst[c]]
    /\ lpc' = IF active_clients = 0 THEN "stopped" ELSE "draining"
    /\ thread_started' = (active_clients # 0)
    /\ UNCHANGED <<listener, starts, acceptVars, slotVars, conns_mutex, write_mutex,
                   toolVars, embVars, serveVars, peerVars, histVars>>

\* pthread_cond_wait may return without a signal.
StopSpurious ==
    /\ lpc = "draining"
    /\ lpc' = "drained"
    /\ UNCHANGED <<thread_started, listener, starts, acceptVars, slotVars, conns_mutex,
                   write_mutex, toolVars, embVars, serveVars, cst, peerVars, histVars>>

\* The wait has returned with conns_mutex held: test active_clients again.
StopDrained ==
    /\ lpc = "drained" /\ conns_mutex = NoOwner
    /\ lpc' = IF active_clients = 0 THEN "stopped" ELSE "draining"
    /\ thread_started' = (active_clients # 0)
    /\ UNCHANGED <<listener, starts, acceptVars, slotVars, conns_mutex, write_mutex,
                   toolVars, embVars, serveVars, cst, peerVars, histVars>>

-----------------------------------------------------------------------------
(***************************************************************************)
(* server_thread: accept, then give the connection a slot and a thread     *)
(***************************************************************************)
Accept(c) ==
    /\ apc = "accept" /\ listener /\ cst[c] = "backlog"
    /\ apc' = "place" /\ acc' = c
    /\ cst' = [cst EXCEPT ![c] = "open"]
    /\ UNCHANGED <<lifeVars, slotVars, conns_mutex, write_mutex, toolVars,
                   embVars, serveVars, peerVars, histVars>>

AcceptClosed ==
    /\ apc = "accept" /\ ~listener
    /\ apc' = "exited"
    /\ UNCHANGED <<lifeVars, acc, slotVars, conns_mutex, write_mutex, toolVars,
                   embVars, serveVars, cst, peerVars, histVars>>

\* accept() fails for another reason (EMFILE, ECONNABORTED, EINTR): the
\* thread ends just the same.
AcceptError ==
    /\ apc = "accept" /\ listener /\ AcceptMayFail
    /\ apc' = "exited"
    /\ UNCHANGED <<lifeVars, acc, slotVars, conns_mutex, write_mutex, toolVars,
                   embVars, serveVars, cst, peerVars, histVars>>

PlaceClient ==
    /\ apc = "place" /\ conns_mutex = NoOwner
    /\ Occupied # Slots
    /\ clients' = [clients EXCEPT ![FirstFree] = [conn |-> acc, initialized |-> FALSE]]
    /\ active_clients' = active_clients + 1
    /\ spc' = [spc EXCEPT ![acc] = "read"]
    /\ slot' = [slot EXCEPT ![acc] = FirstFree]
    /\ apc' = "accept" /\ acc' = NoConn
    /\ UNCHANGED <<lifeVars, conns_mutex, write_mutex, toolVars,
                   embVars, cst, peerVars, histVars>>

\* Every slot is taken, or pthread_create failed: the connection is closed.
RejectClient ==
    /\ apc = "place" /\ conns_mutex = NoOwner
    /\ cst' = [cst EXCEPT ![acc] = "closed"]
    /\ apc' = "accept" /\ acc' = NoConn
    /\ UNCHANGED <<lifeVars, slotVars, conns_mutex, write_mutex, toolVars,
                   embVars, serveVars, peerVars, histVars>>

-----------------------------------------------------------------------------
(***************************************************************************)
(* serve and client_thread.  inbox[c] holds the request until its reply    *)
(* has been written: a peer has one request outstanding at a time.         *)
(***************************************************************************)
\* Aborted, or the peer has disconnected: reads and writes fail.
Dead(c) == cst[c] = "aborted" \/ peer[c] = "gone"

serveFrame == <<lifeVars, acceptVars, active_clients, conns_mutex, toolVars, embVars,
                slot, cst, peer, sent, lost>>

\* read_frame: EOF, an abort, or a frame without a usable length from a peer
\* that is alive ends the loop.
ReadFails(c) ==
    /\ spc[c] = "read" /\ (Dead(c) \/ inbox[c] = "malformed")
    /\ spc' = [spc EXCEPT ![c] = "unwind"]
    /\ UNCHANGED <<serveFrame, clients, write_mutex, inbox, ready, snap, told, torn>>

\* Mutant of HandleInitialize: the client is never made eligible.
HandleInitializeForgets(c) ==
    /\ spc[c] = "read" /\ inbox[c] = "initialize"
    /\ spc' = [spc EXCEPT ![c] = "reply"]
    /\ UNCHANGED <<serveFrame, clients, write_mutex, inbox, ready, snap, told, torn>>

\* handle_request "initialize": eligible for notifications from here on,
\* before the response is written.
HandleInitialize(c) ==
    /\ spc[c] = "read" /\ inbox[c] = "initialize"
    /\ clients' = [clients EXCEPT ![slot[c]].initialized = TRUE]
    /\ spc' = [spc EXCEPT ![c] = "reply"]
    /\ UNCHANGED <<serveFrame, write_mutex, inbox, ready, snap, told, torn>>

\* handle_request "tools/list": the list is a snapshot of the registry.
HandleToolsList(c) ==
    /\ spc[c] = "read" /\ inbox[c] = "tools/list"
    /\ snap' = [snap EXCEPT ![c] = ver]
    /\ spc' = [spc EXCEPT ![c] = "reply"]
    /\ UNCHANGED <<serveFrame, clients, write_mutex, inbox, ready, told, torn>>

\* handle_request "tools/call": find_tool, then the tool's function runs with
\* no lock held; an unknown tool is answered with an error.
HandleToolsCall(c, t) ==
    /\ spc[c] = "read" /\ inbox[c] = "tools/call"
    /\ spc' = [spc EXCEPT ![c] = IF \E i \in 1..Len(tools) : tools[i] = t THEN "call" ELSE "reply"]
    /\ UNCHANGED <<serveFrame, clients, write_mutex, inbox, ready, snap, told, torn>>

ToolReturns(c) ==
    /\ spc[c] = "call"
    /\ spc' = [spc EXCEPT ![c] = "reply"]
    /\ UNCHANGED <<serveFrame, clients, write_mutex, inbox, ready, snap, told, torn>>

\* "ping", an unknown method, a request that does not parse.
HandleOther(c) ==
    /\ spc[c] = "read" /\ inbox[c] = "ping"
    /\ spc' = [spc EXCEPT ![c] = "reply"]
    /\ UNCHANGED <<serveFrame, clients, write_mutex, inbox, ready, snap, told, torn>>

\* A notification has no reply.
HandleNotification(c) ==
    /\ spc[c] = "read" /\ inbox[c] = "notification"
    /\ inbox' = [inbox EXCEPT ![c] = NoRequest]
    /\ UNCHANGED <<serveFrame, spc, clients, write_mutex, ready, snap, told, torn>>

\* pthread_mutex_lock on the slot's write_mutex.
LockWrite(c) ==
    /\ spc[c] = "reply" /\ write_mutex[slot[c]] = "free"
    /\ write_mutex' = [write_mutex EXCEPT ![slot[c]] = "serve"]
    /\ spc' = [spc EXCEPT ![c] = "header"]
    /\ UNCHANGED <<serveFrame, clients, inbox, ready, snap, told, torn>>

\* write_frame: to a hung peer the write may go through or block.
WriteHeader(c) ==
    /\ spc[c] = "header" /\ ~Dead(c)
    /\ spc' = [spc EXCEPT ![c] = "body"]
    /\ UNCHANGED <<serveFrame, clients, write_mutex, inbox, ready, snap, told, torn>>

\* Mutant of WriteBody: write_mutex stays locked.
WriteBodyKeepsLock(c) ==
    /\ spc[c] = "body" /\ ~Dead(c)
    /\ ready' = [ready EXCEPT ![c] = @ \/ inbox[c] = "initialize"]
    /\ inbox' = [inbox EXCEPT ![c] = NoRequest]
    /\ spc' = [spc EXCEPT ![c] = "read"]
    /\ UNCHANGED <<serveFrame, clients, write_mutex, snap, told, torn>>

WriteBody(c) ==
    /\ spc[c] = "body" /\ ~Dead(c)
    /\ write_mutex' = [write_mutex EXCEPT ![slot[c]] = "free"]
    /\ ready' = [ready EXCEPT ![c] = @ \/ inbox[c] = "initialize"]
    /\ inbox' = [inbox EXCEPT ![c] = NoRequest]
    /\ spc' = [spc EXCEPT ![c] = "read"]
    /\ UNCHANGED <<serveFrame, clients, snap, told, torn>>

WriteFails(c) ==
    /\ spc[c] \in {"header", "body"} /\ Dead(c)
    /\ torn' = [torn EXCEPT ![c] = TRUE]
    /\ write_mutex' = [write_mutex EXCEPT ![slot[c]] = "free"]
    /\ spc' = [spc EXCEPT ![c] = "unwind"]
    /\ UNCHANGED <<serveFrame, clients, inbox, ready, snap, told>>

\* Mutant of DrainSignal: conns_drained is never signalled.
DrainSignalLost(n) == lpc

\* What the last serve thread to leave signals.
DrainSignal(n) == IF n = 0 /\ lpc = "draining" THEN "drained" ELSE lpc

unwindFrame == <<thread_started, listener, starts, acceptVars, conns_mutex, write_mutex,
                 toolVars, embVars, slot, cst, peerVars, histVars>>

\* Mutants of Unwind: conns_mutex is not taken; the client is not uncounted.
UnwindUnlocked(c) ==
    /\ spc[c] = "unwind"
    /\ clients' = [clients EXCEPT ![slot[c]] = FreeSlot]
    /\ active_clients' = active_clients - 1
    /\ lpc' = DrainSignal(active_clients')
    /\ spc' = [spc EXCEPT ![c] = "closing"]
    /\ UNCHANGED unwindFrame

UnwindKeepsCount(c) ==
    /\ spc[c] = "unwind" /\ conns_mutex = NoOwner
    /\ clients' = [clients EXCEPT ![slot[c]] = FreeSlot]
    /\ lpc' = DrainSignal(active_clients)
    /\ spc' = [spc EXCEPT ![c] = "closing"]
    /\ UNCHANGED <<unwindFrame, active_clients>>

\* client_thread clears its slot and leaves.
Unwind(c) ==
    /\ spc[c] = "unwind" /\ conns_mutex = NoOwner
    /\ clients' = [clients EXCEPT ![slot[c]] = FreeSlot]
    /\ active_clients' = active_clients - 1
    /\ lpc' = DrainSignal(active_clients')
    /\ spc' = [spc EXCEPT ![c] = "closing"]
    /\ UNCHANGED unwindFrame

\* mcp_conn_close
CloseConn(c) ==
    /\ spc[c] = "closing"
    /\ cst' = [cst EXCEPT ![c] = "closed"]
    /\ spc' = [spc EXCEPT ![c] = "done"]
    /\ UNCHANGED <<lifeVars, acceptVars, slotVars, conns_mutex, write_mutex, toolVars,
                   embVars, slot, peerVars, histVars>>

-----------------------------------------------------------------------------
(***************************************************************************)
(* Registry changes and broadcast_notification                             *)
(***************************************************************************)
embFrame == <<lifeVars, acceptVars, slotVars, serveVars, peerVars, snap>>

\* A change was made: it has to be announced.
Changed(e) ==
    /\ epc[e] = "idle" /\ ver < MaxChanges
    /\ ver' = ver + 1
    /\ epc' = [epc EXCEPT ![e] = "check"]
    /\ UNCHANGED <<embFrame, at, conns_mutex, write_mutex, cst, told, lost, torn>>

\* mcp_server_register_tool; a full registry drops the tool.
Register_tool(e, t) ==
    /\ Len(tools) < MAX_TOOLS
    /\ tools' = Append(tools, t)
    /\ Changed(e)
    /\ UNCHANGED app_id

\* mcp_server_unregister_tool: the first tool of that name goes.
Unregister_tool(e, t) ==
    /\ \E i \in 1..Len(tools) :
          /\ tools[i] = t
          /\ \A j \in 1..i - 1 : tools[j] # t
          /\ tools' = SubSeq(tools, 1, i - 1) \o SubSeq(tools, i + 1, Len(tools))
    /\ Changed(e)
    /\ UNCHANGED app_id

\* mcp_server_set_app_id: an invalid or unchanged id is ignored.
Set_app_id(e, id) ==
    /\ id \in ValidIds /\ id # app_id
    /\ app_id' = id
    /\ Changed(e)
    /\ UNCHANGED tools

Eligible(i) == clients[i].conn # NoConn /\ clients[i].initialized

\* notify_tools_changed: nothing is sent unless thread_started.
CheckStarted(e) ==
    /\ epc[e] = "check"
    /\ epc' = [epc EXCEPT ![e] = IF thread_started THEN "lock" ELSE "idle"]
    /\ lost' = [c \in Conns |->
                  IF ~thread_started /\ \E i \in Slots : Eligible(i) /\ clients[i].conn = c
                  THEN lost[c] \cup {"unstarted"} ELSE lost[c]]
    /\ UNCHANGED <<embFrame, at, conns_mutex, write_mutex, toolVars, cst, told, torn>>

LockConns(e) ==
    /\ epc[e] = "lock" /\ conns_mutex = NoOwner
    /\ conns_mutex' = e
    /\ at' = [at EXCEPT ![e] = 1]
    /\ epc' = [epc EXCEPT ![e] = "scan"]
    /\ UNCHANGED <<embFrame, write_mutex, toolVars, cst, told, lost, torn>>

\* An empty or uninitialised slot is passed over.
SkipSlot(e) ==
    /\ epc[e] = "scan" /\ at[e] \in Slots /\ ~Eligible(at[e])
    /\ at' = [at EXCEPT ![e] = @ + 1]
    /\ UNCHANGED <<embFrame, epc, conns_mutex, write_mutex, toolVars, cst, told, lost, torn>>

\* Mutant of TryLockFails: a blocking lock.
TryLockBlocks(e) ==
    /\ epc[e] = "scan" /\ at[e] \in Slots /\ Eligible(at[e])
    /\ write_mutex[at[e]] # "free"
    /\ UNCHANGED vars

\* pthread_mutex_trylock: the serve thread is writing, so the notification
\* for this client is dropped.
TryLockFails(e) ==
    /\ epc[e] = "scan" /\ at[e] \in Slots /\ Eligible(at[e])
    /\ write_mutex[at[e]] # "free"
    /\ lost' = [lost EXCEPT ![clients[at[e]].conn] = @ \cup {"contended"}]
    /\ at' = [at EXCEPT ![e] = @ + 1]
    /\ UNCHANGED <<embFrame, epc, conns_mutex, write_mutex, toolVars, cst, told, torn>>

TryLock(e) ==
    /\ epc[e] = "scan" /\ at[e] \in Slots /\ Eligible(at[e])
    /\ write_mutex[at[e]] = "free"
    /\ write_mutex' = [write_mutex EXCEPT ![at[e]] = "notify"]
    /\ epc' = [epc EXCEPT ![e] = "header"]
    /\ UNCHANGED <<embFrame, at, conns_mutex, toolVars, cst, told, lost, torn>>

\* Done with this client: on to the next slot.
NextSlot(e) ==
    /\ write_mutex' = [write_mutex EXCEPT ![at[e]] = "free"]
    /\ at' = [at EXCEPT ![e] = @ + 1]
    /\ epc' = [epc EXCEPT ![e] = "scan"]

NotifyHeader(e) ==
    /\ epc[e] = "header" /\ ~Dead(clients[at[e]].conn)
    /\ epc' = [epc EXCEPT ![e] = "body"]
    /\ UNCHANGED <<embFrame, at, conns_mutex, write_mutex, toolVars, cst, told, lost, torn>>

NotifyBody(e) ==
    /\ epc[e] = "body" /\ ~Dead(clients[at[e]].conn)
    /\ told' = [told EXCEPT ![clients[at[e]].conn] = TRUE]
    /\ NextSlot(e)
    /\ UNCHANGED <<embFrame, conns_mutex, toolVars, cst, lost, torn>>

\* Mutant of NotifyFails: the timed-out connection is left open.
NotifyFailsKeepsConn(e) ==
    LET c == clients[at[e]].conn
    IN  /\ epc[e] \in {"header", "body"} /\ (Dead(c) \/ peer[c] = "hung")
        /\ torn' = [torn EXCEPT ![c] = TRUE]
        /\ NextSlot(e)
        /\ UNCHANGED <<embFrame, conns_mutex, toolVars, cst, told, lost>>

\* mcp_conn_write_bounded gives up, on an error or after its timeout, and
\* aborts the connection.
NotifyFails(e) ==
    LET c == clients[at[e]].conn
    IN  /\ epc[e] \in {"header", "body"} /\ (Dead(c) \/ peer[c] = "hung")
        /\ cst' = [cst EXCEPT ![c] = "aborted"]
        /\ torn' = [torn EXCEPT ![c] = TRUE]
        /\ NextSlot(e)
        /\ UNCHANGED <<embFrame, conns_mutex, toolVars, told, lost>>

UnlockConns(e) ==
    /\ epc[e] = "scan" /\ at[e] \notin Slots
    /\ conns_mutex' = NoOwner
    /\ epc' = [epc EXCEPT ![e] = "idle"]
    /\ at' = [at EXCEPT ![e] = 0]
    /\ UNCHANGED <<embFrame, write_mutex, toolVars, cst, told, lost, torn>>

-----------------------------------------------------------------------------
(***************************************************************************)
(* The peers                                                               *)
(***************************************************************************)
peerFrame == <<lifeVars, acceptVars, slotVars, conns_mutex, write_mutex, toolVars, embVars,
               serveVars, snap, lost, torn>>

Connect(c) ==
    /\ cst[c] = "none" /\ listener
    /\ cst' = [cst EXCEPT ![c] = "backlog"]
    /\ UNCHANGED <<peerFrame, peerVars, told>>

\* An MCP client begins with "initialize" and waits for its answer; a bad
\* frame may come at any time.  When it asks for the list it has taken note of
\* every list_changed so far.
Send(c, m) ==
    /\ cst[c] \in {"backlog", "open"} /\ peer[c] # "gone"
    /\ inbox[c] = NoRequest /\ sent[c] < MaxRequests
    /\ m # "malformed" => (ready[c] <=> m # "initialize")
    /\ inbox' = [inbox EXCEPT ![c] = m]
    /\ sent' = [sent EXCEPT ![c] = @ + 1]
    /\ told' = [told EXCEPT ![c] = @ /\ m # "tools/list"]
    /\ UNCHANGED <<peerFrame, cst, peer, ready>>

\* The peer stops reading, or disconnects.
Hang(c) ==
    /\ peer[c] = "healthy" /\ cst[c] = "open"
    /\ peer' = [peer EXCEPT ![c] = "hung"]
    /\ UNCHANGED <<peerFrame, cst, inbox, sent, ready, told>>

Disconnect(c) ==
    /\ peer[c] # "gone" /\ cst[c] \in {"backlog", "open"}
    /\ peer' = [peer EXCEPT ![c] = "gone"]
    /\ UNCHANGED <<peerFrame, cst, inbox, sent, ready, told>>

-----------------------------------------------------------------------------
LifecycleStep ==
    \/ StartListening \/ StartFails \/ StartDone
    \/ StopListening \/ StopJoin \/ StopAbort \/ StopSpurious \/ StopDrained

AcceptStep == (\E c \in Conns : Accept(c)) \/ AcceptClosed \/ AcceptError \/ PlaceClient \/ RejectClient

ServeStep(c) ==
    \/ ReadFails(c)
    \/ HandleInitialize(c) \/ HandleToolsList(c) \/ HandleOther(c) \/ HandleNotification(c)
    \/ (\E t \in Tools : HandleToolsCall(c, t)) \/ ToolReturns(c)
    \/ LockWrite(c) \/ WriteHeader(c) \/ WriteBody(c) \/ WriteFails(c)
    \/ Unwind(c) \/ CloseConn(c)

EmbedderStep(e) ==
    \/ \E t \in Tools : Register_tool(e, t) \/ Unregister_tool(e, t)
    \/ \E id \in AppIds : Set_app_id(e, id)
    \/ CheckStarted(e) \/ LockConns(e) \/ SkipSlot(e)
    \/ TryLockFails(e) \/ TryLock(e)
    \/ NotifyHeader(e) \/ NotifyBody(e) \/ NotifyFails(e) \/ UnlockConns(e)

PeerStep(c) ==
    \/ Connect(c) \/ Hang(c) \/ Disconnect(c)
    \/ \E m \in Methods : Send(c, m)

Next ==
    \/ LifecycleStep
    \/ AcceptStep
    \/ \E c \in Conns : ServeStep(c) \/ PeerStep(c)
    \/ \E e \in Embedders : EmbedderStep(e)

\* Each thread runs, and a tool's function returns.  A write to a hung peer
\* need not go through; the bounded writes of a broadcast time out.  Nothing
\* is assumed of the peers, nor of when the embedders make changes.
Fairness ==
    /\ WF_vars(StartDone) /\ WF_vars(StopJoin) /\ WF_vars(StopAbort) /\ WF_vars(StopDrained)
    /\ WF_vars((\E c \in Conns : Accept(c)) \/ AcceptClosed \/ PlaceClient \/ RejectClient)
    /\ \A c \in Conns :
          /\ WF_vars(ReadFails(c) \/ HandleInitialize(c) \/ HandleToolsList(c) \/ HandleOther(c)
                     \/ HandleNotification(c) \/ (\E t \in Tools : HandleToolsCall(c, t))
                     \/ ToolReturns(c) \/ LockWrite(c) \/ WriteFails(c) \/ Unwind(c) \/ CloseConn(c))
          /\ WF_vars(peer[c] = "healthy" /\ (WriteHeader(c) \/ WriteBody(c)))
    /\ \A e \in Embedders :
          WF_vars(CheckStarted(e) \/ LockConns(e) \/ SkipSlot(e) \/ TryLockFails(e) \/ TryLock(e)
                  \/ NotifyHeader(e) \/ NotifyBody(e) \/ NotifyFails(e) \/ UnlockConns(e))

Spec == Init /\ [][Next]_vars /\ Fairness

-----------------------------------------------------------------------------
Writing == {"header", "body"}
Serving == {"read", "call", "reply", "header", "body", "unwind"}

\* Every variable keeps its type; active_clients, a size_t in the code, never
\* goes below zero.
TypeOK ==
    /\ lpc \in {"stopped", "starting", "running", "joining", "aborting", "draining", "drained"}
    /\ thread_started \in BOOLEAN /\ listener \in BOOLEAN /\ starts \in 0..MaxStarts
    /\ apc \in {"none", "accept", "place", "exited"} /\ acc \in Conns \cup {NoConn}
    /\ clients \in [Slots -> [conn : Conns \cup {NoConn}, initialized : BOOLEAN]]
    /\ active_clients \in Nat
    /\ conns_mutex \in Embedders \cup {NoOwner}
    /\ write_mutex \in [Slots -> {"free", "serve", "notify"}]
    /\ tools \in Seq(Tools \cup {"echo", "tail_log"})
    /\ app_id \in AppIds \cup {NoId} /\ ver \in 0..MaxChanges
    /\ epc \in [Embedders -> {"idle", "check", "lock", "scan", "header", "body"}]
    /\ at \in [Embedders -> 0..MAX_CONNS + 1]
    /\ spc \in [Conns -> {"none", "closing", "done"} \cup Serving]
    /\ slot \in [Conns -> 0..MAX_CONNS]
    /\ cst \in [Conns -> {"none", "backlog", "open", "aborted", "closed"}]
    /\ peer \in [Conns -> {"healthy", "hung", "gone"}]
    /\ inbox \in [Conns -> AllMethods \cup {NoRequest}]
    /\ sent \in [Conns -> 0..MaxRequests]
    /\ ready \in [Conns -> BOOLEAN]
    /\ snap \in [Conns -> -1..MaxChanges]
    /\ told \in [Conns -> BOOLEAN]
    /\ lost \in [Conns -> SUBSET {"unstarted", "contended"}]
    /\ torn \in [Conns -> BOOLEAN]

\* active_clients, which mcp_server_stop waits on, counts the occupied slots,
\* and each of those belongs to exactly one running serve thread.
ActiveCountsSlots ==
    /\ active_clients = Cardinality(Occupied)
    /\ \A i \in Occupied : LET c == clients[i].conn IN slot[c] = i /\ spc[c] \in Serving
    /\ \A c \in Conns : spc[c] \in Serving => slot[c] \in Slots /\ clients[slot[c]].conn = c

\* A broadcaster in the middle of a frame, and mcp_server_stop when it aborts,
\* only ever see connections that client_thread has not yet closed and freed.
NoUseAfterClose ==
    /\ \A i \in Occupied : cst[clients[i].conn] \in {"open", "aborted"}
    /\ \A e \in Embedders : epc[e] \in Writing => at[e] \in Occupied

\* Frames on one connection are never interleaved, and a connection on which a
\* frame was cut short carries no further frame.
FramesIntact ==
    /\ \A e \in Embedders, c \in Conns :
          epc[e] \in Writing /\ clients[at[e]].conn = c => spc[c] \notin Writing
    /\ \A c \in Conns : torn[c] => Dead(c) \/ cst[c] = "closed"

\* When mcp_server_stop has returned that run has no accept thread, no occupied
\* slot and no listener left.  A serve thread that has cleared its slot may still
\* be closing its connection.
StoppedIsQuiet ==
    lpc = "stopped" => /\ apc = "none" /\ ~listener /\ ~thread_started
                       /\ Occupied = {}

\* All requests of c are answered and no announcement is under way.
Settled(c) ==
    /\ cst[c] = "open" /\ peer[c] = "healthy" /\ ready[c]
    /\ inbox[c] = NoRequest
    /\ \A e \in Embedders : epc[e] = "idle"

\* A client whose tools/list is out of date has been told so, or the
\* notification was given up for one of the two reasons the code names: the
\* client's serve thread was writing, or the server was not yet started.
StaleExplained ==
    \A c \in Conns : Settled(c) /\ snap[c] \in 0..ver - 1 => told[c] \/ lost[c] # {}

\* mcp_server_stop returns, whatever the peers do and though accept() may have
\* failed before.  As on POSIX, an abort always wakes the serve thread; Bridge's
\* AbortUnblocks shows the abort that Win32 misses.
StopTerminates == lpc = "joining" ~> lpc = "stopped"

\* mcp_server_register_tool, mcp_server_unregister_tool and
\* mcp_server_set_app_id return, even when a peer never reads again.
ChangeReturns == \A e \in Embedders : epc[e] # "idle" ~> epc[e] = "idle"

\* A request that the server has accepted is answered, unless its peer stops
\* reading or the connection goes down.
RequestAnswered ==
    \A c \in Conns : spc[c] = "read" /\ inbox[c] # NoRequest
                     ~> inbox[c] = NoRequest \/ cst[c] # "open" \/ peer[c] # "healthy"

\* docs/mcp-spec.md 10.1, "Any change broadcasts ... to every client that has
\* completed initialize"; changes made before the server counts as started are
\* left to NothingToNotifyBeforeStart.
EveryClientTold ==
    \A c \in Conns : Settled(c) /\ snap[c] \in 0..ver - 1 => told[c] \/ "unstarted" \in lost[c]

\* The comment of handle_request on notifications that come before the
\* handshake is done.
NotifiedAfterHandshake == \A c \in Conns : told[c] => ready[c]

\* The comment of notify_tools_changed, "Pre-start registration: nothing to
\* notify yet".
NothingToNotifyBeforeStart == \A c \in Conns : "unstarted" \notin lost[c]

\* The comment of mcp_listener_accept, "Returns NULL when the listener is
\* closed", and of server_thread, "listener closed".
AcceptsUntilClosed == apc = "exited" => ~listener

=============================================================================
