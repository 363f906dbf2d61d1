------------------------------ MODULE Listener ------------------------------
(***************************************************************************)
(* The listener of a server while it is stopped: the accept thread         *)
(* (server_thread and mcp_listener_accept) against mcp_server_stop and the *)
(* mcp_listener_close that it calls, in both builds of                     *)
(* src/mcp_transport.c.  Neither side takes a lock.                        *)
(*                                                                         *)
(* A handle is a number: the listening socket, which is one on POSIX, or   *)
(* an instance of the pipe, of which Win32 makes a new one for every       *)
(* client.  The memory of the listener may be read after it is freed; what *)
(* is read then is the old value or anything else.                         *)
(***************************************************************************)
EXTENDS Naturals

CONSTANT MaxClients   \* bound: clients that connect

ASSUME ListenerAssumption == MaxClients \in Nat

VARIABLES
    platform,   \* posix or win32
    memory,     \* of the listener: live, or freed
    pointer,    \* g_server.listener: set, or null
    closed,     \* listener->closed; on POSIX the socket is shut down
    handle,     \* listener->fd or listener->pipe
    open,       \* handles that are open
    at,         \* the handle that the accept thread waits on
    apc,        \* where the accept thread is
    spc,        \* where mcp_server_stop is
    clients     \* clients that have connected

listenVars == <<platform, memory, pointer, closed, handle, open, at, apc, spc, clients>>

OnWin32 == platform = "win32"

\* start_with_listener has made the thread.
ListenInit ==
    /\ platform \in {"posix", "win32"}
    /\ memory = "live" /\ pointer = "set" /\ closed = FALSE
    /\ handle = 1 /\ open = {1} /\ at = 0
    /\ apc = "load" /\ spc = "running" /\ clients = 0

-----------------------------------------------------------------------------
\* server_thread loads g_server.listener; a null pointer ends it.
AcceptLoad ==
    /\ apc = "load"
    /\ apc' = IF pointer = "set" THEN "issue" ELSE "ended"
    /\ UNCHANGED <<platform, memory, pointer, closed, handle, open, at, spc, clients>>

\* accept or ConnectNamedPipe on the handle that the listener holds.
AcceptIssue ==
    /\ apc = "issue" /\ handle \in open /\ (OnWin32 \/ ~closed)
    /\ apc' = "parked" /\ at' = handle
    /\ UNCHANGED <<platform, memory, pointer, closed, handle, open, spc, clients>>

\* The handle is closed or shut down, or is garbage read from freed memory.
\* (Any other error of accept ends the thread as well: McpServer.AcceptError.)
AcceptIssueFails ==
    /\ apc = "issue"
    /\ handle \notin open \/ (~OnWin32 /\ closed) \/ memory = "freed"
    /\ apc' = "ended"
    /\ UNCHANGED <<platform, memory, pointer, closed, handle, open, at, spc, clients>>

\* A client connects.  POSIX hands out a socket of its own.
AcceptClient ==
    /\ apc = "parked" /\ at \in open /\ clients < MaxClients
    /\ OnWin32 \/ ~closed
    /\ clients' = clients + 1
    /\ apc' = IF OnWin32 THEN "harvest" ELSE "load"
    /\ UNCHANGED <<platform, memory, pointer, closed, handle, open, at, spc>>

\* Win32: the closed flag is looked at, in memory that may be freed ...
AcceptHarvest ==
    /\ apc = "harvest"
    /\ apc' \in {IF closed THEN "ended" ELSE "rearm"}
                  \cup (IF memory = "freed" THEN {"ended", "rearm"} ELSE {})
    /\ UNCHANGED <<platform, memory, pointer, closed, handle, open, at, spc, clients>>

\* ... the handle is handed to the connection, and a fresh instance stands in.
AcceptRearm ==
    /\ apc = "rearm"
    /\ handle' = handle + 1 /\ open' = open \cup {handle + 1}
    /\ apc' = "load"
    /\ UNCHANGED <<platform, memory, pointer, closed, at, spc, clients>>

\* POSIX: the wait ends because the socket is shut down.
AcceptWoken ==
    /\ apc = "parked" /\ ~OnWin32 /\ closed
    /\ apc' = "ended"
    /\ UNCHANGED <<platform, memory, pointer, closed, handle, open, at, spc, clients>>

AcceptStep ==
    \/ AcceptLoad \/ AcceptIssue \/ AcceptIssueFails
    \/ AcceptHarvest \/ AcceptRearm \/ AcceptWoken

-----------------------------------------------------------------------------
\* Mutant of ListenerShutdown: the socket is closed and not shut down.
ListenerShutdownNot ==
    /\ spc = "running"
    /\ spc' = "cancel"
    /\ UNCHANGED <<platform, memory, pointer, closed, handle, open, at, apc, clients>>

\* mcp_listener_close: the flag, or shutdown ...
ListenerShutdown ==
    /\ spc = "running"
    /\ closed' = TRUE /\ spc' = "cancel"
    /\ UNCHANGED <<platform, memory, pointer, handle, open, at, apc, clients>>

\* ... on Win32 CancelIoEx, which ends a wait that is pending on the handle ...
ListenerCancel ==
    /\ spc = "cancel"
    /\ apc' = IF OnWin32 /\ apc = "parked" /\ at = handle THEN "ended" ELSE apc
    /\ spc' = "close"
    /\ UNCHANGED <<platform, memory, pointer, closed, handle, open, at, clients>>

\* ... the handle is closed, which wakes nobody ...
ListenerCloseHandle ==
    /\ spc = "close"
    /\ open' = open \ {handle} /\ spc' = "free"
    /\ UNCHANGED <<platform, memory, pointer, closed, handle, at, apc, clients>>

\* ... and the memory is freed.
ListenerFree ==
    /\ spc = "free"
    /\ memory' = "freed" /\ spc' = "clear"
    /\ UNCHANGED <<platform, pointer, closed, handle, open, at, apc, clients>>

\* mcp_server_stop clears the pointer ...
StopClears ==
    /\ spc = "clear"
    /\ pointer' = "null" /\ spc' = "join"
    /\ UNCHANGED <<platform, memory, closed, handle, open, at, apc, clients>>

\* ... and joins the thread.
StopJoins ==
    /\ spc = "join" /\ apc = "ended"
    /\ spc' = "joined"
    /\ UNCHANGED <<platform, memory, pointer, closed, handle, open, at, apc, clients>>

mcp_listener_close ==
    ListenerShutdown \/ ListenerCancel \/ ListenerCloseHandle \/ ListenerFree

StopStep == mcp_listener_close \/ StopClears \/ StopJoins

ListenNext == AcceptStep \/ AcceptClient \/ StopStep

-----------------------------------------------------------------------------
Stopping == spc \notin {"running", "joined"}

\* On POSIX mcp_server_stop gets past its join wherever the accept thread is
\* when the listener is closed: shutdown wakes it, or it finds the socket
\* closed, or the pointer null.
StopReturns == (Stopping /\ ~OnWin32) ~> spc = "joined"

\* src/mcp_transport.c:554: "the server thread exits cleanly" when a Win32
\* listener is closed, too.
StopReturnsAnywhere == Stopping ~> spc = "joined"

\* include/displayxr_mcp/mcp_transport.h:62: "Safe to call from another thread
\* to unblock accept()": the thread does not use a listener that is freed.
AcceptUsesLiveListener == apc \in {"issue", "harvest", "rearm"} => memory = "live"

=============================================================================
