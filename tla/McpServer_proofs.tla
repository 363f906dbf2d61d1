-------------------------- MODULE McpServer_proofs --------------------------
(***************************************************************************)
(* Proofs about the server, for any number of client slots, connections,   *)
(* embedder threads, tools and restarts.                                   *)
(*                                                                         *)
(* The invariant is a conjunction of parts, each about the state that one  *)
(* mutex protects or one thread owns; a part is preserved with the help of *)
(* the ones before it.                                                     *)
(***************************************************************************)
EXTENDS McpServer, FiniteSetTheorems, WellFoundedInduction, TLAPS

Connected == {"open", "aborted"}
Sweeping == {"scan"} \cup Writing

\* The connections: a serve thread's is not yet freed, and the accept thread
\* holds one that nobody serves yet.
ConnInv ==
    /\ \A c \in Conns : spc[c] \in Serving \cup {"closing"} => cst[c] \in Connected
    /\ \A c \in Conns : spc[c] = "done" => cst[c] = "closed"
    /\ apc = "place" => acc \in Conns /\ spc[acc] = "none" /\ cst[acc] = "open"

\* The mutexes: a broadcaster has conns_mutex while it sweeps the slots, and
\* whoever writes a frame has the write_mutex of the slot.
MutexInv ==
    /\ \A e \in Embedders : epc[e] \in Sweeping <=> conns_mutex = e
    /\ \A e \in Embedders : epc[e] \in Sweeping => at[e] \in 1..MAX_CONNS + 1
    /\ \A e \in Embedders :
          epc[e] \in Writing => at[e] \in Occupied /\ write_mutex[at[e]] = "notify"
    /\ \A c \in Conns : spc[c] \in Writing => write_mutex[slot[c]] = "serve"

\* The life cycle: which threads and which flags there are at which moment.
LifeInv ==
    /\ listener <=> lpc \in {"starting", "running"}
    /\ lpc \in {"stopped", "aborting", "draining", "drained"} => apc = "none"
    /\ lpc = "stopped" => ~thread_started /\ Occupied = {}

\* A frame that was cut short is the last one.
TornInv == \A c \in Conns : torn[c] => Dead(c) \/ cst[c] = "closed"

Handled == {"reply", "header", "body"}

\* A request on its way through the serve thread: a client that may ask for
\* the list has been made eligible for notifications.
RequestOf(c) ==
    /\ spc[c] \in {"unwind", "closing"} => Dead(c) \/ inbox[c] = "malformed"
    /\ spc[c] = "call" => inbox[c] = "tools/call"
    /\ spc[c] \in Handled => inbox[c] # NoRequest
    /\ inbox[c] \notin {NoRequest, "initialize", "malformed"} => ready[c]
    /\ snap[c] # -1 => ready[c]
    /\ ready[c] => spc[c] # "none"
    /\ spc[c] \in Serving /\ (ready[c] \/ (inbox[c] = "initialize" /\ spc[c] \in Handled))
          => clients[slot[c]].initialized

RequestInv == \A c \in Conns : RequestOf(c)

\* A broadcast that has still to come to the slot of c.
Due(c) ==
    \E e \in Embedders :
        epc[e] \in {"check", "lock"} \/ (epc[e] \in Sweeping /\ at[e] <= slot[c])

\* A client that is served and whose list is out of date has been told, has been given up, will
\* be told, or its new request for the list is still to be handled.
Stale(c) ==
    /\ cst[c] = "open" /\ peer[c] # "gone" /\ snap[c] \in 0..ver - 1
    /\ spc[c] \notin {"unwind", "closing"}
Excused(c) ==
    \/ told[c] \/ lost[c] # {} \/ Due(c)
    \/ inbox[c] = "tools/list" /\ spc[c] = "read"

StaleInv == \A c \in Conns : Stale(c) => Excused(c)

ServerInv ==
    /\ TypeOK /\ ActiveCountsSlots /\ ConnInv
    /\ MutexInv /\ LifeInv /\ TornInv /\ RequestInv /\ StaleInv

-----------------------------------------------------------------------------
\* The constants that are numbers.
LEMMA ServerNumbers ==
    MAX_CONNS \in Nat /\ MAX_TOOLS \in Nat /\ MaxStarts \in Nat
    /\ MaxChanges \in Nat /\ MaxRequests \in Nat
  BY ServerAssumption

\* The loop of server_thread over the slots finds a free one if there is one.
LEMMA FirstFreeIsFree ==
    ASSUME Occupied # Slots
    PROVE  FirstFree \in Slots \ Occupied
<1> DEFINE F == Slots \ Occupied
<1>1. F \subseteq Nat /\ F # {}
  BY ServerNumbers DEF Slots, Occupied
<1>2. \E n \in F : \A m \in F : <<m, n>> \notin OpToRel(<, Nat)
  <2> HIDE DEF F
  <2> QED
    BY <1>1, NatLessThanWellFounded, WFMin, Zenon
<1>3. \A m, n \in Nat : m < n => <<m, n>> \in OpToRel(<, Nat)
  BY DEF OpToRel
<1>4. \E n \in F : \A m \in F : n <= m
  <2> HIDE DEF F
  <2>1. PICK n \in F : \A m \in F : <<m, n>> \notin OpToRel(<, Nat)
    BY <1>2, Zenon
  <2>2. \A m \in F : ~(m < n)
    BY <1>1, <1>3, <2>1, Zenon
  <2>3. \A m \in F : n <= m
    BY <1>1, <2>2
  <2> QED
    BY <2>3, Zenon
<1> QED
  BY <1>4, Zenon DEF FirstFree

(***************************************************************************)
(* What the threads leave alone                                            *)
(***************************************************************************)
\* The life cycle thread touches no slot, no frame and no request.
LEMMA LifecycleFrame ==
    ASSUME LifecycleStep
    PROVE  UNCHANGED <<acc, clients, active_clients, app_id, conns_mutex, write_mutex, ver, epc, at,
                       spc, slot, peer, inbox, sent, ready, snap, told, lost, torn>>
  BY DEF LifecycleStep, StartListening, StartFails, StartDone, StopListening, StopJoin, StopAbort,
         StopSpurious, StopDrained, acceptVars, slotVars, toolVars, embVars, serveVars, peerVars,
         histVars

\* The accept thread writes no frame and handles no request.
LEMMA AcceptFrame ==
    ASSUME AcceptStep
    PROVE  UNCHANGED <<lpc, thread_started, listener, starts, conns_mutex, write_mutex, tools,
                       app_id, ver, epc, at,
                       peer, inbox, sent, ready, snap, told, lost, torn>>
  BY DEF AcceptStep, Accept, AcceptClosed, AcceptError, PlaceClient, RejectClient,
         lifeVars, toolVars, embVars, peerVars, histVars

\* A serve thread leaves the accept thread and the broadcasters alone.
LEMMA ServeFrame ==
    ASSUME NEW c \in Conns, ServeStep(c)
    PROVE  UNCHANGED <<thread_started, listener, starts, apc, acc, conns_mutex,
                       tools, app_id, ver, epc, at, slot,
                       peer, sent, lost>>
<1> USE DEF serveFrame, unwindFrame, lifeVars, acceptVars, toolVars, embVars, peerVars, histVars
<1>1. CASE ReadFails(c)
  BY <1>1 DEF ReadFails
<1>2. CASE HandleInitialize(c)
  BY <1>2 DEF HandleInitialize
<1>3. CASE HandleToolsList(c)
  BY <1>3 DEF HandleToolsList
<1>4. CASE HandleOther(c)
  BY <1>4 DEF HandleOther
<1>5. CASE HandleNotification(c)
  BY <1>5 DEF HandleNotification
<1>6. ASSUME NEW t \in Tools, HandleToolsCall(c, t)
      PROVE  UNCHANGED <<thread_started, listener, starts, apc, acc, conns_mutex,
                         tools, app_id, ver, epc, at, slot,
                         peer, sent, lost>>
  BY <1>6 DEF HandleToolsCall
<1>7. CASE ToolReturns(c)
  BY <1>7 DEF ToolReturns
<1>8. CASE LockWrite(c)
  BY <1>8 DEF LockWrite
<1>9. CASE WriteHeader(c)
  BY <1>9 DEF WriteHeader
<1>10. CASE WriteBody(c)
  BY <1>10 DEF WriteBody
<1>11. CASE WriteFails(c)
  BY <1>11 DEF WriteFails
<1>12. CASE Unwind(c)
  BY <1>12 DEF Unwind
<1>13. CASE CloseConn(c)
  BY <1>13 DEF CloseConn
<1> QED
  BY <1>1, <1>2, <1>3, <1>4, <1>5, <1>6, <1>7, <1>8, <1>9, <1>10, <1>11, <1>12, <1>13, Zenon
  DEF ServeStep

\* An embedder leaves the slots, the threads and the requests alone.
LEMMA EmbedderFrame ==
    ASSUME NEW e \in Embedders, EmbedderStep(e)
    PROVE  UNCHANGED <<lpc, thread_started, listener, starts, apc, acc, clients,
                       active_clients, spc, slot, peer, inbox, sent, ready, snap>>
<1>1. EmbedderStep(e) => UNCHANGED embFrame
  BY Zenon DEF EmbedderStep, Register_tool, Unregister_tool, Set_app_id, Changed, CheckStarted,
     LockConns, SkipSlot, TryLockFails, TryLock, NotifyHeader, NotifyBody, NotifyFails, UnlockConns
<1> QED
  BY <1>1 DEF embFrame, lifeVars, acceptVars, slotVars, serveVars, peerVars

\* A peer touches nothing but its own connection.
LEMMA PeerFrame ==
    ASSUME NEW c \in Conns, PeerStep(c)
    PROVE  UNCHANGED <<lpc, thread_started, listener, starts, apc, acc, clients,
                       active_clients, conns_mutex, write_mutex, tools, app_id, ver, epc, at, spc, slot, snap, lost, torn>>
<1>1. PeerStep(c) => UNCHANGED peerFrame
  BY DEF PeerStep, Connect, Hang, Disconnect, Send, peerFrame
<1> QED
  BY <1>1 DEF peerFrame, lifeVars, acceptVars, slotVars, toolVars, embVars, serveVars

(***************************************************************************)
(* Types                                                                   *)
(***************************************************************************)
\* The built-ins and an embedder's tool are tools, and stay so when one goes.
LEMMA RegistryType ==
    ASSUME TypeOK
    PROVE  /\ WithBuiltins \in Seq(Tools \cup {"echo", "tail_log"})
           /\ \A t \in Tools : Append(tools, t) \in Seq(Tools \cup {"echo", "tail_log"})
           /\ \A i \in 1..Len(tools) :
                 SubSeq(tools, 1, i - 1) \o SubSeq(tools, i + 1, Len(tools))
                     \in Seq(Tools \cup {"echo", "tail_log"})
<1> DEFINE T == Tools \cup {"echo", "tail_log"}
<1>1. tools \in Seq(T) /\ "echo" \in T /\ "tail_log" \in T /\ Tools \subseteq T
  BY DEF TypeOK
<1>2. \A s \in Seq(T), t \in T : Append(s, t) \in Seq(T)
  OBVIOUS
<1>3. \A s \in Seq(T), t \in T : WithTool(s, t) \in Seq(T)
  BY <1>2 DEF WithTool
<1>4. WithBuiltins \in Seq(T)
  <2>1. Builtins[1] = "echo" /\ Builtins[2] = "tail_log"
    BY DEF Builtins
  <2> QED
    BY <1>1, <1>3, <2>1 DEF WithBuiltins
<1>5. ASSUME NEW i \in 1..Len(tools)
      PROVE  SubSeq(tools, 1, i - 1) \o SubSeq(tools, i + 1, Len(tools)) \in Seq(T)
  <2>1. SubSeq(tools, 1, i - 1) \in Seq(T) /\ SubSeq(tools, i + 1, Len(tools)) \in Seq(T)
    BY <1>1
  <2> QED
    BY <2>1
<1> QED
  BY <1>1, <1>2, <1>4, <1>5

\* The types hold at start-up.
LEMMA TypeInit == Init => TypeOK
<1> SUFFICES ASSUME Init PROVE TypeOK
  OBVIOUS
<1> USE ServerNumbers DEF Init
<1>1. clients \in [Slots -> [conn : Conns \cup {NoConn}, initialized : BOOLEAN]]
  BY DEF FreeSlot
<1>2. /\ at \in [Embedders -> 0..MAX_CONNS + 1] /\ slot \in [Conns -> 0..MAX_CONNS]
      /\ sent \in [Conns -> 0..MaxRequests] /\ snap \in [Conns -> -1..MaxChanges]
      /\ starts \in 0..MaxStarts /\ ver \in 0..MaxChanges
  OBVIOUS
<1>3. tools \in Seq(Tools \cup {"echo", "tail_log"})
  OBVIOUS
<1>4. spc \in [Conns -> {"none", "closing", "done"} \cup Serving]
  OBVIOUS
<1> QED
  BY <1>1, <1>2, <1>3, <1>4 DEF TypeOK

\* The types of the variables that the lifecycle thread changes.
LifecycleTypes ==
    /\ lpc \in {"stopped", "starting", "running", "joining", "aborting", "draining", "drained"}
    /\ thread_started \in BOOLEAN /\ listener \in BOOLEAN /\ starts \in 0..MaxStarts
    /\ apc \in {"none", "accept", "place", "exited"}
    /\ tools \in Seq(Tools \cup {"echo", "tail_log"})
    /\ ver \in 0..MaxChanges
    /\ cst \in [Conns -> {"none", "backlog", "open", "aborted", "closed"}]

\* Every step of the life cycle keeps the types.
LEMMA TypeLifecycle ==
    ASSUME TypeOK, LifecycleStep
    PROVE  TypeOK'
<1>1. WithBuiltins \in Seq(Tools \cup {"echo", "tail_log"})
  BY RegistryType
<1>10. LifecycleTypes
  BY DEF TypeOK, LifecycleTypes
<1>11. SUFFICES LifecycleTypes'
  <2>1. UNCHANGED <<acc, clients, active_clients, app_id, conns_mutex, write_mutex,
                    ver, epc, at, spc, slot, peer, inbox, sent, ready, snap, told, lost, torn>>
    BY LifecycleFrame
  <2> QED
    BY <2>1 DEF TypeOK, LifecycleTypes
<1> USE ServerNumbers, <1>10 DEF LifecycleTypes, acceptVars
<1>2. CASE StartListening
  BY <1>1, <1>2 DEF StartListening
<1>3. CASE StartFails
  BY <1>1, <1>3 DEF StartFails
<1>4. CASE StartDone
  BY <1>4 DEF StartDone, toolVars
<1>5. CASE StopListening
  BY <1>5 DEF StopListening, toolVars
<1>6. CASE StopJoin
  BY <1>6 DEF StopJoin, toolVars
<1>7. CASE StopAbort
  BY <1>7 DEF StopAbort, toolVars
<1>8. CASE StopSpurious
  BY <1>8 DEF StopSpurious, toolVars
<1>9. CASE StopDrained
  BY <1>9 DEF StopDrained, toolVars
<1> QED
  BY <1>2, <1>3, <1>4, <1>5, <1>6, <1>7, <1>8, <1>9, Zenon DEF LifecycleStep

\* Every step of the accept thread does.
LEMMA TypeAccept ==
    ASSUME TypeOK, AcceptStep
    PROVE  TypeOK'
<1> USE ServerNumbers DEF TypeOK, lifeVars, slotVars, toolVars, embVars, serveVars, peerVars, histVars
<1>1. ASSUME NEW c \in Conns, Accept(c)
      PROVE  TypeOK'
  BY <1>1 DEF Accept
<1>2. CASE AcceptClosed
  BY <1>2 DEF AcceptClosed
<1>3. CASE AcceptError
  BY <1>3, SMTT(30) DEF AcceptError
<1>4. CASE PlaceClient
  <2>1. FirstFree \in Slots
    BY <1>4, FirstFreeIsFree DEF PlaceClient
  <2>2. FirstFree \in 0..MAX_CONNS
    BY <2>1 DEF Slots
  <2>3. clients' \in [Slots -> [conn : Conns \cup {NoConn}, initialized : BOOLEAN]]
    <3> DEFINE R == [conn : Conns \cup {NoConn}, initialized : BOOLEAN]
    <3>1. [conn |-> acc, initialized |-> FALSE] \in R
      OBVIOUS
    <3>2. clients \in [Slots -> R]
      OBVIOUS
    <3>3. clients' = [clients EXCEPT ![FirstFree] = [conn |-> acc, initialized |-> FALSE]]
      BY <1>4 DEF PlaceClient
    <3> HIDE DEF R
    <3> QED
      BY <2>1, <3>1, <3>2, <3>3, Zenon DEF R
  <2>4. /\ spc' \in [Conns -> {"none", "closing", "done"} \cup Serving]
        /\ slot' \in [Conns -> 0..MAX_CONNS]
        /\ active_clients' \in Nat
    <3>1. spc' = [spc EXCEPT ![acc] = "read"] /\ slot' = [slot EXCEPT ![acc] = FirstFree]
      BY <1>4 DEF PlaceClient
    <3>2. active_clients' = active_clients + 1
      BY <1>4 DEF PlaceClient
    <3>3. spc' \in [Conns -> {"none", "closing", "done"} \cup Serving]
      BY <3>1, Zenon DEF Serving
    <3>4. slot' \in [Conns -> 0..MAX_CONNS]
      BY <2>2, <3>1, Zenon
    <3> QED
      BY <3>2, <3>3, <3>4
  <2>5. /\ apc' = "accept" /\ acc' = NoConn
        /\ UNCHANGED <<lifeVars, conns_mutex, write_mutex, toolVars, embVars,
                       cst, peerVars, histVars>>
    BY <1>4 DEF PlaceClient
  <2> QED
    BY <2>3, <2>4, <2>5
<1>5. CASE RejectClient
  BY <1>5 DEF RejectClient
<1> QED
  BY <1>1, <1>2, <1>3, <1>4, <1>5, Zenon DEF AcceptStep

\* A serve thread that unwinds is counted.
LEMMA UnwindCounted ==
    ASSUME TypeOK, ActiveCountsSlots, NEW c \in Conns, spc[c] \in Serving
    PROVE  /\ slot[c] \in Occupied /\ slot[c] \in Slots /\ clients[slot[c]].conn = c
           /\ IsFiniteSet(Occupied) /\ active_clients - 1 \in Nat
<1>1. slot[c] \in Slots /\ clients[slot[c]].conn = c
  BY DEF ActiveCountsSlots
<1>2. slot[c] \in Occupied
  BY <1>1, ServerAssumption DEF Occupied
<1>3. IsFiniteSet(Slots) /\ Occupied \subseteq Slots
  BY ServerNumbers, FS_Interval DEF Occupied, Slots
<1>4. IsFiniteSet(Occupied)
  BY <1>3, FS_Subset, Zenon
<1>5. Cardinality(Occupied) # 0 /\ Cardinality(Occupied) \in Nat
  BY <1>2, <1>4, FS_EmptySet, FS_CardinalityType
<1> QED
  BY <1>1, <1>2, <1>4, <1>5 DEF ActiveCountsSlots

\* The types of the variables that a serve thread changes.
ServeTypes ==
    /\ lpc \in {"stopped", "starting", "running", "joining", "aborting", "draining", "drained"}
    /\ clients \in [Slots -> [conn : Conns \cup {NoConn}, initialized : BOOLEAN]]
    /\ active_clients \in Nat
    /\ write_mutex \in [Slots -> {"free", "serve", "notify"}]
    /\ spc \in [Conns -> {"none", "closing", "done"} \cup Serving]
    /\ cst \in [Conns -> {"none", "backlog", "open", "aborted", "closed"}]
    /\ inbox \in [Conns -> AllMethods \cup {NoRequest}]
    /\ ready \in [Conns -> BOOLEAN] /\ snap \in [Conns -> -1..MaxChanges]
    /\ told \in [Conns -> BOOLEAN] /\ torn \in [Conns -> BOOLEAN]

\* Every step of a serve thread keeps the types.
LEMMA TypeServe ==
    ASSUME TypeOK, ActiveCountsSlots, NEW c \in Conns, ServeStep(c)
    PROVE  TypeOK'
<1>14. ServeTypes
  BY DEF TypeOK, ServeTypes
<1>15. SUFFICES ServeTypes'
  <2>1. UNCHANGED <<thread_started, listener, starts, apc, acc, conns_mutex,
                    tools, app_id, ver, epc, at, slot, peer, sent, lost>>
    BY ServeFrame
  <2> QED
    BY <2>1 DEF TypeOK, ServeTypes
<1> USE <1>14 DEF ServeTypes, serveFrame, lifeVars, acceptVars, toolVars, embVars, Serving
<1>1. CASE ReadFails(c)
  BY <1>1 DEF ReadFails
<1>2. CASE HandleOther(c)
  BY <1>2 DEF HandleOther
<1>3. ASSUME NEW t \in Tools, HandleToolsCall(c, t)
      PROVE  ServeTypes'
  <2>1. PICK s \in {"call", "reply"} : spc' = [spc EXCEPT ![c] = s]
    BY <1>3 DEF HandleToolsCall
  <2> QED
    BY <1>3, <2>1 DEF HandleToolsCall
<1>4. CASE ToolReturns(c)
  BY <1>4 DEF ToolReturns
<1>5. CASE WriteHeader(c)
  BY <1>5 DEF WriteHeader
<1>6. CASE HandleInitialize(c)
  <2>1. clients' \in [Slots -> [conn : Conns \cup {NoConn}, initialized : BOOLEAN]]
    <3> DEFINE R == [conn : Conns \cup {NoConn}, initialized : BOOLEAN]
    <3> DEFINE r == [clients[slot[c]] EXCEPT !.initialized = TRUE]
    <3>1. slot[c] \in Slots
      <4>1. spc[c] \in Serving
        BY <1>6 DEF HandleInitialize
      <4> QED
        BY <4>1, UnwindCounted, Zenon
    <3>2. clients \in [Slots -> R] /\ clients[slot[c]] \in R
      BY <3>1
    <3>3. r \in R
      BY <3>2
    <3>4. clients' = [clients EXCEPT ![slot[c]] = r]
      BY <1>6 DEF HandleInitialize
    <3> HIDE DEF r, R
    <3>5. clients' \in [Slots -> R]
      BY <3>2, <3>3, <3>4
    <3> QED
      BY <3>5 DEF R
  <2>2. /\ spc' \in [Conns -> {"none", "closing", "done"} \cup Serving]
        /\ UNCHANGED <<serveFrame, write_mutex, inbox, ready, snap, told, torn>>
    BY <1>6 DEF HandleInitialize
  <2> QED
    BY <2>1, <2>2
<1>7. CASE HandleToolsList(c)
  <2>1. snap' \in [Conns -> -1..MaxChanges]
    BY <1>7, ServerNumbers DEF HandleToolsList, TypeOK
  <2>2. /\ spc' \in [Conns -> {"none", "closing", "done"} \cup Serving]
        /\ UNCHANGED <<serveFrame, clients, write_mutex, inbox, ready, told, torn>>
    BY <1>7 DEF HandleToolsList
  <2> QED
    BY <2>1, <2>2
<1>8. CASE HandleNotification(c)
  BY <1>8 DEF HandleNotification
<1>9. CASE LockWrite(c)
  BY <1>9 DEF LockWrite
<1>10. CASE WriteBody(c)
  BY <1>10 DEF WriteBody
<1>11. CASE WriteFails(c)
  BY <1>11 DEF WriteFails
<1>12. CASE Unwind(c)
  <2>1. active_clients - 1 \in Nat
    BY <1>12, UnwindCounted DEF Unwind
  <2>2. FreeSlot \in [conn : Conns \cup {NoConn}, initialized : BOOLEAN]
    BY DEF FreeSlot
  <2>3. lpc' \in {"stopped", "starting", "running", "joining", "aborting", "draining", "drained"}
    BY <1>12 DEF Unwind, DrainSignal
  <2> QED
    BY <1>12, <2>1, <2>2, <2>3 DEF Unwind, unwindFrame, peerVars, histVars
<1>13. CASE CloseConn(c)
  BY <1>13 DEF CloseConn, slotVars, peerVars, histVars
<1> QED
  BY <1>1, <1>2, <1>3, <1>4, <1>5, <1>6, <1>7, <1>8, <1>9, <1>10, <1>11, <1>12, <1>13, Zenon
  DEF ServeStep

\* The types of the variables that an embedder changes.
EmbedderTypes ==
    /\ conns_mutex \in Embedders \cup {NoOwner}
    /\ write_mutex \in [Slots -> {"free", "serve", "notify"}]
    /\ tools \in Seq(Tools \cup {"echo", "tail_log"})
    /\ app_id \in AppIds \cup {NoId} /\ ver \in 0..MaxChanges
    /\ epc \in [Embedders -> {"idle", "check", "lock", "scan", "header", "body"}]
    /\ at \in [Embedders -> 0..MAX_CONNS + 1]
    /\ cst \in [Conns -> {"none", "backlog", "open", "aborted", "closed"}]
    /\ told \in [Conns -> BOOLEAN] /\ lost \in [Conns -> SUBSET {"unstarted", "contended"}]
    /\ torn \in [Conns -> BOOLEAN]

\* Every step of an embedder keeps the types.
LEMMA TypeEmbedder ==
    ASSUME TypeOK, MutexInv, NEW e \in Embedders, EmbedderStep(e)
    PROVE  TypeOK'
<1>14. EmbedderTypes
  BY DEF TypeOK, EmbedderTypes
<1>15. SUFFICES EmbedderTypes'
  <2>1. UNCHANGED <<lpc, thread_started, listener, starts, apc, acc, clients,
                    active_clients, spc, slot, peer, inbox, sent, ready, snap>>
    BY EmbedderFrame
  <2> QED
    BY <2>1 DEF TypeOK, EmbedderTypes
<1> USE ServerNumbers, <1>14 DEF EmbedderTypes
<1>1. ASSUME NEW t \in Tools, Register_tool(e, t)
      PROVE  EmbedderTypes'
  <2>1. tools' \in Seq(Tools \cup {"echo", "tail_log"})
    BY <1>1, RegistryType DEF Register_tool
  <2> QED
    BY <1>1, <2>1 DEF Register_tool, Changed
<1>2. ASSUME NEW t \in Tools, Unregister_tool(e, t)
      PROVE  EmbedderTypes'
  <2>1. PICK i \in 1..Len(tools) :
           tools' = SubSeq(tools, 1, i - 1) \o SubSeq(tools, i + 1, Len(tools))
    BY <1>2 DEF Unregister_tool
  <2>2. tools' \in Seq(Tools \cup {"echo", "tail_log"})
    BY <2>1, RegistryType, Zenon
  <2>3. Changed(e) /\ UNCHANGED app_id
    BY <1>2 DEF Unregister_tool
  <2>4. /\ ver' \in 0..MaxChanges
        /\ epc' \in [Embedders -> {"idle", "check", "lock", "scan", "header", "body"}]
        /\ UNCHANGED <<embFrame, at, conns_mutex, write_mutex, cst, told, lost, torn>>
    BY <2>3 DEF Changed
  <2> QED
    BY <2>2, <2>3, <2>4
<1>3. ASSUME NEW id \in AppIds, Set_app_id(e, id)
      PROVE  EmbedderTypes'
  BY <1>3 DEF Set_app_id, Changed
<1>4. CASE CheckStarted(e)
  BY <1>4 DEF CheckStarted, toolVars
<1>5. CASE LockConns(e)
  BY <1>5 DEF LockConns, toolVars
<1>6. CASE SkipSlot(e)
  <2>1. at[e] + 1 \in 0..MAX_CONNS + 1
    BY <1>6 DEF SkipSlot, Slots
  <2> QED
    BY <1>6, <2>1 DEF SkipSlot, toolVars
<1>7. CASE TryLockFails(e)
  <2>1. at[e] + 1 \in 0..MAX_CONNS + 1
    BY <1>7 DEF TryLockFails, Slots
  <2> QED
    BY <1>7, <2>1 DEF TryLockFails, toolVars
<1>8. CASE TryLock(e)
  BY <1>8 DEF TryLock, toolVars
<1>9. CASE NotifyHeader(e)
  BY <1>9 DEF NotifyHeader, toolVars
<1>10. ASSUME epc[e] \in Writing
       PROVE  at[e] + 1 \in 0..MAX_CONNS + 1
  <2>1. at[e] \in Slots
    BY <1>10 DEF MutexInv, Occupied
  <2> QED
    BY <2>1 DEF Slots
<1>11. CASE NotifyBody(e)
  <2>1. at[e] + 1 \in 0..MAX_CONNS + 1
    BY <1>10, <1>11 DEF NotifyBody, Writing
  <2> QED
    BY <1>11, <2>1 DEF NotifyBody, NextSlot, toolVars
<1>12. CASE NotifyFails(e)
  <2>1. at[e] + 1 \in 0..MAX_CONNS + 1
    BY <1>10, <1>12 DEF NotifyFails, Writing
  <2> QED
    BY <1>12, <2>1 DEF NotifyFails, NextSlot, toolVars
<1>13. CASE UnlockConns(e)
  BY <1>13 DEF UnlockConns, toolVars
<1> QED
  BY <1>1, <1>2, <1>3, <1>4, <1>5, <1>6, <1>7, <1>8, <1>9, <1>11, <1>12, <1>13, Zenon
  DEF EmbedderStep

\* The types of the variables that a peer changes.
PeerTypes ==
    /\ cst \in [Conns -> {"none", "backlog", "open", "aborted", "closed"}]
    /\ peer \in [Conns -> {"healthy", "hung", "gone"}]
    /\ inbox \in [Conns -> AllMethods \cup {NoRequest}]
    /\ sent \in [Conns -> 0..MaxRequests]
    /\ ready \in [Conns -> BOOLEAN] /\ told \in [Conns -> BOOLEAN]

\* Every step of a peer keeps the types.
LEMMA TypePeer ==
    ASSUME TypeOK, NEW c \in Conns, PeerStep(c)
    PROVE  TypeOK'
<1>5. PeerTypes
  BY DEF TypeOK, PeerTypes
<1>6. SUFFICES PeerTypes'
  <2>1. UNCHANGED <<lpc, thread_started, listener, starts, apc, acc, clients,
                    active_clients, conns_mutex, write_mutex, tools, app_id, ver, epc, at, spc,
                    slot, snap, lost, torn>>
    BY PeerFrame
  <2>2. ASSUME PeerTypes'
        PROVE  LifecycleTypes' /\ EmbedderTypes' /\ ServeTypes'
    <3>1. LifecycleTypes /\ EmbedderTypes /\ ServeTypes
      BY DEF TypeOK, LifecycleTypes, EmbedderTypes, ServeTypes
    <3>2. LifecycleTypes'
      BY <2>1, <2>2, <3>1 DEF LifecycleTypes, PeerTypes
    <3>3. EmbedderTypes'
      BY <2>1, <2>2, <3>1 DEF EmbedderTypes, PeerTypes
    <3>4. ServeTypes'
      BY <2>1, <2>2, <3>1 DEF ServeTypes, PeerTypes
    <3> QED
      BY <3>2, <3>3, <3>4
  <2>3. UNCHANGED <<acc, slot>>
    BY <2>1
  <2> QED
    BY <2>2, <2>3, Zenon DEF TypeOK, LifecycleTypes, EmbedderTypes, ServeTypes, PeerTypes
<1> USE ServerNumbers, <1>5 DEF PeerTypes, peerVars
<1>1. CASE Connect(c)
  BY <1>1 DEF Connect
<1>2. CASE Hang(c)
  BY <1>2 DEF Hang
<1>3. CASE Disconnect(c)
  BY <1>3 DEF Disconnect
<1>4. ASSUME NEW m \in Methods, Send(c, m)
      PROVE  PeerTypes'
  <2>1. inbox' \in [Conns -> AllMethods \cup {NoRequest}]
    BY <1>4, ServerAssumption DEF Send
  <2>2. sent' \in [Conns -> 0..MaxRequests]
    BY <1>4 DEF Send
  <2>3. told' \in [Conns -> BOOLEAN]
    <3>1. (told[c] /\ m # "tools/list") \in BOOLEAN
      OBVIOUS
    <3> QED
      BY <1>4, <3>1, Zenon DEF Send
  <2> QED
    BY <1>4, <2>1, <2>2, <2>3 DEF Send
<1> QED
  BY <1>1, <1>2, <1>3, <1>4, Zenon DEF PeerStep

(***************************************************************************)
(* The slot table                                                          *)
(***************************************************************************)
\* The slots are finitely many.
LEMMA OccupiedFinite == IsFiniteSet(Occupied) /\ Cardinality(Occupied) \in Nat
<1>1. IsFiniteSet(Slots) /\ Occupied \subseteq Slots
  BY ServerNumbers, FS_Interval DEF Occupied, Slots
<1> QED
  BY <1>1, FS_Subset, FS_CardinalityType, Zenon

\* The table is right as long as no connection enters or leaves a slot and no
\* serve thread starts or ends.
LEMMA SlotsKept ==
    ASSUME ActiveCountsSlots, UNCHANGED <<active_clients, slot>>,
           \A i \in Slots : clients'[i].conn = clients[i].conn,
           \A c \in Conns : spc'[c] \in Serving <=> spc[c] \in Serving,
           TypeOK
    PROVE  ActiveCountsSlots' /\ Occupied' = Occupied
<1>1. Occupied' = Occupied
  BY DEF Occupied
<1>2. active_clients' = Cardinality(Occupied)'
  BY <1>1 DEF ActiveCountsSlots
<1>3. \A i \in Occupied : clients[i].conn \in Conns /\ i \in Slots
  BY DEF TypeOK, Occupied
<1>4. (\A i \in Occupied : LET c == clients[i].conn IN slot[c] = i /\ spc[c] \in Serving)'
  BY <1>1, <1>3 DEF ActiveCountsSlots
<1>5. (\A c \in Conns : spc[c] \in Serving => slot[c] \in Slots /\ clients[slot[c]].conn = c)'
  BY DEF ActiveCountsSlots
<1> QED
  BY <1>1, <1>2, <1>4, <1>5 DEF ActiveCountsSlots

\* The accept thread puts the connection in the first free slot, whose old
\* tenant has gone.
LEMMA SlotsPlace ==
    ASSUME TypeOK, ActiveCountsSlots, ConnInv, PlaceClient
    PROVE  ActiveCountsSlots' /\ Occupied' = Occupied \cup {FirstFree}
<1> DEFINE f == FirstFree
<1>1. f \in Slots /\ f \notin Occupied
  BY FirstFreeIsFree DEF PlaceClient
<1>2. acc \in Conns /\ spc[acc] = "none" /\ acc # NoConn
  BY ServerAssumption DEF PlaceClient, ConnInv
<1>3. /\ clients' = [clients EXCEPT ![f] = [conn |-> acc, initialized |-> FALSE]]
      /\ spc' = [spc EXCEPT ![acc] = "read"] /\ slot' = [slot EXCEPT ![acc] = f]
      /\ active_clients' = active_clients + 1
  BY DEF PlaceClient
<1> HIDE DEF f
<1>4. /\ clients'[f].conn = acc /\ \A i \in Slots \ {f} : clients'[i] = clients[i]
      /\ spc'[acc] = "read" /\ \A c \in Conns \ {acc} : spc'[c] = spc[c]
      /\ slot'[acc] = f /\ \A c \in Conns \ {acc} : slot'[c] = slot[c]
  BY <1>1, <1>2, <1>3 DEF TypeOK
<1>5. Occupied' = Occupied \cup {f}
  BY <1>1, <1>2, <1>4 DEF Occupied
<1>6. active_clients' = Cardinality(Occupied)'
  BY <1>1, <1>3, <1>5, OccupiedFinite, FS_AddElement DEF ActiveCountsSlots
<1>7. \A i \in Occupied : clients[i].conn # acc /\ clients[i].conn \in Conns /\ i \in Slots
  <2>1. \A i \in Occupied : spc[clients[i].conn] # "none"
    BY DEF ActiveCountsSlots, Serving
  <2>2. \A i \in Occupied : clients[i].conn \in Conns /\ i \in Slots
    BY DEF TypeOK, Occupied
  <2> QED
    BY <1>2, <2>1, <2>2
<1>8. (\A i \in Occupied : LET c == clients[i].conn IN slot[c] = i /\ spc[c] \in Serving)'
  BY <1>1, <1>4, <1>5, <1>7 DEF ActiveCountsSlots, Serving
<1>9. (\A c \in Conns : spc[c] \in Serving => slot[c] \in Slots /\ clients[slot[c]].conn = c)'
  <2> SUFFICES ASSUME NEW c \in Conns, spc'[c] \in Serving, c # acc
               PROVE  slot'[c] \in Slots /\ clients'[slot'[c]].conn = c
    BY <1>1, <1>4
  <2>1. slot[c] \in Slots /\ clients[slot[c]].conn = c /\ slot[c] \in Occupied
    BY <1>4, ServerAssumption DEF ActiveCountsSlots, Occupied
  <2> QED
    BY <1>1, <1>4, <2>1
<1> QED
  BY <1>5, <1>6, <1>8, <1>9 DEF ActiveCountsSlots, f

\* A serve thread that leaves takes its connection, and only its own, out.
LEMMA SlotsUnwind ==
    ASSUME TypeOK, ActiveCountsSlots, NEW d \in Conns, Unwind(d)
    PROVE  /\ ActiveCountsSlots'
           /\ Occupied' = Occupied \ {slot[d]}
           /\ \A i \in Occupied \ {slot[d]} : clients[i].conn # d
<1> DEFINE f == slot[d]
<1>1. f \in Occupied /\ f \in Slots /\ clients[f].conn = d
  BY UnwindCounted DEF Unwind, Serving
<1>2. /\ clients' = [clients EXCEPT ![f] = FreeSlot] /\ slot' = slot
      /\ spc' = [spc EXCEPT ![d] = "closing"] /\ active_clients' = active_clients - 1
  BY DEF Unwind, unwindFrame
<1>3. /\ clients'[f].conn = NoConn /\ \A i \in Slots \ {f} : clients'[i] = clients[i]
      /\ spc'[d] = "closing" /\ \A c \in Conns \ {d} : spc'[c] = spc[c]
  BY <1>1, <1>2 DEF TypeOK, FreeSlot
<1>4. Occupied' = Occupied \ {f}
  BY <1>1, <1>3 DEF Occupied
<1>5. active_clients' = Cardinality(Occupied)'
  BY <1>1, <1>2, <1>4, OccupiedFinite, FS_RemoveElement DEF ActiveCountsSlots
<1>6. \A i \in Occupied \ {f} : clients[i].conn # d /\ clients[i].conn \in Conns /\ i \in Slots
  BY DEF ActiveCountsSlots, TypeOK, Occupied
<1>7. (\A i \in Occupied : LET c == clients[i].conn IN slot[c] = i /\ spc[c] \in Serving)'
  BY <1>2, <1>3, <1>4, <1>6 DEF ActiveCountsSlots
<1>8. (\A c \in Conns : spc[c] \in Serving => slot[c] \in Slots /\ clients[slot[c]].conn = c)'
  <2> SUFFICES ASSUME NEW c \in Conns, spc'[c] \in Serving
               PROVE  slot'[c] \in Slots /\ clients'[slot'[c]].conn = c
    OBVIOUS
  <2>1. c # d
    BY <1>3 DEF Serving
  <2>2. slot[c] \in Slots /\ clients[slot[c]].conn = c
    BY <1>3, <2>1 DEF ActiveCountsSlots
  <2> QED
    BY <1>1, <1>2, <1>3, <2>1, <2>2
<1> QED
  BY <1>4, <1>5, <1>6, <1>7, <1>8 DEF ActiveCountsSlots

\* What a serve thread does before it unwinds: it stays a serve thread, and
\* changes no connection.
LEMMA ServeInside ==
    ASSUME TypeOK, ActiveCountsSlots, NEW c \in Conns, ServeStep(c), ~Unwind(c), ~CloseConn(c)
    PROVE  /\ UNCHANGED <<lpc, active_clients, cst>>
           /\ spc[c] \in Serving /\ spc'[c] \in Serving
           /\ \A d \in Conns \ {c} : spc'[d] = spc[d]
           /\ \A i \in Slots : clients'[i].conn = clients[i].conn
<1> USE DEF serveFrame, lifeVars, TypeOK, Serving
<1>1. CASE ReadFails(c)
  BY <1>1 DEF ReadFails
<1>2. CASE HandleInitialize(c)
  BY <1>2 DEF HandleInitialize
<1>3. CASE HandleToolsList(c)
  BY <1>3 DEF HandleToolsList
<1>4. CASE HandleOther(c)
  BY <1>4 DEF HandleOther
<1>5. CASE HandleNotification(c)
  BY <1>5 DEF HandleNotification
<1>6. CASE \E t \in Tools : HandleToolsCall(c, t)
  BY <1>6 DEF HandleToolsCall
<1>7. CASE ToolReturns(c)
  BY <1>7 DEF ToolReturns
<1>8. CASE LockWrite(c)
  BY <1>8 DEF LockWrite
<1>9. CASE WriteHeader(c)
  BY <1>9 DEF WriteHeader
<1>10. CASE WriteBody(c)
  BY <1>10 DEF WriteBody
<1>11. CASE WriteFails(c)
  BY <1>11 DEF WriteFails
<1> QED
  BY <1>1, <1>2, <1>3, <1>4, <1>5, <1>6, <1>7, <1>8, <1>9, <1>10, <1>11, Zenon DEF ServeStep

\* No step spoils the table.
LEMMA SlotsStep ==
    ASSUME TypeOK, ActiveCountsSlots, ConnInv, [Next]_vars
    PROVE  ActiveCountsSlots'
<1>1. CASE LifecycleStep
  BY <1>1, LifecycleFrame, SlotsKept
<1>2. CASE AcceptStep
  <2>1. CASE PlaceClient
    BY <2>1, SlotsPlace
  <2>2. CASE ~PlaceClient
    <3>1. UNCHANGED <<clients, active_clients, spc, slot>>
      BY <1>2, <2>2 DEF AcceptStep, Accept, AcceptClosed, AcceptError, RejectClient, slotVars, serveVars
    <3> QED
      BY <3>1, SlotsKept
  <2> QED
    BY <2>1, <2>2
<1>3. ASSUME NEW c \in Conns, ServeStep(c)
      PROVE  ActiveCountsSlots'
  <2>1. CASE Unwind(c)
    BY <2>1, SlotsUnwind
  <2>2. CASE CloseConn(c)
    <3>1. UNCHANGED <<clients, active_clients, slot>> /\ spc' = [spc EXCEPT ![c] = "done"]
          /\ spc[c] = "closing"
      BY <2>2 DEF CloseConn, slotVars
    <3>2. \A d \in Conns : spc'[d] \in Serving <=> spc[d] \in Serving
      BY <3>1 DEF TypeOK, Serving
    <3> QED
      BY <3>1, <3>2, SlotsKept
  <2>3. CASE ~Unwind(c) /\ ~CloseConn(c)
    BY <1>3, <2>3, ServeInside, ServeFrame, SlotsKept
  <2> QED
    BY <2>1, <2>2, <2>3
<1>4. ASSUME NEW c \in Conns, PeerStep(c)
      PROVE  ActiveCountsSlots'
  BY <1>4, PeerFrame, SlotsKept
<1>5. ASSUME NEW e \in Embedders, EmbedderStep(e)
      PROVE  ActiveCountsSlots'
  BY <1>5, EmbedderFrame, SlotsKept
<1>6. CASE UNCHANGED vars
  BY <1>6, SlotsKept DEF vars, slotVars, serveVars
<1> QED
  BY <1>1, <1>2, <1>3, <1>4, <1>5, <1>6, Zenon DEF Next

(***************************************************************************)
(* The connections                                                         *)
(***************************************************************************)
\* What a step may do to a connection: it is queued, accepted, reset in the
\* queue, turned away, aborted while its serve thread runs, or closed by it.
ConnMove(c) ==
    \/ cst'[c] = cst[c]
    \/ cst[c] = "none" /\ cst'[c] = "backlog"
    \/ cst[c] = "backlog" /\ cst'[c] \in {"open", "closed"}
    \/ cst[c] = "open" /\ cst'[c] = "closed" /\ spc[c] = "none" /\ spc'[c] = "none"
    \/ cst'[c] = "aborted" /\ spc[c] \in Serving
    \/ cst'[c] = "closed" /\ spc[c] = "closing" /\ spc'[c] = "done"

\* What a step may do to a serve thread.
ThreadMove(c) ==
    \/ spc'[c] = spc[c]
    \/ spc[c] \in Serving /\ spc'[c] \in Serving
    \/ spc[c] = "unwind" /\ spc'[c] = "closing" /\ cst'[c] = cst[c]
    \/ spc[c] = "closing" /\ spc'[c] = "done" /\ cst'[c] = "closed"
    \/ spc[c] = "none" /\ spc'[c] = "read" /\ cst[c] = "open" /\ cst'[c] = "open"

\* What a step may do to the connection the accept thread holds.
AcceptMove ==
    apc' = "place" =>
        /\ acc' \in Conns /\ spc'[acc'] = spc[acc']
        /\ \/ cst[acc'] = "backlog" /\ cst'[acc'] = "open"
           \/ apc = "place" /\ acc' = acc /\ (cst'[acc] = cst[acc] \/ spc[acc] \in Serving)

\* Every step makes such moves.
LEMMA Moves ==
    ASSUME TypeOK, ActiveCountsSlots, ConnInv, MutexInv, [Next]_vars
    PROVE  AcceptMove /\ \A c \in Conns : ConnMove(c) /\ ThreadMove(c)
<1> USE DEF AcceptMove, ConnMove, ThreadMove
<1>1. \A i \in Slots : clients[i].conn \in Conns => spc[clients[i].conn] \in Serving
  BY ServerAssumption DEF ActiveCountsSlots, Occupied
<1>2. apc = "place" => acc \in Conns /\ spc[acc] = "none" /\ cst[acc] = "open"
  BY DEF ConnInv
<1>3. CASE LifecycleStep
  <2>1. UNCHANGED <<acc, spc>>
    BY <1>3, LifecycleFrame
  <2>2. CASE StopListening
    BY <1>2, <2>1, <2>2 DEF StopListening, acceptVars
  <2>3. CASE StopAbort
    <3>1. \A c \in Conns : cst'[c] = cst[c] \/ (cst'[c] = "aborted" /\ spc[c] \in Serving)
      BY <1>1, <2>3 DEF StopAbort
    <3> QED
      BY <1>2, <2>1, <2>3, <3>1 DEF StopAbort, acceptVars
  <2>4. CASE ~StopListening /\ ~StopAbort
    <3>1. cst' = cst /\ (apc' = "place" => apc = "place")
      BY <1>3, <2>4 DEF LifecycleStep, StartListening, StartFails, StartDone, StopJoin,
         StopSpurious, StopDrained, acceptVars
    <3> QED
      BY <1>2, <2>1, <3>1
  <2> QED
    BY <2>2, <2>3, <2>4
<1>4. CASE AcceptStep
  <2>1. ASSUME NEW c \in Conns, Accept(c)
        PROVE  AcceptMove /\ \A d \in Conns : ConnMove(d) /\ ThreadMove(d)
    BY <2>1 DEF Accept, serveVars, TypeOK
  <2>2. CASE AcceptClosed \/ AcceptError
    BY <2>2 DEF AcceptClosed, AcceptError, serveVars
  <2>3. CASE PlaceClient
    BY <1>2, <2>3 DEF PlaceClient, TypeOK
  <2>4. CASE RejectClient
    BY <1>2, <2>4 DEF RejectClient, serveVars, TypeOK
  <2> QED
    BY <1>4, <2>1, <2>2, <2>3, <2>4 DEF AcceptStep
<1>5. ASSUME NEW c \in Conns, ServeStep(c)
      PROVE  AcceptMove /\ \A d \in Conns : ConnMove(d) /\ ThreadMove(d)
  <2>1. UNCHANGED <<apc, acc>>
    BY <1>5, ServeFrame
  <2>2. CASE Unwind(c)
    BY <1>2, <2>1, <2>2 DEF Unwind, unwindFrame, TypeOK, Serving
  <2>3. CASE CloseConn(c)
    BY <1>2, <2>1, <2>3 DEF CloseConn, TypeOK
  <2>4. CASE ~Unwind(c) /\ ~CloseConn(c)
    <3>1. /\ cst' = cst /\ spc[c] \in Serving /\ spc'[c] \in Serving
          /\ \A d \in Conns \ {c} : spc'[d] = spc[d]
      BY <1>5, <2>4, ServeInside
    <3> QED
      BY <1>2, <2>1, <3>1 DEF Serving
  <2> QED
    BY <2>2, <2>3, <2>4
<1>6. ASSUME NEW c \in Conns, PeerStep(c)
      PROVE  AcceptMove /\ \A d \in Conns : ConnMove(d) /\ ThreadMove(d)
  <2>1. UNCHANGED <<apc, acc, spc>>
    BY <1>6, PeerFrame
  <2>2. cst' = cst \/ (cst[c] = "none" /\ cst' = [cst EXCEPT ![c] = "backlog"])
    BY <1>6 DEF PeerStep, Connect, Send, Hang, Disconnect
  <2> QED
    BY <1>2, <2>1, <2>2 DEF TypeOK
<1>7. ASSUME NEW e \in Embedders, EmbedderStep(e)
      PROVE  AcceptMove /\ \A d \in Conns : ConnMove(d) /\ ThreadMove(d)
  <2>1. UNCHANGED <<apc, acc, spc>>
    BY <1>7, EmbedderFrame
  <2>2. CASE NotifyFails(e)
    <3> DEFINE c == clients[at[e]].conn
    <3>1. at[e] \in Occupied
      BY <2>2 DEF NotifyFails, MutexInv, Writing
    <3>2. c \in Conns /\ spc[c] \in Serving
      BY <3>1 DEF ActiveCountsSlots, Occupied, TypeOK
    <3>3. cst' = [cst EXCEPT ![c] = "aborted"]
      BY <2>2 DEF NotifyFails
    <3> HIDE DEF c
    <3> QED
      BY <1>2, <2>1, <3>2, <3>3 DEF TypeOK
  <2>3. CASE ~NotifyFails(e)
    <3>1. cst' = cst
      BY <1>7, <2>3, Zenon DEF EmbedderStep, Register_tool, Unregister_tool, Set_app_id, Changed,
         CheckStarted, LockConns, SkipSlot, TryLockFails, TryLock, NotifyHeader, NotifyBody,
         UnlockConns
    <3> QED
      BY <1>2, <2>1, <3>1
  <2> QED
    BY <2>2, <2>3
<1>8. CASE UNCHANGED vars
  BY <1>2, <1>8 DEF vars, acceptVars, serveVars
<1> QED
  BY <1>3, <1>4, <1>5, <1>6, <1>7, <1>8, Zenon DEF Next

\* No step leaves a serve thread with a freed connection.
LEMMA ConnStep ==
    ASSUME TypeOK, ActiveCountsSlots, ConnInv, MutexInv, [Next]_vars
    PROVE  ConnInv'
<1>1. AcceptMove /\ \A c \in Conns : ConnMove(c) /\ ThreadMove(c)
  BY Moves
<1>2. \A c \in Conns : spc[c] \in {"none", "closing", "done"} \cup Serving
  BY DEF TypeOK
<1>3. ASSUME NEW c \in Conns
      PROVE  /\ spc'[c] \in Serving \cup {"closing"} => cst'[c] \in Connected
             /\ spc'[c] = "done" => cst'[c] = "closed"
  BY <1>1, <1>2 DEF ConnInv, ConnMove, ThreadMove, Serving, Connected
<1>4. apc' = "place" => acc' \in Conns /\ spc'[acc'] = "none" /\ cst'[acc'] = "open"
  BY <1>1, <1>2 DEF ConnInv, AcceptMove, Serving, Connected
<1> QED
  BY <1>3, <1>4 DEF ConnInv

(***************************************************************************)
(* The mutexes                                                             *)
(***************************************************************************)
\* Two serve threads have two slots.
LEMMA SlotsDistinct ==
    ASSUME ActiveCountsSlots
    PROVE  \A c, d \in Conns : spc[c] \in Serving /\ spc[d] \in Serving /\ slot[c] = slot[d] => c = d
  BY DEF ActiveCountsSlots

\* Two broadcasters do not sweep at once.
LEMMA OneSweeper ==
    ASSUME MutexInv
    PROVE  \A e, f \in Embedders : epc[e] \in Sweeping /\ epc[f] \in Sweeping => e = f
  BY DEF MutexInv

\* The mutexes are unaffected by a step that leaves them and their users alone.
LEMMA MutexKept ==
    ASSUME MutexInv, UNCHANGED <<epc, at, conns_mutex, write_mutex>>, Occupied \subseteq Occupied',
           \A c \in Conns : spc'[c] \in Writing => spc[c] \in Writing /\ slot'[c] = slot[c]
    PROVE  MutexInv'
  BY DEF MutexInv

\* A serve thread takes and returns the write_mutex of its own slot only.
LEMMA MutexServe ==
    ASSUME TypeOK, ActiveCountsSlots, MutexInv, NEW c \in Conns, ServeStep(c)
    PROVE  MutexInv'
<1>1. UNCHANGED <<epc, at, conns_mutex, slot>>
  BY ServeFrame
<1>2. \A d \in Conns : spc[d] \in Writing => d = c \/ slot[d] # slot[c] \/ spc[c] \notin Serving
  BY SlotsDistinct DEF Writing, Serving
<1>3. CASE Unwind(c)
  <2>1. \A e \in Embedders : epc[e] \notin Sweeping
    BY <1>3, ServerAssumption DEF Unwind, MutexInv
  <2>2. UNCHANGED write_mutex /\ \A d \in Conns : spc'[d] \in Writing => spc[d] \in Writing
    BY <1>3 DEF Unwind, unwindFrame, TypeOK, Writing
  <2> QED
    BY <1>1, <2>1, <2>2 DEF MutexInv, Sweeping
<1>4. CASE CloseConn(c)
  <2>1. UNCHANGED <<clients, write_mutex>> /\ \A d \in Conns : spc'[d] \in Writing => spc[d] \in Writing
    BY <1>4 DEF CloseConn, slotVars, TypeOK, Writing
  <2> QED
    BY <1>1, <2>1, MutexKept DEF Occupied
<1>5. CASE ~Unwind(c) /\ ~CloseConn(c)
  <2>1. /\ spc[c] \in Serving /\ Occupied' = Occupied
        /\ \A d \in Conns \ {c} : spc'[d] = spc[d]
    BY <1>5, ServeInside DEF Occupied
  <2>2. slot[c] \in Slots
    BY <2>1 DEF ActiveCountsSlots
  <2>3. CASE LockWrite(c)
    <3>1. /\ write_mutex[slot[c]] = "free" /\ write_mutex'[slot[c]] = "serve"
          /\ \A i \in Slots \ {slot[c]} : write_mutex'[i] = write_mutex[i]
      BY <2>2, <2>3 DEF LockWrite, TypeOK
    <3>2. \A e \in Embedders : epc[e] \in Writing => at[e] \in Slots \ {slot[c]}
      BY <3>1 DEF MutexInv, Occupied
    <3>3. \A d \in Conns : spc[d] \in Writing => slot[d] \in Slots
      BY DEF ActiveCountsSlots, Writing, Serving
    <3> QED
      BY <1>1, <1>2, <2>1, <3>1, <3>2, <3>3 DEF MutexInv
  <2>4. CASE WriteBody(c) \/ WriteFails(c)
    <3>1. /\ spc[c] \in Writing /\ spc'[c] \notin Writing
          /\ \A i \in Slots \ {slot[c]} : write_mutex'[i] = write_mutex[i]
      BY <2>2, <2>4 DEF WriteBody, WriteFails, TypeOK, Writing
    <3>2. \A e \in Embedders : epc[e] \in Writing => at[e] \in Slots \ {slot[c]}
      BY <3>1 DEF MutexInv, Occupied
    <3>3. \A d \in Conns : spc[d] \in Writing => slot[d] \in Slots
      BY DEF ActiveCountsSlots, Writing, Serving
    <3> QED
      BY <1>1, <1>2, <2>1, <3>1, <3>2, <3>3 DEF MutexInv
  <2>5. CASE ~LockWrite(c) /\ ~WriteBody(c) /\ ~WriteFails(c)
    <3>1. UNCHANGED write_mutex /\ (spc'[c] \in Writing => spc[c] \in Writing)
      <4> USE DEF TypeOK, Writing
      <4>1. CASE ReadFails(c)
        BY <4>1 DEF ReadFails
      <4>2. CASE HandleInitialize(c)
        BY <4>2 DEF HandleInitialize
      <4>3. CASE HandleToolsList(c)
        BY <4>3 DEF HandleToolsList
      <4>4. CASE HandleOther(c)
        BY <4>4 DEF HandleOther
      <4>5. CASE HandleNotification(c)
        BY <4>5 DEF HandleNotification
      <4>6. CASE \E t \in Tools : HandleToolsCall(c, t)
        BY <4>6 DEF HandleToolsCall
      <4>7. CASE ToolReturns(c)
        BY <4>7 DEF ToolReturns
      <4>8. CASE WriteHeader(c)
        BY <4>8 DEF WriteHeader
      <4> QED
        BY <1>5, <2>5, <4>1, <4>2, <4>3, <4>4, <4>5, <4>6, <4>7, <4>8, Zenon DEF ServeStep
    <3> QED
      BY <1>1, <2>1, <3>1, MutexKept
  <2> QED
    BY <2>3, <2>4, <2>5
<1> QED
  BY <1>3, <1>4, <1>5

\* A broadcaster takes a write_mutex only when it is free, returns the one it
\* has taken, and has conns_mutex from its first slot to its last.
LEMMA MutexEmbedder ==
    ASSUME TypeOK, ActiveCountsSlots, MutexInv, NEW e \in Embedders, EmbedderStep(e)
    PROVE  MutexInv'
<1>1. UNCHANGED <<spc, slot, clients>> /\ Occupied' = Occupied
  BY EmbedderFrame DEF Occupied
<1>2. \A d \in Conns : spc[d] \in Writing => slot[d] \in Slots
  BY DEF ActiveCountsSlots, Writing, Serving
<1>3. \A f \in Embedders : epc[f] \in Sweeping => f = e \/ epc[e] \notin Sweeping
  BY OneSweeper
<1> USE DEF Sweeping, Writing
<1>4. ASSUME Changed(e)
      PROVE  MutexInv'
  <2>1. /\ UNCHANGED <<at, conns_mutex, write_mutex>> /\ epc[e] = "idle"
        /\ epc'[e] = "check" /\ \A f \in Embedders \ {e} : epc'[f] = epc[f]
    BY <1>4 DEF Changed, TypeOK
  <2> QED
    BY <1>1, <2>1 DEF MutexInv
<1>5. CASE CheckStarted(e)
  <2>1. /\ UNCHANGED <<at, conns_mutex, write_mutex>> /\ epc[e] = "check"
        /\ epc'[e] \in {"lock", "idle"} /\ \A f \in Embedders \ {e} : epc'[f] = epc[f]
    BY <1>5 DEF CheckStarted, TypeOK
  <2> QED
    BY <1>1, <2>1 DEF MutexInv
<1>6. CASE LockConns(e)
  <2>1. /\ UNCHANGED write_mutex /\ conns_mutex = NoOwner /\ conns_mutex' = e /\ at'[e] = 1
        /\ epc'[e] = "scan" /\ \A f \in Embedders \ {e} : epc'[f] = epc[f] /\ at'[f] = at[f]
    BY <1>6 DEF LockConns, TypeOK
  <2> QED
    BY <1>1, <2>1, ServerAssumption DEF MutexInv
<1>7. CASE SkipSlot(e) \/ TryLockFails(e)
  <2>1. /\ UNCHANGED <<epc, conns_mutex, write_mutex>> /\ epc[e] = "scan" /\ at[e] \in Slots
        /\ at'[e] = at[e] + 1 /\ \A f \in Embedders \ {e} : at'[f] = at[f]
    BY <1>7 DEF SkipSlot, TryLockFails, TypeOK
  <2>2. at[e] + 1 \in 1..MAX_CONNS + 1
    BY <2>1, ServerNumbers DEF Slots
  <2> QED
    BY <1>1, <2>1, <2>2 DEF MutexInv
<1>8. CASE TryLock(e)
  <2>1. /\ UNCHANGED <<at, conns_mutex>> /\ epc[e] = "scan" /\ at[e] \in Occupied
        /\ epc'[e] = "header" /\ \A f \in Embedders \ {e} : epc'[f] = epc[f]
        /\ write_mutex[at[e]] = "free" /\ write_mutex'[at[e]] = "notify"
        /\ \A i \in Slots \ {at[e]} : write_mutex'[i] = write_mutex[i]
    BY <1>8 DEF TryLock, TypeOK, Eligible, Occupied
  <2> QED
    BY <1>1, <1>2, <1>3, <2>1 DEF MutexInv
<1>9. CASE NotifyHeader(e)
  <2>1. /\ UNCHANGED <<at, conns_mutex, write_mutex>> /\ epc[e] = "header"
        /\ epc'[e] = "body" /\ \A f \in Embedders \ {e} : epc'[f] = epc[f]
    BY <1>9 DEF NotifyHeader, TypeOK
  <2> QED
    BY <1>1, <2>1 DEF MutexInv
<1>10. CASE NotifyBody(e) \/ NotifyFails(e)
  <2>1. epc[e] \in Writing /\ NextSlot(e) /\ UNCHANGED conns_mutex
    BY <1>10 DEF NotifyBody, NotifyFails
  <2>2. at[e] \in Slots /\ write_mutex[at[e]] = "notify"
    BY <2>1 DEF MutexInv, Occupied
  <2>3. /\ epc'[e] = "scan" /\ at'[e] = at[e] + 1
        /\ \A f \in Embedders \ {e} : epc'[f] = epc[f] /\ at'[f] = at[f]
        /\ \A i \in Slots \ {at[e]} : write_mutex'[i] = write_mutex[i]
    BY <2>1, <2>2 DEF NextSlot, TypeOK
  <2>4. at[e] + 1 \in 1..MAX_CONNS + 1
    BY <2>2, ServerNumbers DEF Slots
  <2> QED
    BY <1>1, <1>2, <1>3, <2>1, <2>2, <2>3, <2>4 DEF MutexInv
<1>11. CASE UnlockConns(e)
  <2>1. /\ UNCHANGED write_mutex /\ epc[e] = "scan" /\ conns_mutex' = NoOwner /\ epc'[e] = "idle"
        /\ \A f \in Embedders \ {e} : epc'[f] = epc[f] /\ at'[f] = at[f]
    BY <1>11 DEF UnlockConns, TypeOK
  <2> QED
    BY <1>1, <1>3, <2>1, ServerAssumption DEF MutexInv
<1> QED
  BY <1>4, <1>5, <1>6, <1>7, <1>8, <1>9, <1>10, <1>11, Zenon
  DEF EmbedderStep, Register_tool, Unregister_tool, Set_app_id

\* No step leaves a mutex with a holder that is not using it, or a user
\* without it.
LEMMA MutexStep ==
    ASSUME TypeOK, ActiveCountsSlots, ConnInv, MutexInv, [Next]_vars
    PROVE  MutexInv'
<1>1. CASE LifecycleStep
  BY <1>1, LifecycleFrame, MutexKept DEF Occupied
<1>2. CASE AcceptStep
  <2>1. UNCHANGED <<epc, at, conns_mutex, write_mutex>>
    BY <1>2, AcceptFrame
  <2>2. CASE PlaceClient
    <3>1. Occupied \subseteq Occupied'
      BY <2>2, SlotsPlace
    <3>2. \A c \in Conns : spc'[c] \in Writing => spc[c] \in Writing /\ slot'[c] = slot[c]
      BY <2>2 DEF PlaceClient, TypeOK, Writing
    <3> QED
      BY <2>1, <3>1, <3>2, MutexKept
  <2>3. CASE ~PlaceClient
    <3>1. UNCHANGED <<clients, spc, slot>>
      BY <1>2, <2>3 DEF AcceptStep, Accept, AcceptClosed, AcceptError, RejectClient, slotVars, serveVars
    <3> QED
      BY <2>1, <3>1, MutexKept DEF Occupied
  <2> QED
    BY <2>2, <2>3
<1>3. ASSUME NEW c \in Conns, PeerStep(c)
      PROVE  MutexInv'
  BY <1>3, PeerFrame, MutexKept DEF Occupied
<1>4. CASE UNCHANGED vars
  BY <1>4, MutexKept DEF vars, slotVars, embVars, serveVars, Occupied
<1> QED
  BY <1>1, <1>2, <1>3, <1>4, MutexServe, MutexEmbedder, Zenon DEF Next

(***************************************************************************)
(* The life cycle                                                          *)
(***************************************************************************)
\* No step leaves a thread, a listener or a client behind a stopped server.
LEMMA LifeStep ==
    ASSUME TypeOK, ActiveCountsSlots, ConnInv, LifeInv, [Next]_vars
    PROVE  LifeInv'
<1>1. active_clients = 0 => Occupied = {}
  BY OccupiedFinite, FS_EmptySet DEF ActiveCountsSlots
<1>2. CASE LifecycleStep
  <2>1. Occupied' = Occupied
    BY <1>2, LifecycleFrame DEF Occupied
  <2>2. CASE StopAbort \/ StopDrained
    <3>1. /\ lpc \in {"aborting", "drained"} /\ UNCHANGED <<listener, apc>>
          /\ lpc' = IF active_clients = 0 THEN "stopped" ELSE "draining"
          /\ thread_started' = (active_clients # 0)
      BY <2>2 DEF StopAbort, StopDrained, acceptVars
    <3>2. CASE active_clients = 0
      <4>1. lpc' = "stopped" /\ ~thread_started'
        BY <3>1, <3>2
      <4> QED
        BY <1>1, <2>1, <3>1, <3>2, <4>1 DEF LifeInv
    <3>3. CASE active_clients # 0
      BY <3>1, <3>3 DEF LifeInv
    <3> QED
      BY <3>2, <3>3
  <2>3. CASE StartListening
    BY <2>1, <2>3 DEF StartListening, LifeInv
  <2>4. CASE StartFails
    BY <2>1, <2>4 DEF StartFails, acceptVars, LifeInv
  <2>5. CASE StartDone
    BY <2>1, <2>5 DEF StartDone, acceptVars, LifeInv
  <2>6. CASE StopListening
    BY <2>1, <2>6 DEF StopListening, acceptVars, LifeInv
  <2>7. CASE StopJoin
    BY <2>1, <2>7 DEF StopJoin, LifeInv
  <2>8. CASE StopSpurious
    BY <2>1, <2>8 DEF StopSpurious, acceptVars, LifeInv
  <2> QED
    BY <1>2, <2>2, <2>3, <2>4, <2>5, <2>6, <2>7, <2>8, Zenon DEF LifecycleStep
<1>3. CASE AcceptStep
  <2>1. UNCHANGED <<lpc, thread_started, listener>>
    BY <1>3, AcceptFrame
  <2>2. apc # "none"
    BY <1>3 DEF AcceptStep, Accept, AcceptClosed, AcceptError, PlaceClient, RejectClient
  <2> QED
    BY <2>1, <2>2 DEF LifeInv
<1>4. ASSUME NEW c \in Conns, ServeStep(c)
      PROVE  LifeInv'
  <2>1. UNCHANGED <<thread_started, listener, apc>>
    BY <1>4, ServeFrame
  <2>2. CASE Unwind(c)
    <3>1. slot[c] \in Occupied
      BY <2>2, UnwindCounted DEF Unwind, Serving
    <3>2. lpc' = lpc \/ (lpc = "draining" /\ lpc' = "drained")
      BY <2>2 DEF Unwind, DrainSignal
    <3> QED
      BY <2>1, <3>1, <3>2 DEF LifeInv
  <2>3. CASE ~Unwind(c)
    <3>1. CASE CloseConn(c)
      BY <2>1, <3>1 DEF CloseConn, lifeVars, slotVars, Occupied, LifeInv
    <3>2. CASE ~CloseConn(c)
      <4>1. lpc' = lpc /\ Occupied' = Occupied
        BY <1>4, <2>3, <3>2, ServeInside DEF Occupied
      <4> QED
        BY <2>1, <4>1 DEF LifeInv
    <3> QED
      BY <3>1, <3>2
  <2> QED
    BY <2>2, <2>3
<1>5. ASSUME NEW c \in Conns, PeerStep(c)
      PROVE  LifeInv'
  BY <1>5, PeerFrame DEF LifeInv, Occupied
<1>6. ASSUME NEW e \in Embedders, EmbedderStep(e)
      PROVE  LifeInv'
  BY <1>6, EmbedderFrame DEF LifeInv, Occupied
<1>7. CASE UNCHANGED vars
  BY <1>7 DEF vars, lifeVars, acceptVars, slotVars, LifeInv, Occupied
<1> QED
  BY <1>2, <1>3, <1>4, <1>5, <1>6, <1>7, Zenon DEF Next

(***************************************************************************)
(* Frames that were cut short                                              *)
(***************************************************************************)
\* A peer that has gone does not come back.
LEMMA GoneStays ==
    ASSUME TypeOK, [Next]_vars
    PROVE  \A c \in Conns : peer[c] = "gone" => peer'[c] = "gone"
<1>1. ASSUME NEW c \in Conns, PeerStep(c)
      PROVE  \A d \in Conns : peer[d] = "gone" => peer'[d] = "gone"
  BY <1>1 DEF PeerStep, Connect, Send, Hang, Disconnect, peerVars, TypeOK
<1>2. CASE UNCHANGED vars
  BY <1>2 DEF vars, peerVars
<1> QED
  BY <1>1, <1>2, LifecycleFrame, AcceptFrame, ServeFrame, EmbedderFrame, Zenon DEF Next

\* A frame is cut short by an abort or by a peer that has gone.
LEMMA TornBy ==
    ASSUME TypeOK, MutexInv, [Next]_vars
    PROVE  \A c \in Conns : torn'[c] => torn[c] \/ Dead(c) \/ cst'[c] = "aborted"
<1>1. CASE LifecycleStep
  BY <1>1, LifecycleFrame
<1>2. CASE AcceptStep
  BY <1>2, AcceptFrame
<1>3. ASSUME NEW c \in Conns, ServeStep(c)
      PROVE  \A d \in Conns : torn'[d] => torn[d] \/ Dead(d)
  <2>1. CASE WriteFails(c)
    BY <2>1 DEF WriteFails, TypeOK
  <2>2. CASE ~WriteFails(c)
    <3>1. UNCHANGED torn
      BY <1>3, <2>2, Zenon DEF ServeStep, ReadFails, HandleInitialize, HandleToolsList, HandleOther,
         HandleNotification, HandleToolsCall, ToolReturns, LockWrite, WriteHeader, WriteBody,
         Unwind, CloseConn, unwindFrame, histVars
    <3> QED
      BY <3>1
  <2> QED
    BY <2>1, <2>2
<1>4. ASSUME NEW c \in Conns, PeerStep(c)
      PROVE  UNCHANGED torn
  BY <1>4, PeerFrame
<1>5. ASSUME NEW e \in Embedders, EmbedderStep(e)
      PROVE  \A d \in Conns : torn'[d] => torn[d] \/ cst'[d] = "aborted"
  <2>1. CASE NotifyFails(e)
    BY <2>1 DEF NotifyFails, TypeOK
  <2>2. CASE ~NotifyFails(e)
    <3>1. UNCHANGED torn
      BY <1>5, <2>2, Zenon DEF EmbedderStep, Register_tool, Unregister_tool, Set_app_id, Changed,
         CheckStarted, LockConns, SkipSlot, TryLockFails, TryLock, NotifyHeader, NotifyBody,
         UnlockConns
    <3> QED
      BY <3>1
  <2> QED
    BY <2>1, <2>2
<1>6. CASE UNCHANGED vars
  BY <1>6 DEF vars, histVars
<1> QED
  BY <1>1, <1>2, <1>3, <1>4, <1>5, <1>6, Zenon DEF Next

\* No step revives a connection with half a frame on it.
LEMMA TornStep ==
    ASSUME TypeOK, ActiveCountsSlots, ConnInv, MutexInv, TornInv, [Next]_vars
    PROVE  TornInv'
<1> SUFFICES ASSUME NEW c \in Conns, torn'[c]
             PROVE  Dead(c)' \/ cst'[c] = "closed"
  BY DEF TornInv
<1>1. ConnMove(c) /\ (peer[c] = "gone" => peer'[c] = "gone")
  BY Moves, GoneStays
<1>2. torn[c] \/ Dead(c) \/ cst'[c] = "aborted"
  BY TornBy
<1>3. Dead(c) \/ cst[c] = "closed" \/ cst'[c] = "aborted"
  BY <1>2 DEF TornInv
<1> QED
  BY <1>1, <1>3 DEF Dead, ConnMove

(***************************************************************************)
(* Requests                                                                *)
(***************************************************************************)
\* A serve thread leaves the other clients alone.
LEMMA ServeOthers ==
    ASSUME TypeOK, ActiveCountsSlots, NEW c \in Conns, ServeStep(c), NEW d \in Conns \ {c}
    PROVE  /\ spc'[d] = spc[d] /\ cst'[d] = cst[d] /\ inbox'[d] = inbox[d] /\ ready'[d] = ready[d]
           /\ snap'[d] = snap[d] /\ told'[d] = told[d]
           /\ spc[c] \in Serving /\ spc[d] \in Serving => clients'[slot[d]] = clients[slot[d]]
           /\ spc[c] \notin Serving => clients' = clients
<1>1. spc[c] \in Serving /\ spc[d] \in Serving =>
          slot[c] \in Slots /\ slot[d] \in Slots /\ slot[c] # slot[d]
  BY SlotsDistinct DEF ActiveCountsSlots
<1> USE <1>1 DEF TypeOK, serveFrame, Serving
<1>2. CASE ReadFails(c)
  BY <1>2 DEF ReadFails
<1>3. CASE HandleInitialize(c)
  BY <1>3 DEF HandleInitialize
<1>4. CASE HandleToolsList(c)
  BY <1>4 DEF HandleToolsList
<1>5. CASE HandleOther(c)
  BY <1>5 DEF HandleOther
<1>6. CASE HandleNotification(c)
  BY <1>6 DEF HandleNotification
<1>7. CASE \E t \in Tools : HandleToolsCall(c, t)
  BY <1>7 DEF HandleToolsCall
<1>8. CASE ToolReturns(c)
  BY <1>8 DEF ToolReturns
<1>9. CASE LockWrite(c)
  BY <1>9 DEF LockWrite
<1>10. CASE WriteHeader(c)
  BY <1>10 DEF WriteHeader
<1>11. CASE WriteBody(c)
  BY <1>11 DEF WriteBody
<1>12. CASE WriteFails(c)
  BY <1>12 DEF WriteFails
<1>13. CASE Unwind(c)
  BY <1>13 DEF Unwind, unwindFrame, peerVars, histVars
<1>14. CASE CloseConn(c)
  BY <1>14 DEF CloseConn, slotVars, peerVars, histVars
<1> QED
  BY <1>2, <1>3, <1>4, <1>5, <1>6, <1>7, <1>8, <1>9, <1>10, <1>11, <1>12, <1>13, <1>14, Zenon
  DEF ServeStep

\* A connection whose serve thread is unwinding stays dead until it is closed.
LEMMA DeadStays ==
    ASSUME TypeOK, ActiveCountsSlots, ConnInv, MutexInv, [Next]_vars, NEW c \in Conns, Dead(c)
    PROVE  spc'[c] \in {"unwind", "closing"} => Dead(c)'
<1>1. ConnMove(c) /\ (peer[c] = "gone" => peer'[c] = "gone")
  BY Moves, GoneStays
<1> QED
  BY <1>1 DEF ConnMove, Dead

\* The state of a request is kept by a step that leaves it alone.
LEMMA RequestKept ==
    ASSUME NEW c \in Conns, RequestOf(c),
           spc'[c] = spc[c], inbox'[c] = inbox[c], ready'[c] = ready[c], snap'[c] = snap[c],
           spc[c] \in Serving => clients'[slot'[c]].initialized = clients[slot[c]].initialized,
           Dead(c) => (spc'[c] \in {"unwind", "closing"} => Dead(c)')
    PROVE  RequestOf(c)'
  BY DEF RequestOf

\* A serve thread takes its own request through its states.
LEMMA RequestServe ==
    ASSUME TypeOK, ActiveCountsSlots, NEW c \in Conns, RequestOf(c), ServeStep(c),
           Dead(c) => (spc'[c] \in {"unwind", "closing"} => Dead(c)')
    PROVE  RequestOf(c)'
<1>1. slot' = slot
  BY ServeFrame
<1>2. spc[c] \in Serving => slot[c] \in Slots
  BY DEF ActiveCountsSlots
<1> USE <1>1, <1>2 DEF TypeOK, RequestOf, Handled, Serving, NoRequest
<1>3. CASE ReadFails(c)
  BY <1>3 DEF ReadFails
<1>4. CASE HandleInitialize(c)
  <2>1. clients'[slot[c]].initialized
    BY <1>4 DEF HandleInitialize
  <2> QED
    BY <1>4, <2>1 DEF HandleInitialize
<1>5. CASE HandleToolsList(c)
  BY <1>5 DEF HandleToolsList
<1>6. CASE HandleOther(c)
  BY <1>6 DEF HandleOther
<1>7. CASE HandleNotification(c)
  BY <1>7 DEF HandleNotification
<1>8. CASE \E t \in Tools : HandleToolsCall(c, t)
  BY <1>8 DEF HandleToolsCall
<1>9. CASE ToolReturns(c)
  BY <1>9 DEF ToolReturns
<1>10. CASE LockWrite(c)
  BY <1>10 DEF LockWrite
<1>11. CASE WriteHeader(c)
  BY <1>11 DEF WriteHeader
<1>12. CASE WriteBody(c)
  <2>1. /\ spc[c] = "body" /\ spc'[c] = "read" /\ inbox'[c] = NoRequest
        /\ UNCHANGED <<clients, snap>>
    BY <1>12 DEF WriteBody
  <2>2. ready'[c] = (ready[c] \/ inbox[c] = "initialize")
    BY <1>12 DEF WriteBody
  <2>3. ready'[c] => clients[slot[c]].initialized
    BY <2>1, <2>2
  <2>4. snap[c] # -1 => ready'[c]
    BY <2>2
  <2> QED
    BY <2>1, <2>3, <2>4
<1>13. CASE WriteFails(c)
  BY <1>13 DEF WriteFails
<1>14. CASE Unwind(c)
  BY <1>14 DEF Unwind, unwindFrame, peerVars, histVars
<1>15. CASE CloseConn(c)
  BY <1>15 DEF CloseConn, peerVars, histVars
<1> QED
  BY <1>3, <1>4, <1>5, <1>6, <1>7, <1>8, <1>9, <1>10, <1>11, <1>12, <1>13, <1>14, <1>15, Zenon
  DEF ServeStep

\* No step takes a request out of turn.
LEMMA RequestStep ==
    ASSUME TypeOK, ActiveCountsSlots, ConnInv, MutexInv, RequestInv, [Next]_vars
    PROVE  RequestInv'
<1> SUFFICES ASSUME NEW c \in Conns
             PROVE  RequestOf(c)'
  BY DEF RequestInv
<1>1. RequestOf(c)
  BY DEF RequestInv
<1>2. Dead(c) => (spc'[c] \in {"unwind", "closing"} => Dead(c)')
  BY DeadStays
<1>3. CASE LifecycleStep
  BY <1>1, <1>2, <1>3, LifecycleFrame, RequestKept
<1>4. CASE AcceptStep
  <2>1. UNCHANGED <<inbox, ready, snap, peer>>
    BY <1>4, AcceptFrame
  <2>2. CASE PlaceClient /\ acc = c
    <3>1. spc[c] = "none" /\ spc'[c] = "read"
      BY <2>2 DEF PlaceClient, ConnInv, TypeOK
    <3> QED
      BY <1>1, <2>1, <3>1 DEF RequestOf, Handled
  <2>3. CASE PlaceClient /\ acc # c
    <3>1. FirstFree \notin Occupied
      BY <2>3, FirstFreeIsFree DEF PlaceClient
    <3>2. spc[c] \in Serving => slot[c] \in Occupied /\ slot[c] \in Slots
      BY UnwindCounted
    <3>3. spc'[c] = spc[c] /\ slot'[c] = slot[c]
      BY <2>3 DEF PlaceClient, TypeOK
    <3>4. spc[c] \in Serving => clients'[slot[c]] = clients[slot[c]]
      BY <2>3, <3>1, <3>2 DEF PlaceClient, TypeOK
    <3> QED
      BY <1>1, <1>2, <2>1, <3>3, <3>4, RequestKept
  <2>4. CASE ~PlaceClient
    <3>1. UNCHANGED <<clients, spc, slot>>
      BY <1>4, <2>4 DEF AcceptStep, Accept, AcceptClosed, AcceptError, RejectClient, slotVars, serveVars
    <3> QED
      BY <1>1, <1>2, <2>1, <3>1, RequestKept
  <2> QED
    BY <2>2, <2>3, <2>4
<1>5. ASSUME NEW d \in Conns, ServeStep(d)
      PROVE  RequestOf(c)'
  <2>1. CASE d = c
    BY <1>1, <1>2, <1>5, <2>1, RequestServe
  <2>2. CASE d # c
    <3>1. UNCHANGED slot
      BY <1>5, ServeFrame
    <3>2. /\ spc'[c] = spc[c] /\ inbox'[c] = inbox[c] /\ ready'[c] = ready[c] /\ snap'[c] = snap[c]
          /\ spc[c] \in Serving => clients'[slot[c]] = clients[slot[c]]
      BY <1>5, <2>2, ServeOthers
    <3> QED
      BY <1>1, <1>2, <3>1, <3>2, RequestKept
  <2> QED
    BY <2>1, <2>2
<1>6. ASSUME NEW d \in Conns, PeerStep(d)
      PROVE  RequestOf(c)'
  <2>1. UNCHANGED <<clients, spc, slot, snap>>
    BY <1>6, PeerFrame
  <2>2. ASSUME NEW m \in Methods, Send(d, m)
        PROVE  RequestOf(c)'
    <3>1. CASE d # c
      <4>1. inbox'[c] = inbox[c] /\ ready'[c] = ready[c]
        BY <2>2, <3>1 DEF Send, TypeOK
      <4> QED
        BY <1>1, <1>2, <2>1, <4>1, RequestKept
    <3>2. CASE d = c
      <4>1. /\ inbox[c] = NoRequest /\ inbox'[c] = m
            /\ m # "malformed" => (ready[c] <=> m # "initialize")
            /\ UNCHANGED ready /\ m # NoRequest
        BY <2>2, <3>2, ServerAssumption DEF Send, TypeOK, AllMethods, NoRequest
      <4> QED
        BY <1>1, <1>2, <2>1, <4>1 DEF RequestOf, Handled, NoRequest
    <3> QED
      BY <3>1, <3>2
  <2>3. CASE Connect(d) \/ Hang(d) \/ Disconnect(d)
    <3>1. UNCHANGED <<inbox, ready>>
      BY <2>3 DEF Connect, Hang, Disconnect, peerVars
    <3> QED
      BY <1>1, <1>2, <2>1, <3>1, RequestKept
  <2> QED
    BY <1>6, <2>2, <2>3, Zenon DEF PeerStep
<1>7. ASSUME NEW e \in Embedders, EmbedderStep(e)
      PROVE  RequestOf(c)'
  BY <1>1, <1>2, <1>7, EmbedderFrame, RequestKept
<1>8. CASE UNCHANGED vars
  <2>1. UNCHANGED <<clients, spc, slot, inbox, ready, snap>>
    BY <1>8 DEF vars, slotVars, serveVars, peerVars, histVars
  <2> QED
    BY <1>1, <1>2, <2>1, RequestKept
<1> QED
  BY <1>3, <1>4, <1>5, <1>6, <1>7, <1>8, Zenon DEF Next

(***************************************************************************)
(* Lists that are out of date                                              *)
(***************************************************************************)
\* A client with a stale list is served, and is eligible for notifications.
LEMMA StaleServed ==
    ASSUME TypeOK, ActiveCountsSlots, ConnInv, RequestInv, NEW c \in Conns,
           cst[c] = "open", peer[c] # "gone", snap[c] # -1, spc[c] \notin {"unwind", "closing"}
    PROVE  /\ spc[c] \in Serving \ {"unwind"} /\ ready[c]
           /\ slot[c] \in Slots /\ clients[slot[c]].conn = c /\ Eligible(slot[c])
<1>1. ready[c] /\ spc[c] \notin {"none", "unwind", "closing", "done"}
  BY DEF RequestInv, RequestOf, ConnInv, Dead
<1>2. spc[c] \in Serving
  BY <1>1 DEF TypeOK
<1>3. slot[c] \in Slots /\ clients[slot[c]].conn = c /\ clients[slot[c]].initialized
  BY <1>1, <1>2 DEF ActiveCountsSlots, RequestInv, RequestOf
<1> QED
  BY <1>1, <1>2, <1>3, ServerAssumption DEF Eligible

\* The types of the numbers that the argument below compares.
LEMMA StaleNumbers ==
    ASSUME TypeOK, NEW c \in Conns
    PROVE  /\ ver \in Nat /\ snap[c] \in Int /\ slot[c] \in Nat /\ lost[c] \in SUBSET {"unstarted", "contended"}
           /\ \A e \in Embedders : at[e] \in Nat
           /\ snap[c] \in 0..ver - 1 => snap[c] # -1
  BY ServerNumbers DEF TypeOK

\* A stale client keeps its excuse when neither it nor a broadcast moves.
LEMMA StaleKept ==
    ASSUME NEW c \in Conns, Stale(c) => Excused(c),
           Stale(c)' => Stale(c) /\ inbox'[c] = inbox[c] /\ spc'[c] = spc[c] /\ slot'[c] = slot[c],
           UNCHANGED <<epc, at>>, told'[c] = told[c], lost'[c] = lost[c]
    PROVE  Stale(c)' => Excused(c)'
  BY DEF Excused, Due

\* The serve thread of a stale client has its request for the list in hand,
\* or goes down, or brings the list up to date.
LEMMA StaleServe ==
    ASSUME TypeOK, NEW c \in Conns, ServeStep(c), Stale(c) => Excused(c)
    PROVE  Stale(c)' => Excused(c)'
<1>1. UNCHANGED <<ver, epc, at, slot, peer, lost>>
  BY ServeFrame
<1> SUFFICES ASSUME Stale(c)'
             PROVE  Excused(c)'
  OBVIOUS
<1>2. ver \in Nat
  BY StaleNumbers
<1>3. CASE HandleToolsList(c)
  <2>1. snap'[c] = ver
    BY <1>3 DEF HandleToolsList, TypeOK
  <2> QED
    BY <1>1, <1>2, <2>1 DEF Stale
<1>4. CASE ReadFails(c)
  <2>1. spc'[c] = "unwind"
    BY <1>4 DEF ReadFails, TypeOK
  <2> QED
    BY <2>1 DEF Stale
<1>5. CASE CloseConn(c)
  <2>1. cst'[c] = "closed"
    BY <1>5 DEF CloseConn, TypeOK
  <2> QED
    BY <2>1 DEF Stale
<1>6. CASE ~HandleToolsList(c) /\ ~ReadFails(c) /\ ~CloseConn(c)
  <2>1. /\ UNCHANGED <<cst, snap, told>>
        /\ ~(inbox[c] = "tools/list" /\ spc[c] = "read")
        /\ spc[c] = "unwind" => spc'[c] = "closing"
        /\ spc[c] # "closing"
    <3> USE DEF serveFrame, TypeOK
    <3>1. CASE HandleInitialize(c)
      BY <3>1 DEF HandleInitialize
    <3>2. CASE HandleOther(c)
      BY <3>2 DEF HandleOther
    <3>3. CASE HandleNotification(c)
      BY <3>3 DEF HandleNotification
    <3>4. CASE \E t \in Tools : HandleToolsCall(c, t)
      BY <3>4 DEF HandleToolsCall
    <3>5. CASE ToolReturns(c)
      BY <3>5 DEF ToolReturns
    <3>6. CASE LockWrite(c)
      BY <3>6 DEF LockWrite
    <3>7. CASE WriteHeader(c)
      BY <3>7 DEF WriteHeader
    <3>8. CASE WriteBody(c)
      BY <3>8 DEF WriteBody
    <3>9. CASE WriteFails(c)
      BY <3>9 DEF WriteFails
    <3>10. CASE Unwind(c)
      BY <3>10 DEF Unwind, unwindFrame, histVars
    <3> QED
      BY <1>6, <3>1, <3>2, <3>3, <3>4, <3>5, <3>6, <3>7, <3>8, <3>9, <3>10, Zenon DEF ServeStep
  <2>2. Stale(c)
    BY <1>1, <2>1 DEF Stale
  <2> QED
    BY <1>1, <2>1, <2>2 DEF Excused, Due
<1> QED
  BY <1>3, <1>4, <1>5, <1>6

\* A broadcast passes the slot of a stale client only by telling it, by
\* giving up on it for one of the two reasons, or by aborting it.
LEMMA StaleEmbedder ==
    ASSUME TypeOK, ActiveCountsSlots, ConnInv, MutexInv, RequestInv, NEW e \in Embedders,
           EmbedderStep(e), NEW c \in Conns, Stale(c) => Excused(c)
    PROVE  Stale(c)' => Excused(c)'
<1> SUFFICES ASSUME Stale(c)'
             PROVE  Excused(c)'
  OBVIOUS
<1>1. UNCHANGED <<thread_started, clients, spc, slot, peer, inbox, snap>>
  BY EmbedderFrame
<1>2. /\ ver \in Nat /\ slot[c] \in Nat /\ snap[c] \in Int /\ \A f \in Embedders : at[f] \in Nat
      /\ snap[c] \in 0..ver - 1 => snap[c] # -1
  BY StaleNumbers
<1>3. ASSUME Changed(e)
      PROVE  Excused(c)'
  <2>1. epc'[e] = "check"
    BY <1>3 DEF Changed, TypeOK
  <2> QED
    BY <2>1 DEF Excused, Due
<1>4. ASSUME ~Changed(e), ~NotifyFails(e)
      PROVE  Stale(c)
  <2>1. UNCHANGED <<cst, ver>>
    BY <1>4, Zenon DEF EmbedderStep, Register_tool, Unregister_tool, Set_app_id,
       CheckStarted, LockConns, SkipSlot, TryLockFails, TryLock, NotifyHeader, NotifyBody,
       UnlockConns, toolVars
  <2> QED
    BY <1>1, <2>1 DEF Stale
<1>5. ASSUME Stale(c)
      PROVE  /\ slot[c] \in Slots /\ clients[slot[c]].conn = c /\ Eligible(slot[c])
             /\ Excused(c)
  BY <1>2, <1>5, StaleServed DEF Stale
<1>6. CASE NotifyFails(e)
  <2> DEFINE d == clients[at[e]].conn
  <2>1. at[e] \in Slots /\ d \in Conns
    BY <1>6 DEF NotifyFails, MutexInv, Writing, Occupied, TypeOK
  <2>2. /\ cst' = [cst EXCEPT ![d] = "aborted"] /\ NextSlot(e) /\ epc[e] \in Writing
        /\ UNCHANGED <<ver, told, lost>>
    BY <1>6 DEF NotifyFails, toolVars, Writing
  <2> HIDE DEF d
  <2>3. cst'[c] = "open" /\ c # d /\ cst[c] = "open"
    BY <2>1, <2>2 DEF Stale, TypeOK
  <2>4. Stale(c)
    BY <1>1, <2>2, <2>3 DEF Stale
  <2>5. at[e] # slot[c]
    BY <1>5, <2>3, <2>4 DEF d
  <2>6. /\ epc'[e] = "scan" /\ at'[e] = at[e] + 1
        /\ \A f \in Embedders \ {e} : epc'[f] = epc[f] /\ at'[f] = at[f]
    BY <2>2 DEF NextSlot, TypeOK
  <2>7. Due(c) => Due(c)'
    BY <1>1, <1>2, <2>2, <2>5, <2>6 DEF Due, Sweeping, Writing
  <2> QED
    BY <1>1, <1>5, <2>2, <2>4, <2>7 DEF Excused
<1>7. CASE CheckStarted(e)
  <2>1. Stale(c) /\ ~Changed(e)
    BY <1>4, <1>7 DEF CheckStarted, Changed, NotifyFails, Writing
  <2>2. CASE thread_started
    <3>1. /\ epc'[e] = "lock" 
      BY <1>7, <2>2 DEF CheckStarted, TypeOK
    <3> QED
      BY <3>1 DEF Excused, Due
  <2>3. CASE ~thread_started
    <3>1. "unstarted" \in lost'[c]
      BY <1>5, <1>7, <2>1, <2>3 DEF CheckStarted
    <3> QED
      BY <3>1 DEF Excused
  <2> QED
    BY <2>2, <2>3
<1>8. CASE LockConns(e)
  <2>1. Stale(c)
    BY <1>4, <1>8 DEF LockConns, Changed, NotifyFails, Writing
  <2>2. epc'[e] = "scan" /\ at'[e] = 1
    BY <1>8 DEF LockConns, TypeOK
  <2>3. 1 <= slot'[c]
    BY <1>1, <1>5, <2>1, ServerNumbers DEF Slots
  <2> QED
    BY <2>2, <2>3 DEF Excused, Due, Sweeping
<1>9. CASE SkipSlot(e) \/ TryLockFails(e)
  <2>1. Stale(c)
    BY <1>4, <1>9 DEF SkipSlot, TryLockFails, Changed, NotifyFails, Writing
  <2>2. /\ UNCHANGED <<epc, told>> /\ at'[e] = at[e] + 1
        /\ \A f \in Embedders \ {e} : at'[f] = at[f]
    BY <1>9 DEF SkipSlot, TryLockFails, TypeOK
  <2>3. CASE at[e] = slot[c]
    <3>1. TryLockFails(e)
      BY <1>5, <1>9, <2>1, <2>3 DEF SkipSlot
    <3>2. "contended" \in lost'[c]
      BY <1>5, <2>1, <2>3, <3>1 DEF TryLockFails, TypeOK
    <3> QED
      BY <3>2 DEF Excused
  <2>4. CASE at[e] # slot[c]
    <3>1. Due(c) => Due(c)'
      BY <1>1, <1>2, <2>2, <2>4 DEF Due
    <3>2. lost[c] # {} => lost'[c] # {}
      <4>1. CASE SkipSlot(e)
        BY <4>1 DEF SkipSlot
      <4>2. CASE TryLockFails(e)
        <5>1. \A x \in lost[c] : x \in lost'[c]
          BY <4>2 DEF TryLockFails, TypeOK
        <5> QED
          BY <5>1
      <4> QED
        BY <1>9, <4>1, <4>2
    <3> QED
      BY <1>1, <1>5, <2>1, <2>2, <3>1, <3>2 DEF Excused
  <2> QED
    BY <2>3, <2>4
<1>10. CASE TryLock(e) \/ NotifyHeader(e)
  <2>1. Stale(c)
    <3>1. UNCHANGED <<cst, ver>>
      BY <1>10 DEF TryLock, NotifyHeader, toolVars
    <3> QED
      BY <1>1, <3>1 DEF Stale
  <2>2. /\ UNCHANGED <<at, told, lost>> /\ epc'[e] \in Sweeping /\ epc[e] \in Sweeping
        /\ \A f \in Embedders \ {e} : epc'[f] = epc[f]
    BY <1>10 DEF TryLock, NotifyHeader, TypeOK, Sweeping, Writing
  <2>3. Due(c) => Due(c)'
    BY <1>1, <2>2 DEF Due, Sweeping, Writing
  <2> QED
    BY <1>1, <1>5, <2>1, <2>2, <2>3 DEF Excused
<1>11. CASE NotifyBody(e)
  <2> DEFINE d == clients[at[e]].conn
  <2>1. at[e] \in Slots /\ d \in Conns
    BY <1>11 DEF NotifyBody, MutexInv, Writing, Occupied, TypeOK
  <2>2. /\ told' = [told EXCEPT ![d] = TRUE] /\ NextSlot(e) /\ epc[e] = "body"
        /\ UNCHANGED <<ver, cst, lost>>
    BY <1>11 DEF NotifyBody, toolVars
  <2>3. Stale(c)
    BY <1>1, <2>2 DEF Stale
  <2>4. CASE at[e] = slot[c]
    <3>1. d = c
      BY <1>5, <2>3, <2>4
    <3>2. told'[c] = TRUE
      BY <2>2, <3>1 DEF TypeOK
    <3> QED
      BY <3>2 DEF Excused
  <2>5. CASE at[e] # slot[c]
    <3>1. /\ epc'[e] = "scan" /\ at'[e] = at[e] + 1
          /\ \A f \in Embedders \ {e} : epc'[f] = epc[f] /\ at'[f] = at[f]
      BY <2>2 DEF NextSlot, TypeOK
    <3>2. Due(c) => Due(c)'
      BY <1>1, <1>2, <2>2, <2>5, <3>1 DEF Due, Sweeping
    <3>3. told[c] => told'[c]
      BY <2>2 DEF TypeOK
    <3> QED
      BY <1>1, <1>5, <2>2, <2>3, <3>2, <3>3 DEF Excused
  <2> QED
    BY <2>4, <2>5
<1>12. CASE UnlockConns(e)
  <2>1. Stale(c)
    BY <1>4, <1>12 DEF UnlockConns, Changed, NotifyFails, Writing
  <2>2. /\ UNCHANGED <<told, lost>> /\ epc[e] = "scan" /\ at[e] \notin Slots
        /\ \A f \in Embedders \ {e} : epc'[f] = epc[f] /\ at'[f] = at[f]
    BY <1>12 DEF UnlockConns, TypeOK
  <2>3. slot[c] < at[e]
    BY <1>5, <2>1, <2>2, ServerNumbers DEF MutexInv, Sweeping, Slots
  <2>4. Due(c) => Due(c)'
    BY <1>1, <1>2, <2>2, <2>3 DEF Due
  <2> QED
    BY <1>1, <1>5, <2>1, <2>2, <2>4 DEF Excused
<1> QED
  BY <1>3, <1>6, <1>7, <1>8, <1>9, <1>10, <1>11, <1>12, Zenon
  DEF EmbedderStep, Register_tool, Unregister_tool, Set_app_id

\* No step leaves a stale client without an excuse.
LEMMA StaleStep ==
    ASSUME TypeOK, ActiveCountsSlots, ConnInv, MutexInv, RequestInv, StaleInv, [Next]_vars
    PROVE  StaleInv'
<1> SUFFICES ASSUME NEW c \in Conns
             PROVE  Stale(c)' => Excused(c)'
  BY DEF StaleInv
<1>1. Stale(c) => Excused(c)
  BY DEF StaleInv
<1>2. snap[c] \in 0..ver - 1 => snap[c] # -1
  BY StaleNumbers
<1>3. CASE LifecycleStep
  <2>1. UNCHANGED <<ver, epc, at, spc, slot, peer, inbox, snap, told, lost>>
    BY <1>3, LifecycleFrame
  <2>2. cst'[c] = "open" => cst[c] = "open"
    BY <1>3 DEF LifecycleStep, StartListening, StartFails, StartDone, StopListening, StopJoin,
       StopAbort, StopSpurious, StopDrained
  <2> QED
    BY <1>1, <2>1, <2>2, StaleKept DEF Stale
<1>4. CASE AcceptStep
  <2>1. UNCHANGED <<ver, epc, at, peer, inbox, snap, told, lost>>
    BY <1>4, AcceptFrame
  <2>2. CASE snap[c] = -1
    BY <1>2, <2>1, <2>2 DEF Stale
  <2>3. CASE snap[c] # -1
    <3>1. spc[c] # "none"
      BY <2>3 DEF RequestInv, RequestOf
    <3>2. spc'[c] = spc[c] /\ slot'[c] = slot[c] /\ (cst'[c] = "open" => cst[c] = "open")
      <4>1. ASSUME NEW d \in Conns, Accept(d)
            PROVE  UNCHANGED <<spc, slot>> /\ (cst'[c] = "open" => cst[c] = "open")
        <5>1. c # d
          BY <3>1, <4>1 DEF Accept, ConnInv, Connected, TypeOK
        <5> QED
          BY <4>1, <5>1 DEF Accept, serveVars, TypeOK
      <4>2. CASE AcceptClosed \/ AcceptError
        BY <4>2 DEF AcceptClosed, AcceptError, serveVars
      <4>3. CASE PlaceClient
        BY <3>1, <4>3 DEF PlaceClient, ConnInv, TypeOK
      <4>4. CASE RejectClient
        BY <4>4 DEF RejectClient, serveVars, TypeOK
      <4> QED
        BY <1>4, <4>1, <4>2, <4>3, <4>4 DEF AcceptStep
    <3> QED
      BY <1>1, <2>1, <3>2, StaleKept DEF Stale
  <2> QED
    BY <2>2, <2>3
<1>5. ASSUME NEW d \in Conns, ServeStep(d)
      PROVE  Stale(c)' => Excused(c)'
  <2>1. CASE d = c
    BY <1>1, <1>5, <2>1, StaleServe
  <2>2. CASE d # c
    <3>1. UNCHANGED <<ver, epc, at, slot, peer, lost>>
      BY <1>5, ServeFrame
    <3>2. /\ spc'[c] = spc[c] /\ cst'[c] = cst[c] /\ inbox'[c] = inbox[c] /\ snap'[c] = snap[c]
          /\ told'[c] = told[c]
      BY <1>5, <2>2, ServeOthers
    <3> QED
      BY <1>1, <3>1, <3>2, StaleKept DEF Stale
  <2> QED
    BY <2>1, <2>2
<1>6. ASSUME NEW d \in Conns, PeerStep(d)
      PROVE  Stale(c)' => Excused(c)'
  <2>1. UNCHANGED <<ver, epc, at, spc, slot, snap, lost>>
    BY <1>6, PeerFrame
  <2>2. ASSUME NEW m \in Methods, Send(d, m)
        PROVE  Stale(c)' => Excused(c)'
    <3>1. CASE d # c
      <4>1. inbox'[c] = inbox[c] /\ told'[c] = told[c] /\ UNCHANGED <<cst, peer>>
        BY <2>2, <3>1 DEF Send, TypeOK
      <4> QED
        BY <1>1, <2>1, <4>1, StaleKept DEF Stale
    <3>2. CASE d = c
      <4>1. UNCHANGED <<cst, peer>> /\ inbox[c] = NoRequest /\ inbox'[c] = m
        BY <2>2, <3>2 DEF Send, TypeOK
      <4>2. CASE m = "tools/list"
        <5>1. SUFFICES ASSUME Stale(c)
                       PROVE  spc[c] = "read"
          BY <2>1, <4>1, <4>2 DEF Stale, Excused
        <5>2. spc[c] \in Serving \ {"unwind"}
          BY <1>2, <5>1, StaleServed DEF Stale
        <5>3. spc[c] \notin Handled \cup {"call"}
          BY <4>1 DEF RequestInv, RequestOf, NoRequest
        <5> QED
          BY <5>2, <5>3 DEF Serving, Handled
      <4>3. CASE m # "tools/list"
        <5>1. told[c] => told'[c]
          BY <2>2, <3>2, <4>3 DEF Send, TypeOK
        <5>2. Stale(c)' => Stale(c)
          BY <2>1, <4>1 DEF Stale
        <5> QED
          BY <1>1, <2>1, <4>1, <5>1, <5>2 DEF Excused, Due, NoRequest
      <4> QED
        BY <4>2, <4>3
    <3> QED
      BY <3>1, <3>2
  <2>3. CASE Connect(d) \/ Hang(d) \/ Disconnect(d)
    <3>1. UNCHANGED <<inbox, told>> /\ (cst'[c] = "open" => cst[c] = "open")
          /\ (peer[c] = "gone" => peer'[c] = "gone")
      BY <2>3 DEF Connect, Hang, Disconnect, peerVars, TypeOK
    <3> QED
      BY <1>1, <2>1, <3>1, StaleKept DEF Stale
  <2> QED
    BY <1>6, <2>2, <2>3, Zenon DEF PeerStep
<1>7. ASSUME NEW e \in Embedders, EmbedderStep(e)
      PROVE  Stale(c)' => Excused(c)'
  BY <1>1, <1>7, StaleEmbedder
<1>8. CASE UNCHANGED vars
  <2>1. UNCHANGED <<ver, epc, at, spc, slot, peer, cst, inbox, snap, told, lost>>
    BY <1>8 DEF vars, toolVars, embVars, serveVars, peerVars, histVars
  <2> QED
    BY <1>1, <2>1, StaleKept DEF Stale
<1> QED
  BY <1>3, <1>4, <1>5, <1>6, <1>7, <1>8, Zenon DEF Next

-----------------------------------------------------------------------------
\* The parts hold at start-up.
LEMMA ServerInvInit == Init => ServerInv
<1> SUFFICES ASSUME Init PROVE ServerInv
  OBVIOUS
<1>1. TypeOK
  BY TypeInit
<1>2. Occupied = {}
  BY DEF Init, Occupied, FreeSlot
<1>3. ActiveCountsSlots
  BY <1>2, FS_EmptySet DEF Init, ActiveCountsSlots, Serving
<1>4. ConnInv
  BY DEF Init, ConnInv, Serving
<1>5. MutexInv
  BY ServerAssumption DEF Init, MutexInv, Sweeping, Writing
<1>6. LifeInv
  BY <1>2 DEF Init, LifeInv
<1>7. TornInv
  BY DEF Init, TornInv
<1>8. RequestInv
  BY DEF Init, RequestInv, RequestOf, Serving, Handled
<1>9. StaleInv
  BY DEF Init, StaleInv, Stale
<1> QED
  BY <1>1, <1>3, <1>4, <1>5, <1>6, <1>7, <1>8, <1>9 DEF ServerInv

\* Every step keeps the types, given that a client that leaves was counted
\* and that a broadcaster writes within the table.
LEMMA TypeStep ==
    ASSUME TypeOK, ActiveCountsSlots, MutexInv, [Next]_vars
    PROVE  TypeOK'
<1>1. CASE UNCHANGED vars
  BY <1>1 DEF vars, lifeVars, acceptVars, slotVars, toolVars, embVars, serveVars, peerVars, histVars,
              TypeOK
<1> QED
  BY <1>1, TypeLifecycle, TypeAccept, TypeServe, TypeEmbedder, TypePeer, Zenon DEF Next

\* Every step keeps the whole invariant.
LEMMA ServerInvStep == ServerInv /\ [Next]_vars => ServerInv'
<1> SUFFICES ASSUME ServerInv, [Next]_vars PROVE ServerInv'
  OBVIOUS
<1> USE DEF ServerInv
<1>1. TypeOK'
  BY TypeStep
<1>2. ActiveCountsSlots'
  BY SlotsStep
<1>3. ConnInv'
  BY ConnStep
<1>4. MutexInv'
  BY MutexStep
<1>5. LifeInv'
  BY LifeStep
<1>6. TornInv'
  BY TornStep
<1>7. RequestInv'
  BY RequestStep
<1>8. StaleInv'
  BY StaleStep
<1> QED
  BY <1>1, <1>2, <1>3, <1>4, <1>5, <1>6, <1>7, <1>8

\* The invariant of the server.
THEOREM ServerInvariant == Spec => []ServerInv
  BY ServerInvInit, ServerInvStep, PTL DEF Spec

\* Every variable keeps its type: above all active_clients, which is unsigned,
\* is never decremented below zero, and no broadcaster leaves the slot array.
THEOREM ServerTypes == Spec => []TypeOK
<1>1. ServerInv => TypeOK
  BY DEF ServerInv
<1> QED
  BY <1>1, ServerInvariant, PTL

\* The count that mcp_server_stop waits on is the number of occupied slots,
\* each with one running serve thread of its own.
THEOREM ServerCountsSlots == Spec => []ActiveCountsSlots
<1>1. ServerInv => ActiveCountsSlots
  BY DEF ServerInv
<1> QED
  BY <1>1, ServerInvariant, PTL

\* Neither a broadcaster in the middle of a frame nor mcp_server_stop sees a
\* connection that client_thread has closed: conns_mutex keeps it in the table.
THEOREM ServerNoUseAfterClose == Spec => []NoUseAfterClose
<1>1. ServerInv => NoUseAfterClose
  <2> SUFFICES ASSUME ServerInv PROVE NoUseAfterClose
    OBVIOUS
  <2>1. \A i \in Occupied : clients[i].conn \in Conns /\ spc[clients[i].conn] \in Serving
    BY DEF ServerInv, TypeOK, ActiveCountsSlots, Occupied
  <2> QED
    BY <2>1 DEF ServerInv, ConnInv, MutexInv, Connected, NoUseAfterClose
<1> QED
  BY <1>1, ServerInvariant, PTL

\* A broadcaster and a serve thread never have half a frame each on one
\* connection, and nothing follows a frame that was cut short.
THEOREM ServerFramesIntact == Spec => []FramesIntact
<1>1. ServerInv => FramesIntact
  <2> SUFFICES ASSUME ServerInv PROVE FramesIntact
    OBVIOUS
  <2>1. ASSUME NEW e \in Embedders, NEW c \in Conns, epc[e] \in Writing,
               clients[at[e]].conn = c, spc[c] \in Writing
        PROVE  FALSE
    <3>1. at[e] \in Occupied /\ write_mutex[at[e]] = "notify" /\ write_mutex[slot[c]] = "serve"
      BY <2>1 DEF ServerInv, MutexInv
    <3>2. slot[c] = at[e]
      BY <2>1, <3>1 DEF ServerInv, ActiveCountsSlots
    <3> QED
      BY <3>1, <3>2
  <2> QED
    BY <2>1 DEF ServerInv, TornInv, FramesIntact
<1> QED
  BY <1>1, ServerInvariant, PTL

\* When mcp_server_stop has returned there is no accept thread, no listener
\* and no occupied slot left.
THEOREM ServerStoppedIsQuiet == Spec => []StoppedIsQuiet
<1>1. ServerInv => StoppedIsQuiet
  BY DEF ServerInv, LifeInv, StoppedIsQuiet
<1> QED
  BY <1>1, ServerInvariant, PTL

\* A settled client with an out-of-date list has been told, or its
\* notification was given up for one of the two reasons the code names.
THEOREM ServerStaleExplained == Spec => []StaleExplained
<1>1. ServerInv => StaleExplained
  <2> SUFFICES ASSUME ServerInv, NEW c \in Conns, Settled(c), snap[c] \in 0..ver - 1
               PROVE  told[c] \/ lost[c] # {}
    BY DEF StaleExplained
  <2>1. Stale(c) /\ inbox[c] # "tools/list" /\ \A e \in Embedders : epc[e] = "idle"
    BY DEF Settled, Stale, NoRequest, ServerInv, RequestInv, RequestOf, Dead
  <2>2. ~Due(c)
    BY <2>1 DEF Due, Sweeping, Writing
  <2> QED
    BY <2>1, <2>2 DEF ServerInv, StaleInv, Excused
<1> QED
  BY <1>1, ServerInvariant, PTL

=============================================================================
