------------------------------ MODULE Endpoint ------------------------------
(***************************************************************************)
(* The names under which servers are found on POSIX, src/mcp_transport.c:  *)
(* every process that listens binds a socket to a name in /tmp, its pid or *)
(* its role, and unlinks the name when it closes.  A process that crashes  *)
(* leaves the name behind.  displayxr-mcp --target auto looks for a server *)
(* by these names (adapter/displayxr_mcp.c).  The steps of all processes   *)
(* interleave; nothing locks the directory.                                *)
(***************************************************************************)
EXTENDS Naturals, Sequences, FiniteSets

CONSTANTS
    Procs,       \* processes that may listen, named by their pids
    RoleOf,      \* process -> its role, or NoRole
    NoRole,
    Roles,       \* the roles that auto tries, in order
    Nothing,     \* no such name, no such process
    Stale,       \* a socket of a process that is gone
    MAX_PIDS,    \* the room in the adapter's pids array
    MaxStarts    \* bound: times a listener is opened

ASSUME EndpointAssumption ==
    /\ {Nothing, Stale} \cap Procs = {} /\ Nothing # Stale
    /\ RoleOf \in [Procs -> {NoRole} \cup {Roles[i] : i \in 1..Len(Roles)}]
    /\ \A i \in 1..Len(Roles) : Roles[i] # NoRole /\ Roles[i] \notin Procs
    /\ \A i, j \in 1..Len(Roles) : Roles[i] = Roles[j] => i = j
    /\ Roles \in Seq({Roles[i] : i \in 1..Len(Roles)}) /\ Roles # <<>>
    /\ MAX_PIDS \in Nat \ {0, 1} /\ MaxStarts \in Nat

VARIABLES
    dir,        \* name -> whose socket it leads to, Stale, or Nothing
    lpc,        \* process -> where it is in opening or closing its listener
    starts,     \* times a listener was opened
    contested,  \* roles that two processes have had at a time
    lockedOut,  \* roles and pids whose bind has failed
    search,     \* where the adapter is in its search
    tried,      \* roles that it has tried
    left,       \* names that readdir has still to visit
    found,      \* pids found
    reached,    \* the process that the adapter is connected to, or Nothing
    steady      \* processes that have listened since the search began

dirVars == <<dir, lpc, starts, contested, lockedOut>>
autoVars == <<search, tried, left, found, reached, steady>>
endVars == <<dirVars, autoVars>>

\* Mutant of PathOf: the pid is not part of the name.
PathOfShared(p) == IF RoleOf[p] = NoRole THEN CHOOSE q \in Procs : RoleOf[q] = NoRole ELSE RoleOf[p]

\* build_sock_path, build_sock_path_named.
PathOf(p) == IF RoleOf[p] = NoRole THEN p ELSE RoleOf[p]

PidNames == {p \in Procs : RoleOf[p] = NoRole}
RoleNames == {Roles[i] : i \in 1..Len(Roles)}
Names == Procs \cup RoleNames

EndInit ==
    /\ dir = [n \in Names |-> Nothing]
    /\ lpc = [p \in Procs |-> "down"]
    /\ starts = 0 /\ contested = {} /\ lockedOut = {}
    /\ search = "idle" /\ tried = 0 /\ left = {} /\ found = {}
    /\ reached = Nothing /\ steady = {}

Moves(p, from, to) == lpc[p] = from /\ lpc' = [lpc EXCEPT ![p] = to]
Unlinked(p) == dir' = [dir EXCEPT ![PathOf(p)] = Nothing]
Rivals(p) == {q \in Procs \ {p} : lpc[q] # "down" /\ RoleOf[q] = RoleOf[p] /\ RoleOf[p] # NoRole}

-----------------------------------------------------------------------------
\* Mutant of OpenUnlink: a name that is there already is left alone.
OpenUnlinkNot(p) ==
    /\ starts < MaxStarts /\ Moves(p, "down", "bind")
    /\ starts' = starts + 1
    /\ contested' = contested \cup {RoleOf[q] : q \in Rivals(p)}
    /\ UNCHANGED <<dir, lockedOut, autoVars>>

\* listener_open_path removes the name, whoever it belongs to ...
OpenUnlink(p) ==
    /\ starts < MaxStarts /\ Moves(p, "down", "bind")
    /\ Unlinked(p)
    /\ starts' = starts + 1
    /\ contested' = contested \cup {RoleOf[q] : q \in Rivals(p)}
    /\ UNCHANGED <<lockedOut, autoVars>>

\* ... gives up without a socket ...
OpenSocketFails(p) ==
    /\ Moves(p, "bind", "down")
    /\ UNCHANGED <<dir, starts, contested, lockedOut, autoVars>>

\* ... binds the name, if it is still free ...
OpenBind(p) ==
    /\ dir[PathOf(p)] = Nothing
    /\ Moves(p, "bind", "listen")
    /\ dir' = [dir EXCEPT ![PathOf(p)] = p]
    /\ UNCHANGED <<starts, contested, lockedOut, autoVars>>

OpenBindFails(p) ==
    /\ dir[PathOf(p)] # Nothing
    /\ Moves(p, "bind", "down")
    /\ lockedOut' = lockedOut \cup {PathOf(p)}
    /\ UNCHANGED <<dir, starts, contested, autoVars>>

\* ... and listens; when that fails it unlinks again.
OpenListen(p) ==
    /\ Moves(p, "listen", "listening")
    /\ UNCHANGED <<dir, starts, contested, lockedOut, autoVars>>

OpenListenFails(p) ==
    /\ Moves(p, "listen", "down")
    /\ Unlinked(p)
    /\ UNCHANGED <<starts, contested, lockedOut, autoVars>>

\* mcp_listener_close: the socket is shut down and closed ...
CloseSocket(p) ==
    /\ Moves(p, "listening", "closing")
    /\ steady' = steady \ {p}
    /\ UNCHANGED <<dir, starts, contested, lockedOut, search, tried, left, found, reached>>

\* ... and the name is removed, whoever it belongs to by now.
CloseUnlink(p) ==
    /\ Moves(p, "closing", "down")
    /\ Unlinked(p)
    /\ UNCHANGED <<starts, contested, lockedOut, autoVars>>

\* The process dies: its socket goes, the name stays.
Crash(p) ==
    /\ lpc[p] # "down"
    /\ lpc' = [lpc EXCEPT ![p] = "down"]
    /\ dir' = [n \in Names |-> IF dir[n] = p THEN Stale ELSE dir[n]]
    /\ steady' = steady \ {p}
    /\ UNCHANGED <<starts, contested, lockedOut, search, tried, left, found, reached>>

-----------------------------------------------------------------------------
Listening == {p \in Procs : lpc[p] = "listening"}

\* conn_connect_path finds this process behind a name, or nothing.
Behind(n) == IF dir[n] \in Listening THEN dir[n] ELSE Nothing

\* main of displayxr-mcp, with --target auto.
AutoBegin ==
    /\ search = "idle"
    /\ search' = "roles" /\ steady' = Listening
    /\ UNCHANGED <<dirVars, tried, left, found, reached>>

AutoConnected(p) == reached' = p /\ search' = "connected"

\* A role is tried, the i-th; after the last one the directory is opened.
TryRole(i, last) ==
    /\ search = "roles"
    /\ LET q == Behind(Roles[i])
       IN  IF q # Nothing
           THEN AutoConnected(q) /\ UNCHANGED <<tried, left>>
           ELSE /\ search' = IF last THEN "scan" ELSE "roles"
                /\ tried' = tried + 1
                /\ left' = IF last THEN PidNames ELSE {}
                /\ UNCHANGED reached
    /\ UNCHANGED <<dirVars, found, steady>>

\* Mutant of AutoRole: only the first role is tried.
AutoRoleFirst == TryRole(1, TRUE)

\* Mutant of AutoRole: the roles are tried from the last to the first.
AutoRoleReversed == TryRole(Len(Roles) - tried, tried + 1 = Len(Roles))

AutoRole == TryRole(tried + 1, tried + 1 = Len(Roles))

\* mcp_enumerate_sessions visits the names in any order and takes those that
\* are there, as long as there is room.
AutoVisit(n) ==
    /\ search = "scan" /\ n \in left /\ Cardinality(found) < MAX_PIDS
    /\ left' = left \ {n}
    /\ found' = IF dir[n] # Nothing THEN found \cup {n} ELSE found
    /\ UNCHANGED <<dirVars, search, tried, reached, steady>>

\* None, or more than one: the adapter gives up.  It connects to the only one.
AutoDecide ==
    /\ search = "scan" /\ (left = {} \/ Cardinality(found) = MAX_PIDS)
    /\ search' = IF found = {} THEN "none" ELSE IF Cardinality(found) > 1 THEN "many" ELSE "one"
    /\ UNCHANGED <<dirVars, tried, left, found, reached, steady>>

AutoConnectPid ==
    /\ search = "one"
    /\ LET n == CHOOSE n \in found : TRUE
       IN  IF Behind(n) # Nothing
           THEN AutoConnected(Behind(n))
           ELSE search' = "cannot connect" /\ UNCHANGED reached
    /\ UNCHANGED <<dirVars, tried, left, found, steady>>

EndNext ==
    \/ \E p \in Procs :
          \/ OpenUnlink(p) \/ OpenSocketFails(p) \/ OpenBind(p) \/ OpenBindFails(p)
          \/ OpenListen(p) \/ OpenListenFails(p)
          \/ CloseSocket(p) \/ CloseUnlink(p) \/ Crash(p)
    \/ AutoBegin \/ AutoRole \/ AutoDecide \/ AutoConnectPid
    \/ \E n \in PidNames : AutoVisit(n)

EndSpec == EndInit /\ [][EndNext]_endVars

-----------------------------------------------------------------------------
\* The processes whose role no other process has had while they had it.
Settled == {p \in Procs : RoleOf[p] \notin contested}

\* The type of the directory's part of the state.
EndTypeOK ==
    /\ dir \in [Names -> Procs \cup {Nothing, Stale}]
    /\ lpc \in [Procs -> {"down", "bind", "listen", "listening", "closing"}]
    /\ contested \subseteq RoleNames

\* The strengthening of Reachable: at every step between unlink and close the
\* name of a settled process is in the state in which that step left it.
NameIsMine ==
    \A p \in Settled :
        /\ lpc[p] = "bind" => dir[PathOf(p)] = Nothing
        /\ lpc[p] \in {"listen", "listening", "closing"} => dir[PathOf(p)] = p

\* Two processes that are up have two names, or their role is contested.
RivalsContest ==
    \A p \in Procs : \A q \in Procs \ {p} :
        lpc[p] # "down" /\ lpc[q] # "down" /\ PathOf(p) = PathOf(q)
            => RoleOf[p] \in contested

EndInv == EndTypeOK /\ NameIsMine /\ RivalsContest

\* A name leads to no socket but one that was bound to it.
BoundToName == \A n \in Names : dir[n] \in Procs => PathOf(dir[n]) = n

\* The strengthening of AutoMissesNobody: whoever has been listening all the
\* while and is settled is still ahead of the search, or has been found.
AutoOnTrack ==
    /\ found \subseteq PidNames /\ IsFiniteSet(found) /\ steady \subseteq Listening
    /\ tried \in Nat /\ (search \in {"idle", "roles"} => tried < Len(Roles))
    /\ search = "idle" => tried = 0
    /\ \A p \in steady \cap Settled :
          /\ search = "roles" => RoleOf[p] \in {NoRole} \cup {Roles[i] : i \in tried + 1..Len(Roles)}
          /\ search = "scan" => p \in left \cup found
          /\ search = "one" => found = {p}
          /\ search \notin {"none", "cannot connect"}

\* A server that listens is found under its name, whatever crashed, failed to
\* open or is being closed around it, as long as its role has not been taken by
\* two processes at a time (listener_open_path, mcp_listener_close).
Reachable == \A p \in Listening \cap Settled : dir[PathOf(p)] = p

\* A name that a crashed process left behind locks nobody out: bind fails only
\* where two processes open the same role (listener_open_path: unlink first).
NoStaleLockout == lockedOut \subseteq contested

\* When auto says that there is no session, or cannot connect to the one that
\* it found, no server has been listening all the while (main of displayxr-mcp).
AutoMissesNobody == search \in {"none", "cannot connect"} => steady \cap Settled = {}

Priority(p) ==
    IF RoleOf[p] = NoRole THEN Len(Roles) + 1
    ELSE CHOOSE i \in 1..Len(Roles) : Roles[i] = RoleOf[p]

\* auto prefers the roles in their order, then a pid: no server that has been
\* listening all the while comes before the one that it is connected to (main
\* of displayxr-mcp).
AutoPrefersRoles ==
    search = "connected" => \A p \in steady \cap Settled : Priority(reached) <= Priority(p)

\* include/displayxr_mcp/mcp_transport.h:132: "Enumerate running MCP sessions": auto
\* complains of several only when there have been several.
ManyAreMany == search = "many" => Cardinality({p \in found : dir[p] # Stale}) > 1

\* src/mcp_transport.c:93: "we own the named path": a server that listens is
\* found under its name.
AlwaysReachable == \A p \in Listening : dir[PathOf(p)] = p

=============================================================================
