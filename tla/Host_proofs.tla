--------------------------- MODULE Host_proofs ---------------------------
(***************************************************************************)
(* Proofs about the parts of a host: the names of its endpoints, its audit *)
(* log, and its allowlist.  They share no state, and each has a            *)
(* specification and an invariant of its own.                              *)
(***************************************************************************)
EXTENDS Endpoint, AuditLog, Allowlist, Induction, FiniteSetTheorems, TLAPS

-----------------------------------------------------------------------------
(***************************************************************************)
(* The names of the listeners, for any number of processes and roles: a    *)
(* settled server that listens is found under its name, and a name that    *)
(* was left behind locks nobody out.                                       *)
(***************************************************************************)

\* The name of a process is one of the names, and two processes share one only
\* when they have the same role.
LEMMA PathType ==
    ASSUME NEW p \in Procs
    PROVE  /\ PathOf(p) \in Names
           /\ RoleOf[p] \in {NoRole} \cup RoleNames
           /\ NoRole \notin RoleNames
           /\ RoleOf[p] # NoRole => PathOf(p) = RoleOf[p]
           /\ \A q \in Procs \ {p} :
                 PathOf(p) = PathOf(q) <=> RoleOf[p] = RoleOf[q] /\ RoleOf[p] # NoRole
BY EndpointAssumption DEF PathOf, Names, RoleNames

\* The initial state.
LEMMA EndInvInit == EndInit => EndInv
BY EndpointAssumption, PathType DEF EndInit, EndInv, EndTypeOK, NameIsMine, RivalsContest, Settled, Names

\* A process that goes down, and at most unlinks its own name, disturbs nobody.
LEMMA GoesDown ==
    ASSUME EndInv, NEW p \in Procs, lpc[p] # "down",
           lpc' = [lpc EXCEPT ![p] = "down"],
           UNCHANGED contested,
           \/ dir' = dir
           \/ Unlinked(p)
           \/ dir' = [n \in Names |-> IF dir[n] = p THEN Stale ELSE dir[n]]
    PROVE  EndInv'
<1>1. EndTypeOK'
  BY EndpointAssumption, PathType DEF EndInv, EndTypeOK, Unlinked
<1>2. RivalsContest'
  BY DEF EndInv, EndTypeOK, RivalsContest, PathOf
<1>3. ASSUME NEW q \in Procs, q \in Settled', lpc'[q] # "down"
      PROVE  dir'[PathOf(q)] = dir[PathOf(q)]
  <2>1. q # p /\ q \in Settled /\ lpc[q] # "down" /\ lpc[q] = lpc'[q]
    BY <1>3 DEF EndInv, EndTypeOK, Settled
  <2>2. PathOf(q) # PathOf(p)
    BY <2>1 DEF EndInv, RivalsContest, Settled
  <2>3. PathOf(q) \in Names /\ dir[PathOf(q)] # p
    BY <2>1, PathType, EndpointAssumption DEF EndInv, EndTypeOK, NameIsMine
  <2> QED
    BY <2>2, <2>3, PathType DEF EndInv, EndTypeOK, Unlinked
<1>4. NameIsMine'
  <2> SUFFICES ASSUME NEW q \in Settled', lpc'[q] # "down"
               PROVE  /\ lpc'[q] = "bind" => dir'[PathOf(q)] = Nothing
                      /\ lpc'[q] \in {"listen", "listening", "closing"} => dir'[PathOf(q)] = q
    BY DEF NameIsMine, PathOf
  <2>1. q \in Procs /\ q \in Settled /\ lpc[q] = lpc'[q]
    BY DEF Settled, EndInv, EndTypeOK
  <2> QED
    BY <2>1, <1>3 DEF EndInv, NameIsMine
<1> QED
  BY <1>1, <1>2, <1>4 DEF EndInv

\* A process that is up and moves on, binding its free name or none.
LEMMA MovesOn ==
    ASSUME EndInv, NEW p \in Procs, lpc[p] # "down",
           NEW to \in {"listen", "listening", "closing"},
           lpc' = [lpc EXCEPT ![p] = to],
           UNCHANGED contested,
           \/ dir' = [dir EXCEPT ![PathOf(p)] = p] /\ dir[PathOf(p)] = Nothing
           \/ dir' = dir /\ lpc[p] # "bind"
    PROVE  EndInv'
<1>1. EndTypeOK'
  BY PathType DEF EndInv, EndTypeOK
<1>2. RivalsContest'
  BY DEF EndInv, EndTypeOK, RivalsContest, PathOf
<1>3. NameIsMine'
  <2> SUFFICES ASSUME NEW q \in Settled'
               PROVE  /\ lpc'[q] = "bind" => dir'[PathOf(q)] = Nothing
                      /\ lpc'[q] \in {"listen", "listening", "closing"} => dir'[PathOf(q)] = q
    BY DEF NameIsMine, PathOf
  <2>1. q \in Procs /\ q \in Settled /\ PathOf(q) \in Names
    BY PathType DEF Settled
  <2>2. CASE q = p
    BY <2>1, <2>2 DEF EndInv, EndTypeOK, NameIsMine
  <2>3. CASE q # p /\ lpc[q] # "down"
    <3>1. PathOf(q) # PathOf(p)
      BY <2>1, <2>3 DEF EndInv, RivalsContest, Settled
    <3> QED
      BY <2>1, <2>3, <3>1, PathType DEF EndInv, EndTypeOK, NameIsMine
  <2>4. CASE q # p /\ lpc[q] = "down"
    BY <2>1, <2>4 DEF EndInv, EndTypeOK
  <2> QED
    BY <2>2, <2>3, <2>4
<1> QED
  BY <1>1, <1>2, <1>3 DEF EndInv

\* A process that comes up: its rivals, whose name it takes, are contested.
LEMMA ComesUp ==
    ASSUME EndInv, NEW p \in Procs, OpenUnlink(p)
    PROVE  EndInv'
<1> DEFINE more == {RoleOf[q] : q \in Rivals(p)}
<1>1. more \subseteq RoleNames
  BY PathType DEF Rivals
<1>2. EndTypeOK'
  BY <1>1, PathType DEF EndInv, EndTypeOK, OpenUnlink, Moves, Unlinked
<1>3. \A q \in Procs \ {p} :
         lpc[q] # "down" /\ PathOf(p) = PathOf(q) =>
             RoleOf[q] \in contested' /\ RoleOf[p] \in contested'
  <2> SUFFICES ASSUME NEW q \in Procs \ {p}, lpc[q] # "down", PathOf(p) = PathOf(q)
               PROVE  RoleOf[q] \in contested' /\ RoleOf[p] = RoleOf[q]
    OBVIOUS
  <2>1. RoleOf[p] = RoleOf[q] /\ RoleOf[p] # NoRole
    BY PathType
  <2>2. q \in Rivals(p)
    BY <2>1 DEF Rivals
  <2> QED
    BY <2>1, <2>2 DEF OpenUnlink
<1>4. RivalsContest'
  BY <1>3 DEF EndInv, EndTypeOK, RivalsContest, PathOf, OpenUnlink, Moves
<1>5. NameIsMine'
  <2> SUFFICES ASSUME NEW q \in Settled'
               PROVE  /\ lpc'[q] = "bind" => dir'[PathOf(q)] = Nothing
                      /\ lpc'[q] \in {"listen", "listening", "closing"} => dir'[PathOf(q)] = q
    BY DEF NameIsMine, PathOf
  <2>1. q \in Procs /\ q \in Settled /\ PathOf(q) \in Names
    BY PathType DEF Settled, OpenUnlink
  <2>2. CASE q = p
    BY <2>1, <2>2 DEF EndInv, EndTypeOK, OpenUnlink, Moves, Unlinked
  <2>3. CASE q # p /\ lpc[q] # "down"
    <3>1. PathOf(q) # PathOf(p)
      BY <2>1, <2>3, <1>3 DEF Settled
    <3> QED
      BY <2>1, <2>3, <3>1 DEF EndInv, EndTypeOK, NameIsMine, OpenUnlink, Moves, Unlinked
  <2>4. CASE q # p /\ lpc[q] = "down"
    BY <2>1, <2>4 DEF EndInv, EndTypeOK, OpenUnlink, Moves
  <2> QED
    BY <2>2, <2>3, <2>4
<1> QED
  BY <1>2, <1>4, <1>5 DEF EndInv

\* A step that leaves the directory alone, such as each of the adapter's.
LEMMA LeavesDir ==
    ASSUME EndInv, UNCHANGED <<dir, lpc, contested>>
    PROVE  EndInv'
BY DEF EndInv, EndTypeOK, NameIsMine, RivalsContest, Settled, PathOf

\* Every step of a server or of the adapter keeps the invariant.
LEMMA EndInvNext == EndInv /\ [EndNext]_endVars => EndInv'
<1> SUFFICES ASSUME EndInv, [EndNext]_endVars PROVE EndInv'
  OBVIOUS
<1>1. ASSUME NEW p \in Procs, OpenUnlink(p) PROVE EndInv'
  BY <1>1, ComesUp
<1>2. ASSUME NEW p \in Procs, OpenSocketFails(p) \/ OpenBindFails(p) \/ OpenListenFails(p)
                              \/ CloseUnlink(p) \/ Crash(p)
      PROVE  EndInv'
  BY <1>2, GoesDown DEF OpenSocketFails, OpenBindFails, OpenListenFails, CloseUnlink, Crash, Moves
<1>3. ASSUME NEW p \in Procs, OpenBind(p) PROVE EndInv'
  BY <1>3, MovesOn DEF OpenBind, Moves
<1>4. ASSUME NEW p \in Procs, OpenListen(p) PROVE EndInv'
  BY <1>4, MovesOn DEF OpenListen, Moves
<1>5. ASSUME NEW p \in Procs, CloseSocket(p) PROVE EndInv'
  BY <1>5, MovesOn DEF CloseSocket, Moves
<1>6. CASE AutoBegin \/ AutoRole \/ AutoDecide \/ AutoConnectPid
           \/ (\E n \in PidNames : AutoVisit(n)) \/ UNCHANGED endVars
  BY <1>6, LeavesDir DEF AutoBegin, AutoRole, TryRole, AutoDecide, AutoConnectPid,
                         AutoVisit, dirVars, endVars
<1> QED
  BY <1>1, <1>2, <1>3, <1>4, <1>5, <1>6 DEF EndNext

\* The inductive invariant holds of every behaviour.
THEOREM EndInvAlways == EndSpec => []EndInv
BY EndInvInit, EndInvNext, PTL DEF EndSpec

\* A server that listens is found under its name as long as its role has not
\* been taken by two processes at a time (listener_open_path,
\* mcp_listener_close), for any number of processes, roles and crashes.
THEOREM ReachableAlways == EndSpec => []Reachable
<1>1. EndInv => Reachable
  BY DEF EndInv, NameIsMine, Reachable, Listening, Settled
<1> QED
  BY <1>1, EndInvAlways, PTL

\* bind fails only where two processes open the same role: the name that a
\* crashed process left behind is unlinked first (listener_open_path).
THEOREM NoStaleLockoutAlways == EndSpec => []NoStaleLockout
<1>1. EndInit => NoStaleLockout
  BY DEF EndInit, NoStaleLockout
<1>2. EndInv /\ NoStaleLockout /\ [EndNext]_endVars => NoStaleLockout'
  <2> SUFFICES ASSUME EndInv, NoStaleLockout, [EndNext]_endVars
               PROVE  NoStaleLockout'
    OBVIOUS
  <2>1. ASSUME NEW p \in Procs, OpenBindFails(p) PROVE NoStaleLockout'
    <3>1. p \notin Settled
      BY <2>1 DEF EndInv, NameIsMine, OpenBindFails, Moves
    <3>2. RoleOf[p] \in contested
      BY <3>1 DEF Settled
    <3>3. PathOf(p) = RoleOf[p]
      BY <3>2, PathType DEF EndInv, EndTypeOK
    <3> QED
      BY <2>1, <3>2, <3>3 DEF OpenBindFails, NoStaleLockout
  <2>2. CASE lockedOut' = lockedOut /\ contested \subseteq contested'
    BY <2>2 DEF NoStaleLockout
  <2>3. \/ \E p \in Procs : OpenBindFails(p)
        \/ lockedOut' = lockedOut /\ contested \subseteq contested'
    BY DEF EndNext, OpenUnlink, OpenSocketFails, OpenBind, OpenListen, OpenListenFails,
           CloseSocket, CloseUnlink, Crash, AutoBegin, AutoRole, TryRole, AutoDecide,
           AutoConnectPid, AutoVisit, dirVars, endVars
  <2> QED
    BY <2>1, <2>2, <2>3
<1> QED
  BY <1>1, <1>2, EndInvAlways, PTL DEF EndSpec

-----------------------------------------------------------------------------
\* The search starts on track.
LEMMA TrackInit == EndInit => AutoOnTrack
BY FS_EmptySet, EndpointAssumption DEF EndInit, AutoOnTrack

\* No step of a process takes the search off the track: nobody becomes steady,
\* and nobody becomes settled again.
LEMMA TrackProcess ==
    ASSUME EndInv, AutoOnTrack, NEW p \in Procs,
           \/ OpenUnlink(p) \/ OpenSocketFails(p) \/ OpenBind(p) \/ OpenBindFails(p)
           \/ OpenListen(p) \/ OpenListenFails(p)
           \/ CloseSocket(p) \/ CloseUnlink(p) \/ Crash(p)
    PROVE  AutoOnTrack'
<1>1. UNCHANGED <<search, tried, left, found>>
  BY DEF OpenUnlink, OpenSocketFails, OpenBind, OpenBindFails, OpenListen, OpenListenFails,
         CloseSocket, CloseUnlink, Crash, autoVars
<1>2. Settled' \subseteq Settled
  BY DEF OpenUnlink, OpenSocketFails, OpenBind, OpenBindFails, OpenListen, OpenListenFails,
         CloseSocket, CloseUnlink, Crash, Settled
<1>3. steady' \subseteq steady /\ steady' \subseteq Listening'
  BY DEF OpenUnlink, OpenSocketFails, OpenBind, OpenBindFails, OpenListen, OpenListenFails,
         CloseSocket, CloseUnlink, Crash, autoVars, Moves, Listening, AutoOnTrack, EndInv, EndTypeOK
<1> QED
  BY <1>1, <1>2, <1>3 DEF AutoOnTrack, PidNames

\* What a settled process that listens offers to a connect.
LEMMA BehindSettled ==
    ASSUME EndInv, NEW p \in Listening, p \in Settled
    PROVE  Behind(PathOf(p)) = p /\ p # Nothing
BY EndpointAssumption DEF EndInv, NameIsMine, Behind, Listening, Settled

\* A role is tried: the settled process that has it is connected to.
LEMMA TrackRole ==
    ASSUME EndInv, AutoOnTrack, AutoRole
    PROVE  AutoOnTrack'
<1>0. /\ UNCHANGED <<dirVars, found, steady>> /\ Settled' = Settled /\ Listening' = Listening
      /\ search = "roles" /\ tried \in Nat /\ tried < Len(Roles) /\ Len(Roles) \in Nat
  BY EndpointAssumption DEF AutoRole, TryRole, dirVars, Settled, Listening, AutoOnTrack
<1>1. CASE Behind(Roles[tried + 1]) # Nothing
  BY <1>0, <1>1 DEF AutoRole, TryRole, AutoConnected, AutoOnTrack, PidNames
<1>2. CASE Behind(Roles[tried + 1]) = Nothing
  <2>1. \A p \in steady \cap Settled : RoleOf[p] # Roles[tried + 1]
    <3> SUFFICES ASSUME NEW p \in steady \cap Settled, RoleOf[p] = Roles[tried + 1]
                 PROVE  FALSE
      OBVIOUS
    <3>1. PathOf(p) = Roles[tried + 1]
      BY <1>0, EndpointAssumption DEF PathOf
    <3> QED
      BY <3>1, <1>2, BehindSettled DEF AutoOnTrack
  <2>2. tried' = tried + 1
    BY <1>2 DEF AutoRole, TryRole
  <2>3. CASE tried + 1 = Len(Roles)
    <3>1. search' = "scan" /\ left' = PidNames
      BY <1>2, <2>3 DEF AutoRole, TryRole
    <3>2. \A p \in steady \cap Settled : RoleOf[p] = NoRole
      BY <1>0, <2>1, <2>3 DEF AutoOnTrack
    <3> QED
      BY <1>0, <2>2, <3>1, <3>2 DEF AutoOnTrack, PidNames, Settled
  <2>4. CASE tried + 1 # Len(Roles)
    <3>1. search' = "roles" /\ tried' < Len(Roles)
      BY <1>0, <1>2, <2>2, <2>4 DEF AutoRole, TryRole
    <3>2. \A i \in tried + 1..Len(Roles) : i # tried + 1 => i \in tried' + 1..Len(Roles)
      BY <1>0, <2>2
    <3>3. \A p \in steady \cap Settled :
             RoleOf[p] \in {NoRole} \cup {Roles[i] : i \in tried' + 1..Len(Roles)}
      BY <1>0, <2>1, <3>2 DEF AutoOnTrack
    <3> QED
      BY <1>0, <2>2, <3>1, <3>3 DEF AutoOnTrack, PidNames
  <2> QED
    BY <2>3, <2>4
<1> QED
  BY <1>1, <1>2

\* A name is visited: that of a settled process that listens is there.
LEMMA TrackVisit ==
    ASSUME EndInv, AutoOnTrack, NEW n \in PidNames, AutoVisit(n)
    PROVE  AutoOnTrack'
<1>0. /\ UNCHANGED <<dirVars, search, tried, steady>> /\ Settled' = Settled /\ Listening' = Listening
      /\ search = "scan" /\ left' = left \ {n}
  BY DEF AutoVisit, dirVars, Settled, Listening
<1>1. found' \in {found, found \cup {n}}
  BY DEF AutoVisit
<1>2. IsFiniteSet(found') /\ found' \subseteq PidNames
  <2>1. IsFiniteSet(found) /\ found \subseteq PidNames
    BY DEF AutoOnTrack
  <2>2. IsFiniteSet(found \cup {n})
    BY <2>1, FS_AddElement
  <2> QED
    BY <1>1, <2>1, <2>2
<1>3. n \in steady \cap Settled => n \in found'
  <2> SUFFICES ASSUME n \in steady \cap Settled PROVE n \in found'
    OBVIOUS
  <2>1. PathOf(n) = n /\ dir[n] = n /\ n # Nothing
    BY EndpointAssumption DEF PidNames, PathOf, EndInv, NameIsMine, AutoOnTrack, Listening
  <2> QED
    BY <2>1 DEF AutoVisit
<1> QED
  BY <1>0, <1>1, <1>2, <1>3 DEF AutoOnTrack, PidNames

\* The names are all visited, unless two are found: who is there is found.
LEMMA TrackDecide ==
    ASSUME AutoOnTrack, AutoDecide
    PROVE  AutoOnTrack'
<1>0. /\ UNCHANGED <<dirVars, tried, left, found, steady>> /\ Settled' = Settled
      /\ Listening' = Listening /\ search = "scan"
  BY DEF AutoDecide, dirVars, Settled, Listening
<1>1. CASE found = {}
  <2>1. Cardinality(found) = 0
    BY <1>1, FS_EmptySet
  <2>2. left = {}
    BY <2>1, EndpointAssumption DEF AutoDecide
  <2>3. search' = "none"
    BY <1>1 DEF AutoDecide
  <2> QED
    BY <1>0, <1>1, <2>2, <2>3 DEF AutoOnTrack, PidNames
<1>2. CASE found # {} /\ Cardinality(found) > 1
  BY <1>0, <1>2 DEF AutoOnTrack, AutoDecide, PidNames
<1>3. CASE found # {} /\ ~(Cardinality(found) > 1)
  <2>1. Cardinality(found) \in Nat /\ Cardinality(found) # 0
    BY <1>3, FS_CardinalityType, FS_EmptySet DEF AutoOnTrack
  <2>2. Cardinality(found) = 1
    BY <1>3, <2>1
  <2>3. PICK x : found = {x}
    BY <2>2, FS_Singleton DEF AutoOnTrack
  <2>4. left = {} /\ search' = "one"
    BY <2>2, <1>3, EndpointAssumption DEF AutoDecide
  <2> QED
    BY <1>0, <2>3, <2>4 DEF AutoOnTrack, PidNames
<1> QED
  BY <1>1, <1>2, <1>3

\* The only one that is found is connected to, if it is there.
LEMMA TrackConnect ==
    ASSUME EndInv, AutoOnTrack, AutoConnectPid
    PROVE  AutoOnTrack'
<1>0. /\ UNCHANGED <<dirVars, tried, left, found, steady>> /\ Settled' = Settled
      /\ Listening' = Listening /\ search = "one"
      /\ search' \in {"connected", "cannot connect"}
  BY DEF AutoConnectPid, AutoConnected, dirVars, Settled, Listening
<1>1. ASSUME NEW p \in steady \cap Settled PROVE search' # "cannot connect"
  <2>1. found = {p}
    BY <1>0, <1>1 DEF AutoOnTrack
  <2>2. PathOf(p) = p
    BY <2>1 DEF AutoOnTrack, PidNames, PathOf
  <2>3. Behind(p) # Nothing
    BY <1>1, <2>2, BehindSettled DEF AutoOnTrack
  <2>4. (CHOOSE n \in found : TRUE) = p
    BY <2>1
  <2> QED
    BY <2>3, <2>4 DEF AutoConnectPid, AutoConnected
<1> QED
  BY <1>0, <1>1 DEF AutoOnTrack, PidNames

\* Every step keeps the search on track.
LEMMA TrackNext == EndInv /\ AutoOnTrack /\ [EndNext]_endVars => AutoOnTrack'
<1> SUFFICES ASSUME EndInv, AutoOnTrack, [EndNext]_endVars PROVE AutoOnTrack'
  OBVIOUS
<1>1. ASSUME NEW p \in Procs,
             \/ OpenUnlink(p) \/ OpenSocketFails(p) \/ OpenBind(p) \/ OpenBindFails(p)
             \/ OpenListen(p) \/ OpenListenFails(p)
             \/ CloseSocket(p) \/ CloseUnlink(p) \/ Crash(p)
      PROVE  AutoOnTrack'
  BY <1>1, TrackProcess
<1>2. CASE AutoBegin
  <2>1. /\ UNCHANGED <<dirVars, tried, left, found>> /\ Listening' = Listening
        /\ search' = "roles" /\ steady' = Listening /\ search = "idle" /\ tried = 0
    BY <1>2 DEF AutoBegin, dirVars, Listening, AutoOnTrack
  <2>2. \A p \in Procs : RoleOf[p] \in {NoRole} \cup {Roles[i] : i \in tried' + 1..Len(Roles)}
    BY <2>1, EndpointAssumption
  <2> QED
    BY <2>1, <2>2 DEF AutoOnTrack, Listening, PidNames
<1>3. CASE AutoRole
  BY <1>3, TrackRole
<1>4. ASSUME NEW n \in PidNames, AutoVisit(n) PROVE AutoOnTrack'
  BY <1>4, TrackVisit
<1>5. CASE AutoDecide
  BY <1>5, TrackDecide
<1>6. CASE AutoConnectPid
  BY <1>6, TrackConnect
<1>7. CASE UNCHANGED endVars
  BY <1>7 DEF endVars, dirVars, autoVars, AutoOnTrack, Listening, Settled, PidNames
<1> QED
  BY <1>1, <1>2, <1>3, <1>4, <1>5, <1>6, <1>7 DEF EndNext

\* When auto finds no session, or cannot connect to the only one, no settled
\* server has been listening since the search began (main of displayxr-mcp),
\* however the processes start, stop and crash meanwhile.
THEOREM AutoMissesNobodyAlways == EndSpec => []AutoMissesNobody
<1>1. AutoOnTrack => AutoMissesNobody
  BY DEF AutoOnTrack, AutoMissesNobody
<1> QED
  BY <1>1, TrackInit, TrackNext, EndInvAlways, PTL DEF EndSpec

-----------------------------------------------------------------------------
\* A name leads to no socket but one that was bound to it.
THEOREM BoundToNameAlways == EndSpec => []BoundToName
<1>1. EndInit => BoundToName
  BY EndpointAssumption DEF EndInit, BoundToName
<1>2. EndInv /\ BoundToName /\ [EndNext]_endVars => BoundToName'
  <2> SUFFICES ASSUME EndInv, BoundToName, [EndNext]_endVars, NEW n \in Names, dir'[n] \in Procs
               PROVE  PathOf(dir'[n]) = n
    BY DEF BoundToName, PathOf
  <2>1. CASE dir'[n] = dir[n]
    BY <2>1 DEF BoundToName
  <2>2. ASSUME NEW p \in Procs,
               \/ OpenUnlink(p) \/ OpenListenFails(p) \/ CloseUnlink(p) \/ Crash(p)
        PROVE  dir'[n] = dir[n]
    BY <2>2, EndpointAssumption DEF OpenUnlink, OpenListenFails, CloseUnlink, Crash, Unlinked,
                                    EndInv, EndTypeOK
  <2>3. ASSUME NEW p \in Procs, OpenBind(p) PROVE PathOf(dir'[n]) = n
    <3>1. dir'[n] = IF n = PathOf(p) THEN p ELSE dir[n]
      BY <2>3 DEF OpenBind, EndInv, EndTypeOK
    <3> QED
      BY <3>1, <2>1
  <2>4. \/ \E p \in Procs :
              \/ OpenUnlink(p) \/ OpenListenFails(p) \/ CloseUnlink(p) \/ Crash(p)
              \/ OpenBind(p)
        \/ UNCHANGED dir
    BY DEF EndNext, OpenSocketFails, OpenBindFails, OpenListen, CloseSocket, AutoBegin,
           AutoRole, TryRole, AutoDecide, AutoConnectPid, AutoVisit, dirVars, endVars
  <2> QED
    BY <2>1, <2>2, <2>3, <2>4
<1> QED
  BY <1>1, <1>2, EndInvAlways, PTL DEF EndSpec

\* The priority of a process is the place of its role, and the place behind the
\* last role when it has none.
LEMMA PriorityFacts ==
    ASSUME NEW p \in Procs
    PROVE  /\ RoleOf[p] = NoRole => Priority(p) = Len(Roles) + 1
           /\ \A i \in 1..Len(Roles) : RoleOf[p] = Roles[i] => Priority(p) = i
BY EndpointAssumption DEF Priority

\* The strengthening of AutoPrefersRoles.
Preferred ==
    search = "connected" =>
        /\ reached \in Procs
        /\ \A p \in steady \cap Settled : Priority(reached) <= Priority(p)

\* A step that connects connects to the best, and no other step spoils that.
LEMMA PreferredNext ==
    EndInv /\ BoundToName /\ AutoOnTrack /\ Preferred /\ [EndNext]_endVars => Preferred'
<1> SUFFICES ASSUME EndInv, BoundToName, AutoOnTrack, Preferred, [EndNext]_endVars,
                    search' = "connected"
             PROVE  /\ reached' \in Procs
                    /\ \A p \in steady' \cap Settled' : Priority(reached') <= Priority(p)
  BY Zenon DEF Preferred, Priority
<1>1. CASE search = "connected"
  <2>1. UNCHANGED reached /\ steady' \subseteq steady /\ Settled' \subseteq Settled
    BY <1>1 DEF EndNext, OpenUnlink, OpenSocketFails, OpenBind, OpenBindFails, OpenListen,
           OpenListenFails, CloseSocket, CloseUnlink, Crash, AutoBegin, AutoRole, TryRole,
           AutoDecide, AutoConnectPid, AutoVisit, autoVars, dirVars, endVars, Settled
  <2> QED
    BY <1>1, <2>1 DEF Preferred
<1>2. CASE search # "connected"
  <2>1. AutoRole \/ AutoConnectPid
    BY <1>2 DEF EndNext, OpenUnlink, OpenSocketFails, OpenBind, OpenBindFails, OpenListen,
           OpenListenFails, CloseSocket, CloseUnlink, Crash, AutoBegin,
           AutoDecide, AutoVisit, autoVars, endVars
  <2>2. CASE AutoRole
    <3>1. /\ reached' = Behind(Roles[tried + 1]) /\ reached' # Nothing
          /\ search = "roles" /\ steady' = steady /\ Settled' = Settled
          /\ tried \in Nat /\ tried + 1 \in 1..Len(Roles) /\ Len(Roles) \in Nat
      BY <2>2, EndpointAssumption DEF AutoRole, TryRole, AutoConnected, AutoOnTrack, dirVars, Settled
    <3>2. reached' \in Procs /\ PathOf(reached') = Roles[tried + 1]
      BY <3>1 DEF Behind, Listening, BoundToName, Names, RoleNames
    <3>3. RoleOf[reached'] = Roles[tried + 1]
      BY <3>1, <3>2, EndpointAssumption DEF PathOf
    <3>4. Priority(reached') = tried + 1
      BY <3>1, <3>2, <3>3, PriorityFacts
    <3>5. ASSUME NEW p \in steady \cap Settled PROVE tried + 1 <= Priority(p)
      <4>1. p \in Procs /\ RoleOf[p] \in {NoRole} \cup {Roles[i] : i \in tried + 1..Len(Roles)}
        BY <3>1, <3>5 DEF AutoOnTrack, Settled
      <4>2. CASE RoleOf[p] = NoRole
        BY <4>1, <4>2, <3>1, PriorityFacts
      <4>3. ASSUME NEW i \in tried + 1..Len(Roles), RoleOf[p] = Roles[i]
            PROVE  tried + 1 <= Priority(p)
        BY <4>1, <4>3, <3>1, PriorityFacts
      <4> QED
        BY <4>1, <4>2, <4>3
    <3> QED
      BY <3>1, <3>2, <3>4, <3>5
  <2>3. CASE AutoConnectPid
    <3> DEFINE n == CHOOSE n \in found : TRUE
    <3>1. /\ reached' = Behind(n) /\ reached' # Nothing
          /\ search = "one" /\ steady' = steady /\ Settled' = Settled
      BY <2>3 DEF AutoConnectPid, AutoConnected, dirVars, Settled
    <3>2. reached' \in Procs
      BY <3>1 DEF Behind, Listening
    <3>3. ASSUME NEW p \in steady \cap Settled PROVE Priority(reached') <= Priority(p)
      <4>1. found = {p} /\ n = p
        BY <3>1, <3>3 DEF AutoOnTrack
      <4>2. p \in Procs /\ p \in Listening /\ PathOf(p) = p /\ RoleOf[p] = NoRole
        BY <4>1, <3>3 DEF AutoOnTrack, PidNames, PathOf, Settled
      <4>3. reached' = p
        BY <3>1, <3>3, <4>1, <4>2, BehindSettled
      <4>4. Priority(p) \in Nat
        BY <4>2, PriorityFacts, EndpointAssumption
      <4> QED
        BY <4>3, <4>4
    <3> QED
      BY <3>1, <3>2, <3>3
  <2> QED
    BY <2>1, <2>2, <2>3
<1> QED
  BY <1>1, <1>2

\* auto connects to the first role in its order that a settled server has been
\* listening for since the search began, and to a pid only when there is none
\* (main of displayxr-mcp).
THEOREM AutoPrefersRolesAlways == EndSpec => []AutoPrefersRoles
<1>1. EndInit => Preferred
  BY DEF EndInit, Preferred
<1>2. Preferred => AutoPrefersRoles
  BY DEF Preferred, AutoPrefersRoles
<1>3. EndSpec => []AutoOnTrack
  BY TrackInit, TrackNext, EndInvAlways, PTL DEF EndSpec
<1> QED
  BY <1>1, <1>2, <1>3, PreferredNext, EndInvAlways, BoundToNameAlways, PTL DEF EndSpec

-----------------------------------------------------------------------------
(***************************************************************************)
(* Proofs about the audit log, for any writers and processes and any size  *)
(* of the file, on both platforms and with a crash at any moment.          *)
(*                                                                         *)
(* Neither property is inductive.  That the recent entries are kept rests  *)
(* on the order of the entries in the current file and on what a writer    *)
(* that is alone may conclude from its stat; the bound on the disk rests   *)
(* on counting, next to the entries of a file, the appends to it that are  *)
(* past their stat.                                                        *)
(***************************************************************************)

AuditTypes ==
    /\ os \in {"posix", "win32"}
    /\ files \in Seq(Seq(Nat)) /\ current \in 0..Len(files) /\ backup \in 0..Len(files)
    /\ mutex \in [Processes -> Writers \cup {NoWriter}]
    /\ wpc \in [Writers -> {"idle", "stat", "remove", "rename", "open", "write"}]
    /\ opened \in [Writers -> 0..Len(files)]
    /\ written \in Nat /\ overlapped \in BOOLEAN

\* The mutex of a process is held by the thread that is in mcp_audit_append,
\* which has a file open when it writes.
MutexInv ==
    /\ \A w \in Writers : Busy(w) <=> mutex[ProcessOf[w]] = w
    /\ \A w \in Writers : opened[w] # 0 <=> wpc[w] = "write"

\* What a writer knows while no other process appends.
AloneInv ==
    ~overlapped =>
        /\ \A v, w \in Writers : Busy(v) /\ Busy(w) => v = w
        /\ \A w \in Writers : /\ wpc[w] \in {"remove", "rename"} => NeedsRotation
                              /\ wpc[w] = "rename" => backup = 0
                              /\ opened[w] # 0 => opened[w] = current

\* ... and then the current file ends with the newest entry, with none left out.
OrderInv ==
    ~overlapped /\ current # 0 =>
        /\ Len(files[current]) <= written
        /\ \A i \in 1..Len(files[current]) : files[current][i] = (written - Len(files[current])) + i

\* The processes that may still append to file f without another stat.
Appends(w, f) == opened[w] = f \/ (f = current /\ wpc[w] = "open")
Pending(f) == {q \in Processes : \E w \in Writers : ProcessOf[w] = q /\ Appends(w, f)}

\* The size of a file, counting them.
PendingInv ==
    \/ os = "win32" /\ overlapped
    \/ \A f \in 1..Len(files) :
          Len(files[f]) + Cardinality(Pending(f)) < MAX_FILE + Cardinality(Processes)

AuditInv == AuditTypes /\ MutexInv /\ AloneInv /\ OrderInv /\ RecentKept /\ PendingInv

-----------------------------------------------------------------------------
AuditStep(w) ==
    \/ AuditLock(w) \/ AuditStat(w) \/ AuditRemove(w) \/ AuditRename(w)
    \/ AuditOpen(w) \/ AuditOpenFails(w) \/ AuditWrite(w)

\* The constants that are numbers, and the processes of the writers.
LEMMA AuditConstants ==
    /\ MAX_FILE \in Nat /\ MAX_FILE > 0 /\ MaxEntries \in Nat
    /\ NoWriter \notin Writers /\ IsFiniteSet(Processes) /\ Cardinality(Processes) \in Nat
    /\ \A w \in Writers : ProcessOf[w] \in Processes
<1>1. IsFiniteSet(Processes)
  BY AuditAssumption
<1> QED
  BY <1>1, AuditAssumption, FS_CardinalityType DEF Processes

\* Where a step leaves the writers: only its own moves.
LEMMA AuditGoes ==
    ASSUME AuditTypes, NEW w \in Writers, NEW from, NEW to, Goes(w, from, to)
    PROVE  wpc[w] = from /\ wpc'[w] = to /\ \A v \in Writers \ {w} : wpc'[v] = wpc[v]
  BY DEF AuditTypes, Goes

\* What fopen makes of the files.
LEMMA AuditOpens ==
    ASSUME AuditTypes, NEW w \in Writers, AuditOpen(w)
    PROVE  /\ files' \in Seq(Seq(Nat)) /\ current' \in 1..Len(files') /\ Len(files) <= Len(files')
           /\ \A f \in 1..Len(files) : files'[f] = files[f]
           /\ current # 0 => files' = files /\ current' = current
           /\ current = 0 => Len(files') = Len(files) + 1 /\ current' = Len(files') /\ files'[current'] = <<>>
           /\ opened'[w] = current' /\ \A v \in Writers \ {w} : opened'[v] = opened[v]
           /\ opened' \in [Writers -> 0..Len(files')]
<1>1. files \in Seq(Seq(Nat)) /\ <<>> \in Seq(Nat)
  BY DEF AuditTypes
<1>2. Len(files) \in Nat
  BY <1>1
<1>3. current = 0 => files' = Append(files, <<>>) /\ current' = Len(files')
  BY DEF AuditOpen
<1>4. current # 0 => files' = files /\ current' = current
  BY DEF AuditOpen
<1>5. /\ Append(files, <<>>) \in Seq(Seq(Nat)) /\ Len(Append(files, <<>>)) = Len(files) + 1
      /\ \A f \in 1..Len(files) : Append(files, <<>>)[f] = files[f]
      /\ Append(files, <<>>)[Len(files) + 1] = <<>>
  BY <1>1
<1>6. /\ files' \in Seq(Seq(Nat)) /\ current' \in 1..Len(files') /\ Len(files) <= Len(files')
      /\ \A f \in 1..Len(files) : files'[f] = files[f]
  <2>1. CASE current = 0
    <3>1. files' = Append(files, <<>>) /\ current' = Len(files')
      BY <1>3, <2>1
    <3> QED
      BY <1>2, <1>5, <3>1
  <2>2. CASE current # 0
    BY <1>1, <1>2, <1>4, <2>2 DEF AuditTypes
  <2> QED
    BY <2>1, <2>2
<1>7. current = 0 => Len(files') = Len(files) + 1 /\ current' = Len(files') /\ files'[current'] = <<>>
  BY <1>3, <1>5
<1>8. opened' = [opened EXCEPT ![w] = current']
  BY DEF AuditOpen
<1>9. opened \in [Writers -> 0..Len(files)] /\ Len(files') \in Nat
  BY <1>6 DEF AuditTypes
<1>10. opened' \in [Writers -> 0..Len(files')]
  BY <1>2, <1>6, <1>8, <1>9
<1> QED
  BY <1>4, <1>6, <1>7, <1>8, <1>9, <1>10

\* What a write makes of them.
LEMMA AuditWrites ==
    ASSUME AuditTypes, MutexInv, NEW w \in Writers, AuditWrite(w)
    PROVE  /\ opened[w] \in 1..Len(files) /\ files' \in Seq(Seq(Nat)) /\ Len(files') = Len(files)
           /\ files'[opened[w]] = Append(files[opened[w]], written + 1)
           /\ files[opened[w]] \in Seq(Nat)
           /\ \A f \in (1..Len(files)) \ {opened[w]} : files'[f] = files[f]
           /\ opened'[w] = 0 /\ \A v \in Writers \ {w} : opened'[v] = opened[v]
<1>1. wpc[w] = "write"
  BY DEF AuditWrite, Goes
<1>2. opened[w] \in 1..Len(files) /\ files[opened[w]] \in Seq(Nat)
  BY <1>1 DEF AuditTypes, MutexInv
<1>3. Append(files[opened[w]], written + 1) \in Seq(Nat)
  BY <1>2 DEF AuditTypes
<1>4. files' = [files EXCEPT ![opened[w]] = Append(files[opened[w]], written + 1)]
  BY DEF AuditWrite
<1>5. files \in Seq(Seq(Nat))
  BY DEF AuditTypes
<1>6. /\ files' \in Seq(Seq(Nat)) /\ Len(files') = Len(files)
      /\ files'[opened[w]] = Append(files[opened[w]], written + 1)
      /\ \A f \in (1..Len(files)) \ {opened[w]} : files'[f] = files[f]
  BY <1>2, <1>3, <1>4, <1>5
<1>7. opened'[w] = 0 /\ \A v \in Writers \ {w} : opened'[v] = opened[v]
  BY DEF AuditWrite, AuditTypes
<1> QED
  BY <1>2, <1>6, <1>7

\* The types are kept.
LEMMA AuditTypesStep ==
    ASSUME AuditTypes, MutexInv, AuditNext
    PROVE  AuditTypes'
<1> USE AuditConstants
<1>1. ASSUME NEW w \in Writers, AuditLock(w)
      PROVE  AuditTypes'
  BY <1>1 DEF AuditTypes, AuditLock, Goes
<1>2. ASSUME NEW w \in Writers, AuditStat(w)
      PROVE  AuditTypes'
  BY <1>2 DEF AuditTypes, AuditStat, Goes
<1>3. ASSUME NEW w \in Writers, AuditRemove(w)
      PROVE  AuditTypes'
  BY <1>3 DEF AuditTypes, AuditRemove, Goes
<1>4. ASSUME NEW w \in Writers, AuditRename(w)
      PROVE  AuditTypes'
  BY <1>4 DEF AuditTypes, AuditRename, Goes
<1>5. ASSUME NEW w \in Writers, AuditOpen(w)
      PROVE  AuditTypes'
  <2>1. /\ files' \in Seq(Seq(Nat)) /\ current' \in 1..Len(files') /\ Len(files) <= Len(files')
        /\ opened' \in [Writers -> 0..Len(files')] /\ Len(files') \in Nat /\ Len(files) \in Nat
    BY <1>5, AuditOpens DEF AuditTypes
  <2>2. current' \in 0..Len(files') /\ backup' \in 0..Len(files')
    BY <1>5, <2>1 DEF AuditOpen, AuditTypes
  <2>3. wpc' \in [Writers -> {"idle", "stat", "remove", "rename", "open", "write"}]
    BY <1>5 DEF AuditOpen, AuditTypes, Goes
  <2> QED
    BY <1>5, <2>1, <2>2, <2>3 DEF AuditOpen, AuditTypes
<1>6. ASSUME NEW w \in Writers, AuditOpenFails(w)
      PROVE  AuditTypes'
  BY <1>6 DEF AuditTypes, AuditOpenFails, Goes, Unlock
<1>7. ASSUME NEW w \in Writers, AuditWrite(w)
      PROVE  AuditTypes'
  <2>1. files' \in Seq(Seq(Nat)) /\ Len(files') = Len(files) /\ Len(files) \in Nat
    BY <1>7, AuditWrites DEF AuditTypes
  <2>2. opened' \in [Writers -> 0..Len(files')]
    BY <1>7, <2>1 DEF AuditWrite, AuditTypes
  <2>3. wpc' \in [Writers -> {"idle", "stat", "remove", "rename", "open", "write"}]
    BY <1>7 DEF AuditWrite, AuditTypes, Goes
  <2>4. mutex' \in [Processes -> Writers \cup {NoWriter}]
    BY <1>7 DEF AuditWrite, AuditTypes, Unlock
  <2> QED
    BY <1>7, <2>1, <2>2, <2>3, <2>4 DEF AuditWrite, AuditTypes
<1>8. ASSUME NEW q \in Processes, AuditCrash(q)
      PROVE  AuditTypes'
  BY <1>8 DEF AuditTypes, AuditCrash
<1> QED
  BY <1>1, <1>2, <1>3, <1>4, <1>5, <1>6, <1>7, <1>8 DEF AuditNext

\* The mutex is held by whoever is in mcp_audit_append.
LEMMA MutexStep ==
    ASSUME AuditTypes, MutexInv, AuditNext
    PROVE  MutexInv'
<1> USE AuditConstants
<1>1. ASSUME NEW w \in Writers, AuditLock(w)
      PROVE  MutexInv'
  BY <1>1 DEF AuditTypes, MutexInv, AuditLock, Goes, Busy
<1>2. ASSUME NEW w \in Writers, AuditStat(w)
      PROVE  MutexInv'
  BY <1>2 DEF AuditTypes, MutexInv, AuditStat, Goes, Busy
<1>3. ASSUME NEW w \in Writers, AuditRemove(w) \/ AuditRename(w)
      PROVE  MutexInv'
  BY <1>3 DEF AuditTypes, MutexInv, AuditRemove, AuditRename, Goes, Busy
<1>4. ASSUME NEW w \in Writers, AuditOpen(w)
      PROVE  MutexInv'
  <2>1. opened'[w] # 0 /\ \A v \in Writers \ {w} : opened'[v] = opened[v]
    BY <1>4, AuditOpens
  <2>2. mutex' = mutex /\ Goes(w, "open", "write")
    BY <1>4 DEF AuditOpen
  <2> QED
    BY <2>1, <2>2, AuditGoes DEF MutexInv, Busy
<1>5. ASSUME NEW w \in Writers, AuditOpenFails(w) \/ AuditWrite(w)
      PROVE  MutexInv'
  <2>1. /\ wpc[w] \in {"open", "write"} /\ wpc'[w] = "idle"
        /\ \A v \in Writers \ {w} : wpc'[v] = wpc[v]
    BY <1>5 DEF AuditTypes, AuditOpenFails, AuditWrite, Goes
  <2>2. /\ mutex[ProcessOf[w]] = w /\ mutex'[ProcessOf[w]] = NoWriter
        /\ \A q \in Processes \ {ProcessOf[w]} : mutex'[q] = mutex[q]
    BY <1>5, <2>1 DEF AuditTypes, MutexInv, AuditOpenFails, AuditWrite, Unlock, Busy
  <2>3. \A v \in Writers \ {w} : opened'[v] = opened[v]
    BY <1>5 DEF AuditTypes, AuditOpenFails, AuditWrite
  <2>4. opened'[w] = 0
    BY <1>5, <2>1 DEF AuditTypes, MutexInv, AuditOpenFails, AuditWrite, Goes
  <2>5. \A v \in Writers : Busy(v)' <=> mutex'[ProcessOf[v]] = v
    BY <2>1, <2>2 DEF MutexInv, Busy
  <2>6. \A v \in Writers : opened'[v] # 0 <=> wpc'[v] = "write"
    BY <2>1, <2>3, <2>4 DEF MutexInv
  <2> QED
    BY <2>5, <2>6 DEF MutexInv
<1>6. ASSUME NEW q \in Processes, AuditCrash(q)
      PROVE  MutexInv'
  BY <1>6 DEF AuditTypes, MutexInv, AuditCrash, Busy
<1> QED
  BY <1>1, <1>2, <1>3, <1>4, <1>5, <1>6 DEF AuditNext

\* Until two processes have been in mcp_audit_append at a time, one has been.
LEMMA Alone ==
    ASSUME AuditTypes, MutexInv, AloneInv, ~overlapped, NEW w \in Writers, Busy(w)
    PROVE  \A v \in Writers \ {w} : wpc[v] = "idle" /\ opened[v] = 0
  BY DEF AuditTypes, MutexInv, AloneInv, Busy

\* That they have been is never forgotten.
LEMMA OverlapStays ==
    ASSUME AuditTypes, AuditNext
    PROVE  overlapped => overlapped'
  BY DEF AuditTypes, AuditNext, AuditLock, AuditStat, AuditRemove, AuditRename, AuditOpen,
         AuditOpenFails, AuditWrite, AuditCrash

\* A writer that is alone goes from its stat to its write undisturbed.
LEMMA AloneStep ==
    ASSUME AuditTypes, MutexInv, AloneInv, AuditNext
    PROVE  AloneInv'
<1>0. SUFFICES ASSUME ~overlapped, ~overlapped'
               PROVE  /\ \A v, w \in Writers : Busy(v)' /\ Busy(w)' => v = w
                      /\ \A w \in Writers : /\ wpc'[w] \in {"remove", "rename"} => NeedsRotation'
                                            /\ wpc'[w] = "rename" => backup' = 0
                                            /\ opened'[w] # 0 => opened'[w] = current'
  BY OverlapStays DEF AloneInv
<1>1. ASSUME NEW w \in Writers, AuditLock(w)
      PROVE  AloneInv'
  <2>1. \A v \in Writers : wpc[v] = "idle" /\ opened[v] = 0
    BY <1>0, <1>1 DEF AuditLock, Busy, MutexInv
  <2>2. wpc'[w] = "stat" /\ (\A v \in Writers \ {w} : wpc'[v] = wpc[v]) /\ opened' = opened
    BY <1>1 DEF AuditLock, AuditTypes, Goes
  <2> QED
    BY <2>1, <2>2 DEF AloneInv, Busy
<1>2. ASSUME NEW w \in Writers, AuditStep(w), ~AuditLock(w)
      PROVE  AloneInv'
  <2>1. Busy(w)
    BY <1>2 DEF AuditStep, AuditStat, AuditRemove, AuditRename, AuditOpen, AuditOpenFails,
                AuditWrite, Goes, Busy
  <2>2. \A v \in Writers \ {w} : wpc[v] = "idle" /\ opened[v] = 0
    BY <1>0, <2>1, Alone
  <2>3. \A v \in Writers \ {w} : wpc'[v] = "idle" /\ opened'[v] = 0
    BY <1>2, <2>2 DEF AuditTypes, AuditStep, AuditStat, AuditRemove, AuditRename, AuditOpen,
                      AuditOpenFails, AuditWrite, Goes
  <2>4. /\ wpc'[w] \in {"remove", "rename"} => NeedsRotation'
        /\ wpc'[w] = "rename" => backup' = 0
        /\ opened'[w] # 0 => opened'[w] = current'
    <3>1. CASE AuditStat(w)
      BY <1>0, <3>1 DEF AuditStat, AuditTypes, MutexInv, Goes, NeedsRotation, SizeOf
    <3>2. CASE AuditRemove(w)
      BY <1>0, <3>2 DEF AuditRemove, AuditTypes, MutexInv, AloneInv, Goes, NeedsRotation, SizeOf
    <3>3. CASE AuditRename(w)
      BY <3>3 DEF AuditRename, AuditTypes, MutexInv, Goes
    <3>4. CASE AuditOpen(w)
      <4>1. wpc'[w] = "write"
        BY <3>4 DEF AuditOpen, AuditTypes, Goes
      <4> QED
        BY <3>4, <4>1, AuditOpens
    <3>5. CASE AuditOpenFails(w) \/ AuditWrite(w)
      BY <3>5 DEF AuditOpenFails, AuditWrite, AuditTypes, MutexInv, Goes
    <3> QED
      BY <1>2, <3>1, <3>2, <3>3, <3>4, <3>5 DEF AuditStep
  <2> QED
    BY <2>3, <2>4 DEF AloneInv, Busy
<1>3. ASSUME NEW q \in Processes, AuditCrash(q)
      PROVE  AloneInv'
  <2>1. \A v \in Writers : wpc'[v] \in {"idle", wpc[v]} /\ opened'[v] \in {0, opened[v]}
    BY <1>3 DEF AuditCrash
  <2>2. UNCHANGED <<files, current, backup>>
    BY <1>3 DEF AuditCrash
  <2> QED
    BY <1>0, <2>1, <2>2 DEF AloneInv, Busy, NeedsRotation, SizeOf
<1>4. AloneInv'
  BY <1>1, <1>2, <1>3 DEF AuditNext, AuditStep
<1> QED
  BY <1>0, <1>4 DEF AloneInv

\* Which steps touch what is kept.
LEMMA AuditFrame ==
    ASSUME AuditNext
    PROVE  \/ UNCHANGED <<files, current, backup, written>>
           \/ \E w \in Writers : AuditRemove(w) \/ AuditRename(w) \/ AuditOpen(w) \/ AuditWrite(w)
  BY DEF AuditNext, AuditLock, AuditStat, AuditOpenFails, AuditCrash

\* The current file holds the newest entries in order.
LEMMA OrderStep ==
    ASSUME AuditTypes, MutexInv, AloneInv, OrderInv, AuditNext
    PROVE  OrderInv'
<1>0. SUFFICES ASSUME ~overlapped, ~overlapped', current' # 0
               PROVE  OrderInv'
  BY OverlapStays DEF OrderInv
<1>1. CASE UNCHANGED <<files, current, backup, written>>
  BY <1>0, <1>1 DEF OrderInv
<1>2. ASSUME NEW w \in Writers, AuditRemove(w) \/ AuditRename(w)
      PROVE  OrderInv'
  BY <1>0, <1>2 DEF OrderInv, AuditRemove, AuditRename
<1>3. ASSUME NEW w \in Writers, AuditOpen(w)
      PROVE  OrderInv'
  <2>1. written' = written /\ written \in Nat
    BY <1>3 DEF AuditOpen, AuditTypes
  <2>2. CASE current = 0
    <3>1. files'[current'] = <<>>
      BY <1>3, <2>2, AuditOpens
    <3> QED
      BY <2>1, <3>1 DEF OrderInv
  <2>3. CASE current # 0
    <3>1. files' = files /\ current' = current
      BY <1>3, <2>3, AuditOpens
    <3> QED
      BY <1>0, <2>1, <3>1 DEF OrderInv
  <2> QED
    BY <2>2, <2>3
<1>4. ASSUME NEW w \in Writers, AuditWrite(w)
      PROVE  OrderInv'
  <2>1. opened[w] = current /\ current' = current /\ written' = written + 1 /\ written \in Nat
    <3>1. opened[w] # 0
      BY <1>4, AuditWrites
    <3> QED
      BY <1>0, <1>4, <3>1 DEF AloneInv, AuditWrite, AuditTypes
  <2> DEFINE q == files[current]
  <2>2. q \in Seq(Nat) /\ files'[current'] = Append(q, written + 1)
    BY <1>4, <2>1, AuditWrites
  <2>3. Len(q) \in Nat /\ Len(q) <= written /\ \A i \in 1..Len(q) : q[i] = (written - Len(q)) + i
    <3>1. Len(q) <= written /\ \A i \in 1..Len(q) : q[i] = (written - Len(q)) + i
      BY <1>0, <2>1, Zenon DEF OrderInv
    <3> QED
      BY <2>2, <3>1
  <2> HIDE DEF q
  <2>4. /\ Len(Append(q, written + 1)) = Len(q) + 1
        /\ \A i \in 1..Len(q) + 1 : Append(q, written + 1)[i] = IF i = Len(q) + 1 THEN written + 1 ELSE q[i]
    BY <2>1, <2>2
  <2>5. /\ Len(q) + 1 <= written + 1
        /\ \A i \in 1..Len(q) + 1 :
              Append(q, written + 1)[i] = ((written + 1) - (Len(q) + 1)) + i
    BY <2>1, <2>3, <2>4
  <2> QED
    BY <2>1, <2>2, <2>4, <2>5 DEF OrderInv
<1> QED
  BY <1>1, <1>2, <1>3, <1>4, AuditFrame

\* Where entry n is in a file of L entries that ends with entry k.
LEMMA PlaceOf ==
    ASSUME NEW k \in Nat, NEW L \in Nat, NEW M \in Nat, NEW n \in 1..k, L <= k, L >= M, n + M > k
    PROVE  \E i \in 1..L : (k - L) + i = n
<1>1. PICK i \in Nat : n + L = i + k
  <2>1. (n + L) - k \in Nat
    OBVIOUS
  <2> QED
    BY <2>1
<1>2. i \in 1..L /\ (k - L) + i = n
  BY <1>1
<1> QED
  BY <1>2

\* A file that has grown to its limit has all the recent entries.
LEMMA FullHasRecent ==
    ASSUME AuditTypes, OrderInv, ~overlapped, NeedsRotation
    PROVE  /\ current # 0
           /\ \A n \in 1..written : n + MAX_FILE > written => n \in EntriesOf(current)
<1>1. current # 0 /\ Len(files[current]) >= MAX_FILE
  BY AuditConstants DEF NeedsRotation, SizeOf
<1>2. Len(files[current]) \in Nat
  BY <1>1 DEF AuditTypes
<1>3. ASSUME NEW n \in 1..written, n + MAX_FILE > written
      PROVE  n \in EntriesOf(current)
  <2>1. written \in Nat /\ n \in Nat
    BY DEF AuditTypes
  <2>2. Len(files[current]) <= written
    BY <1>1 DEF OrderInv
  <2>3. PICK i \in 1..Len(files[current]) : (written - Len(files[current])) + i = n
    <3>1. PICK k \in Nat, L \in Nat : k = written /\ L = Len(files[current])
      BY <1>2, <2>1
    <3>2. n \in 1..k /\ L <= k /\ L >= MAX_FILE /\ n + MAX_FILE > k
      BY <1>1, <1>3, <2>2, <3>1
    <3>3. \E i \in 1..L : (k - L) + i = n
      BY <3>2, PlaceOf, AuditConstants
    <3> QED
      BY <3>1, <3>3
  <2>4. \A j \in 1..Len(files[current]) : files[current][j] = (written - Len(files[current])) + j
    BY <1>1 DEF OrderInv
  <2>5. files[current][i] = n
    BY <2>3, <2>4, Zenon
  <2> QED
    BY <1>1, <2>3, <2>5 DEF EntriesOf
<1> QED
  BY <1>1, <1>3

\* The recent entries stay in one of the two files.
LEMMA RecentStep ==
    ASSUME AuditTypes, MutexInv, AloneInv, OrderInv, RecentKept, AuditNext
    PROVE  RecentKept'
<1>0. SUFFICES ASSUME ~overlapped, ~overlapped', NEW n \in 1..written', n + MAX_FILE > written'
               PROVE  n \in Kept'
  BY OverlapStays DEF RecentKept
<1>1. CASE UNCHANGED <<files, current, backup, written>>
  BY <1>0, <1>1 DEF RecentKept, Kept, EntriesOf
<1>2. ASSUME NEW w \in Writers, AuditRemove(w) \/ AuditRename(w)
      PROVE  n \in Kept'
  <2>1. NeedsRotation
    BY <1>0, <1>2 DEF AuditRemove, AuditRename, Goes, AloneInv
  <2>2. n \in EntriesOf(current) /\ current # 0
    BY <1>0, <1>2, <2>1, FullHasRecent DEF AuditRemove, AuditRename
  <2>3. files' = files /\ current \in {current', backup'}
    BY <1>2 DEF AuditRemove, AuditRename
  <2> QED
    BY <2>2, <2>3 DEF Kept, EntriesOf
<1>3. ASSUME NEW w \in Writers, AuditOpen(w)
      PROVE  n \in Kept'
  <2>1. n \in Kept
    BY <1>0, <1>3 DEF AuditOpen, RecentKept
  <2>2. backup' = backup /\ backup \in 0..Len(files) /\ current \in 0..Len(files)
    BY <1>3 DEF AuditOpen, AuditTypes
  <2>3. /\ \A f \in 1..Len(files) : files'[f] = files[f]
        /\ current # 0 => current' = current
    BY <1>3, AuditOpens
  <2>4. n \in EntriesOf(backup) => n \in EntriesOf(backup)'
    BY <2>2, <2>3 DEF EntriesOf
  <2>5. n \in EntriesOf(current) => n \in EntriesOf(current)'
    BY <2>2, <2>3 DEF EntriesOf
  <2> QED
    BY <2>1, <2>4, <2>5 DEF Kept
<1>4. ASSUME NEW w \in Writers, AuditWrite(w)
      PROVE  n \in Kept'
  <2>1. /\ opened[w] = current /\ current' = current /\ backup' = backup /\ written' = written + 1
        /\ written \in Nat /\ current \in 1..Len(files) /\ backup \in 0..Len(files)
    <3>1. opened[w] \in 1..Len(files) /\ opened[w] # 0
      BY <1>4, AuditWrites
    <3> QED
      BY <1>0, <1>4, <3>1 DEF AloneInv, AuditWrite, AuditTypes
  <2>2. /\ files[current] \in Seq(Nat) /\ files'[current] = Append(files[current], written + 1)
        /\ \A f \in (1..Len(files)) \ {current} : files'[f] = files[f]
    BY <1>4, <2>1, AuditWrites
  <2>3. /\ Len(files'[current]) = Len(files[current]) + 1 /\ Len(files[current]) \in Nat
        /\ files'[current][Len(files[current]) + 1] = written + 1
        /\ \A i \in 1..Len(files[current]) : files'[current][i] = files[current][i]
    BY <2>1, <2>2
  <2>4. EntriesOf(current) \subseteq EntriesOf(current)' /\ written + 1 \in EntriesOf(current)'
    BY <2>1, <2>3 DEF EntriesOf
  <2>5. EntriesOf(backup) \subseteq EntriesOf(backup)'
    <3>1. CASE backup = current
      BY <2>1, <2>4, <3>1
    <3>2. CASE backup # current
      BY <2>1, <2>2, <3>2 DEF EntriesOf
    <3> QED
      BY <3>1, <3>2
  <2>6. CASE n = written + 1
    BY <2>4, <2>6 DEF Kept
  <2>7. CASE n # written + 1
    <3>1. n \in 1..written /\ n + MAX_FILE > written
      BY <1>0, <2>1, <2>7, AuditConstants
    <3>2. n \in Kept
      BY <1>0, <3>1 DEF RecentKept
    <3> QED
      BY <2>4, <2>5, <3>2 DEF Kept
  <2> QED
    BY <2>6, <2>7
<1> QED
  BY <1>1, <1>2, <1>3, <1>4, AuditFrame

\* The processes about to append to a file are finitely many, and no more than
\* there were if no writer has been added.
LEMMA PendingCount ==
    ASSUME NEW f
    PROVE  /\ IsFiniteSet(Pending(f)) /\ Cardinality(Pending(f)) \in 0..Cardinality(Processes)
           /\ IsFiniteSet(Pending(f)') /\ Cardinality(Pending(f)') \in 0..Cardinality(Processes)
<1>1. Pending(f) \subseteq Processes /\ Pending(f)' \subseteq Processes
  BY DEF Pending
<1>2. IsFiniteSet(Processes) /\ Cardinality(Processes) \in Nat
  BY AuditConstants
<1> HIDE DEF Pending
<1>3. \A T \in SUBSET Processes : IsFiniteSet(T) /\ Cardinality(T) <= Cardinality(Processes) /\ Cardinality(T) \in Nat
  BY <1>2, FS_Subset, FS_CardinalityType
<1> QED
  BY <1>1, <1>2, <1>3

\* With no new append to a file, no more processes are about to append to it.
LEMMA PendingLess ==
    ASSUME NEW f, \A v \in Writers : Appends(v, f)' => Appends(v, f)
    PROVE  Cardinality(Pending(f)') <= Cardinality(Pending(f))
<1>1. Pending(f)' \subseteq Pending(f)
  BY DEF Pending
<1>2. IsFiniteSet(Pending(f))
  BY PendingCount
<1> HIDE DEF Pending
<1> QED
  BY <1>1, <1>2, FS_Subset

\* A write takes its process from those that were about to append to its file.
LEMMA PendingWrites ==
    ASSUME AuditTypes, MutexInv, NEW w \in Writers, AuditWrite(w), NEW f, f = opened[w]
    PROVE  Cardinality(Pending(f)') < Cardinality(Pending(f))
<1>1. ProcessOf[w] \in Pending(f)
  BY AuditConstants DEF Pending, Appends
<1>2. wpc[w] = "write" /\ wpc'[w] = "idle" /\ \A v \in Writers \ {w} : wpc'[v] = wpc[v]
  BY AuditGoes DEF AuditWrite
<1>3. opened'[w] = 0 /\ f # 0 /\ (\A v \in Writers \ {w} : opened'[v] = opened[v])
  BY AuditWrites
<1>4. current' = current
  BY DEF AuditWrite
<1>5. mutex[ProcessOf[w]] = w
  BY <1>2 DEF MutexInv, Busy
<1>6. ASSUME NEW v \in Writers, Appends(v, f)'
      PROVE  Appends(v, f) /\ ProcessOf[v] # ProcessOf[w]
  <2>1. v # w
    BY <1>2, <1>3, <1>6 DEF Appends
  <2>2. Appends(v, f)
    BY <1>2, <1>3, <1>4, <1>6, <2>1 DEF Appends
  <2>3. Busy(v)
    BY <1>3, <2>2 DEF Appends, Busy, MutexInv
  <2> QED
    BY <1>5, <2>1, <2>2, <2>3 DEF MutexInv
<1>7. Pending(f)' \subseteq Pending(f) \ {ProcessOf[w]}
  BY <1>6 DEF Pending
<1>8. IsFiniteSet(Pending(f)) /\ Cardinality(Pending(f)) \in Nat /\ Cardinality(Pending(f)') \in Nat
  BY PendingCount, AuditConstants
<1> DEFINE P == Pending(f) Q == Pending(f)'
<1>9. Q \subseteq P \ {ProcessOf[w]} /\ ProcessOf[w] \in P /\ IsFiniteSet(P)
  BY <1>1, <1>7, <1>8
<1>10. Cardinality(P) \in Nat /\ Cardinality(Q) \in Nat
  BY <1>8
<1> HIDE DEF P, Q
<1>11. IsFiniteSet(P \ {ProcessOf[w]}) /\ Cardinality(P \ {ProcessOf[w]}) = Cardinality(P) - 1
  BY <1>9, FS_RemoveElement
<1>12. Cardinality(Q) <= Cardinality(P \ {ProcessOf[w]})
  BY <1>9, <1>11, FS_Subset
<1>13. Cardinality(Q) < Cardinality(P)
  BY <1>10, <1>11, <1>12
<1> QED
  BY <1>13 DEF P, Q

\* The bound of one file.
BoundOf(f) == Len(files[f]) + Cardinality(Pending(f)) < MAX_FILE + Cardinality(Processes)

\* A file that is not written to keeps its bound, when nobody else is about to.
LEMMA BoundKept ==
    ASSUME AuditTypes, NEW f \in 1..Len(files), BoundOf(f), files'[f] = files[f],
           \A v \in Writers : Appends(v, f)' => Appends(v, f)
    PROVE  BoundOf(f)'
<1>1. Cardinality(Pending(f)') <= Cardinality(Pending(f))
  BY PendingLess
<1>2. Cardinality(Pending(f)') \in Nat /\ Cardinality(Pending(f)) \in Nat
  BY PendingCount, AuditConstants
<1>3. Len(files[f]) \in Nat
  BY DEF AuditTypes
<1>4. /\ BoundOf(f)' <=> Len(files'[f]) + Cardinality(Pending(f)') < MAX_FILE + Cardinality(Processes)
      /\ BoundOf(f) <=> Len(files[f]) + Cardinality(Pending(f)) < MAX_FILE + Cardinality(Processes)
  BY DEF BoundOf, Processes
<1> QED
  BY <1>1, <1>2, <1>3, <1>4, AuditConstants

\* A file that is not full may be about to get an entry from every process.
LEMMA BoundSmall ==
    ASSUME NEW f, Len(files'[f]) \in Nat, Len(files'[f]) < MAX_FILE
    PROVE  BoundOf(f)'
<1>1. Cardinality(Pending(f)') \in Nat /\ Cardinality(Pending(f)') <= Cardinality(Processes)
  BY PendingCount, AuditConstants
<1>2. BoundOf(f)' <=> Len(files'[f]) + Cardinality(Pending(f)') < MAX_FILE + Cardinality(Processes)
  BY DEF BoundOf, Processes
<1> QED
  BY <1>1, <1>2, AuditConstants

\* Each file stays within its bound: rotation makes way before a full file
\* gets another append, and only an append that was past its stat goes to it.
LEMMA PendingStep ==
    ASSUME AuditTypes, AuditTypes', MutexInv, AloneInv, PendingInv, AuditNext
    PROVE  PendingInv'
<1>0. SUFFICES ASSUME os = "posix" \/ ~overlapped, NEW f \in 1..Len(files')
               PROVE  BoundOf(f)'
  <2>1. os' = os
    BY DEF AuditNext, AuditLock, AuditStat, AuditRemove, AuditRename, AuditOpen, AuditOpenFails,
           AuditWrite, AuditCrash
  <2>2. os # "posix" => os = "win32"
    BY DEF AuditTypes
  <2> QED
    BY <2>1, <2>2, OverlapStays DEF PendingInv, BoundOf
<1>1. f \in 1..Len(files) => BoundOf(f)
  BY <1>0 DEF PendingInv, BoundOf
<1>2. f \in Nat /\ f # 0 /\ Len(files'[f]) \in Nat
  BY DEF AuditTypes
<1>3. ASSUME NEW w \in Writers, AuditLock(w)
      PROVE  BoundOf(f)'
  <2>1. wpc'[w] = "stat" /\ \A v \in Writers \ {w} : wpc'[v] = wpc[v]
    BY <1>3, AuditGoes DEF AuditLock
  <2>2. UNCHANGED <<files, current, opened>>
    BY <1>3 DEF AuditLock
  <2> QED
    BY <1>0, <1>1, <2>1, <2>2, BoundKept DEF Appends
<1>4. ASSUME NEW w \in Writers, AuditStat(w)
      PROVE  BoundOf(f)'
  <2>1. /\ wpc'[w] = IF NeedsRotation THEN "remove" ELSE "open"
        /\ \A v \in Writers \ {w} : wpc'[v] = wpc[v]
    BY <1>4, AuditGoes DEF AuditStat
  <2>2. UNCHANGED <<files, current, opened>>
    BY <1>4 DEF AuditStat
  <2>3. CASE f = current /\ ~NeedsRotation
    <3>1. Len(files'[f]) < MAX_FILE
      BY <1>2, <2>2, <2>3, AuditConstants DEF NeedsRotation, SizeOf
    <3> QED
      BY <1>2, <3>1, BoundSmall
  <2>4. CASE f # current \/ NeedsRotation
    <3>1. \A v \in Writers : Appends(v, f)' => Appends(v, f)
      BY <2>1, <2>2, <2>4 DEF Appends
    <3> QED
      BY <1>0, <1>1, <2>2, <3>1, BoundKept
  <2> QED
    BY <2>3, <2>4
<1>5. ASSUME NEW w \in Writers, AuditRemove(w)
      PROVE  BoundOf(f)'
  <2>1. wpc'[w] = "rename" /\ \A v \in Writers \ {w} : wpc'[v] = wpc[v]
    BY <1>5, AuditGoes DEF AuditRemove
  <2>2. UNCHANGED <<files, current, opened>>
    BY <1>5 DEF AuditRemove
  <2> QED
    BY <1>0, <1>1, <2>1, <2>2, BoundKept DEF Appends
<1>6. ASSUME NEW w \in Writers, AuditRename(w)
      PROVE  BoundOf(f)'
  <2>1. wpc[w] = "rename" /\ \A v \in Writers \ {w} : wpc'[v] = wpc[v]
    BY <1>6, AuditGoes DEF AuditRename
  <2>2. UNCHANGED <<files, opened>> /\ (Renames => current' = 0) /\ current' \in {0, current}
    BY <1>6 DEF AuditRename
  <2>3. Renames \/ current = 0
    <3>1. CASE os = "posix"
      BY <3>1 DEF Renames
    <3>2. CASE ~overlapped
      <4>1. backup = 0 /\ Busy(w) /\ opened[w] = 0
        BY <2>1, <3>2 DEF AloneInv, Busy, MutexInv
      <4>2. \A v \in Writers : opened[v] = 0
        BY <3>2, <4>1, Alone
      <4> QED
        BY <4>1, <4>2 DEF Renames
    <3> QED
      BY <1>0, <3>1, <3>2
  <2>4. current' = 0
    BY <2>2, <2>3
  <2>5. \A v \in Writers : Appends(v, f)' => Appends(v, f)
    BY <1>2, <2>2, <2>4 DEF Appends
  <2> QED
    BY <1>0, <1>1, <2>2, <2>5, BoundKept
<1>7. ASSUME NEW w \in Writers, AuditOpen(w)
      PROVE  BoundOf(f)'
  <2>1. wpc[w] = "open" /\ wpc'[w] = "write" /\ \A v \in Writers \ {w} : wpc'[v] = wpc[v]
    BY <1>7, AuditGoes DEF AuditOpen
  <2>2. opened'[w] = current' /\ \A v \in Writers \ {w} : opened'[v] = opened[v]
    BY <1>7, AuditOpens
  <2>3. CASE current = 0 /\ f = current'
    <3>1. Len(files'[f]) < MAX_FILE
      BY <1>7, <2>3, AuditOpens, AuditConstants
    <3> QED
      BY <1>2, <3>1, BoundSmall
  <2>4. CASE current = 0 /\ f # current'
    <3>1. f \in 1..Len(files) /\ files'[f] = files[f]
      <4>1. Len(files') = Len(files) + 1 /\ current' = Len(files')
        BY <1>7, <2>4, AuditOpens
      <4>2. f \in 1..Len(files)
        BY <1>0, <1>2, <2>4, <4>1 DEF AuditTypes
      <4> QED
        BY <1>7, <4>2, AuditOpens
    <3>2. \A v \in Writers : Appends(v, f)' => Appends(v, f)
      BY <2>1, <2>2, <2>4 DEF Appends
    <3> QED
      BY <1>1, <3>1, <3>2, BoundKept
  <2>5. CASE current # 0
    <3>1. files' = files /\ current' = current
      BY <1>7, <2>5, AuditOpens
    <3>2. \A v \in Writers : Appends(v, f)' => Appends(v, f)
      BY <2>1, <2>2, <3>1 DEF Appends
    <3> QED
      BY <1>0, <1>1, <3>1, <3>2, BoundKept
  <2> QED
    BY <2>3, <2>4, <2>5
<1>8. ASSUME NEW w \in Writers, AuditOpenFails(w)
      PROVE  BoundOf(f)'
  <2>1. wpc'[w] = "idle" /\ \A v \in Writers \ {w} : wpc'[v] = wpc[v]
    BY <1>8, AuditGoes DEF AuditOpenFails
  <2>2. UNCHANGED <<files, current, opened>>
    BY <1>8 DEF AuditOpenFails
  <2> QED
    BY <1>0, <1>1, <2>1, <2>2, BoundKept DEF Appends
<1>9. ASSUME NEW w \in Writers, AuditWrite(w)
      PROVE  BoundOf(f)'
  <2>1. wpc'[w] = "idle" /\ \A v \in Writers \ {w} : wpc'[v] = wpc[v]
    BY <1>9, AuditGoes DEF AuditWrite
  <2>2. /\ opened'[w] = 0 /\ (\A v \in Writers \ {w} : opened'[v] = opened[v])
        /\ Len(files') = Len(files)
    BY <1>9, AuditWrites
  <2>3. current' = current /\ written \in Nat
    BY <1>9 DEF AuditWrite, AuditTypes
  <2>4. CASE f = opened[w]
    <3>1. files'[f] = Append(files[f], written + 1) /\ files[f] \in Seq(Nat)
      BY <1>9, <2>4, AuditWrites
    <3>2. Len(files'[f]) = Len(files[f]) + 1 /\ Len(files[f]) \in Nat
      BY <2>3, <3>1
    <3>3. Cardinality(Pending(f)') < Cardinality(Pending(f))
      BY <1>9, <2>4, PendingWrites
    <3>4. Cardinality(Pending(f)') \in Nat /\ Cardinality(Pending(f)) \in Nat
      BY PendingCount, AuditConstants
    <3>5. Len(files[f]) + Cardinality(Pending(f)) < MAX_FILE + Cardinality(Processes)
      BY <1>0, <1>1, <2>2 DEF BoundOf
    <3>6. Len(files'[f]) + Cardinality(Pending(f)') < MAX_FILE + Cardinality(Processes)
      BY <3>2, <3>3, <3>4, <3>5, AuditConstants
    <3> QED
      BY <3>6 DEF BoundOf, Processes
  <2>5. CASE f # opened[w]
    <3>1. files'[f] = files[f]
      BY <1>0, <1>9, <2>2, <2>5, AuditWrites
    <3>2. \A v \in Writers : Appends(v, f)' => Appends(v, f)
      BY <1>2, <2>1, <2>2, <2>3 DEF Appends
    <3> QED
      BY <1>0, <1>1, <2>2, <3>1, <3>2, BoundKept
  <2> QED
    BY <2>4, <2>5
<1>10. ASSUME NEW q \in Processes, AuditCrash(q)
       PROVE  BoundOf(f)'
  <2>1. \A v \in Writers : wpc'[v] \in {"idle", wpc[v]} /\ opened'[v] \in {0, opened[v]}
    BY <1>10 DEF AuditCrash
  <2>2. UNCHANGED <<files, current>>
    BY <1>10 DEF AuditCrash
  <2>3. \A v \in Writers : Appends(v, f)' => Appends(v, f)
    BY <1>2, <2>1, <2>2 DEF Appends
  <2> QED
    BY <1>0, <1>1, <2>2, <2>3, BoundKept
<1> QED
  BY <1>3, <1>4, <1>5, <1>6, <1>7, <1>8, <1>9, <1>10, Zenon DEF AuditNext

\* At the start there is no file.
LEMMA AuditStarts ==
    ASSUME AuditInit
    PROVE  AuditInv
<1>1. AuditTypes
  <2>1. mutex \in [Processes -> Writers \cup {NoWriter}]
    BY DEF AuditInit
  <2>2. files = <<>> /\ current = 0 /\ backup = 0 /\ written = 0 /\ overlapped = FALSE
    BY DEF AuditInit
  <2>3. files \in Seq(Seq(Nat)) /\ current \in 0..Len(files) /\ backup \in 0..Len(files)
    BY <2>2
  <2>4. /\ wpc \in [Writers -> {"idle", "stat", "remove", "rename", "open", "write"}]
        /\ opened \in [Writers -> 0..Len(files)]
    BY <2>2 DEF AuditInit
  <2>5. os \in {"posix", "win32"} /\ written \in Nat
    BY <2>2 DEF AuditInit
  <2>6. overlapped \in BOOLEAN
    BY <2>2, Zenon
  <2> QED
    BY <2>1, <2>3, <2>4, <2>5, <2>6 DEF AuditTypes
<1>2. MutexInv /\ AloneInv
  BY AuditConstants DEF AuditInit, MutexInv, AloneInv, Busy
<1>3. OrderInv /\ RecentKept /\ PendingInv
  BY DEF AuditInit, OrderInv, RecentKept, PendingInv
<1> QED
  BY <1>1, <1>2, <1>3 DEF AuditInv

\* The invariant is inductive.
LEMMA AuditKept ==
    ASSUME AuditInv, [AuditNext]_auditVars
    PROVE  AuditInv'
<1>1. CASE UNCHANGED auditVars
  <2> USE <1>1 DEF auditVars
  <2>1. AuditTypes' /\ MutexInv'
    BY DEF AuditInv, AuditTypes, MutexInv, Busy
  <2>2. AloneInv' /\ OrderInv'
    BY DEF AuditInv, AloneInv, OrderInv, Busy, NeedsRotation, SizeOf
  <2>3. RecentKept'
    BY DEF AuditInv, RecentKept, Kept, EntriesOf
  <2>4. PendingInv'
    BY DEF AuditInv, PendingInv, Pending, Appends
  <2> QED
    BY <2>1, <2>2, <2>3, <2>4 DEF AuditInv
<1>2. CASE AuditNext
  <2>1. AuditTypes' /\ MutexInv' /\ AloneInv'
    BY <1>2, AuditTypesStep, MutexStep, AloneStep DEF AuditInv
  <2>2. OrderInv' /\ RecentKept' /\ PendingInv'
    BY <1>2, <2>1, OrderStep, RecentStep, PendingStep DEF AuditInv
  <2> QED
    BY <2>1, <2>2 DEF AuditInv
<1> QED
  BY <1>1, <1>2

\* The invariant of the audit log: the threads of every process keep it, and
\* so does a crash in the middle of mcp_audit_append.
THEOREM AuditInvariant == AuditSpec => []AuditInv
<1>1. AuditInit => AuditInv
  BY AuditStarts
<1>2. AuditInv /\ [AuditNext]_auditVars => AuditInv'
  BY AuditKept
<1> QED
  BY <1>1, <1>2, PTL DEF AuditSpec

\* rotate_if_needed_locked never loses one of the last MAX_FILE entries, not
\* even when its process crashes between remove and rename, unless another
\* process is in mcp_audit_append as well.
THEOREM AuditRecentKept == AuditSpec => []RecentKept
<1>1. AuditInv => RecentKept
  BY DEF AuditInv
<1> QED
  BY <1>1, AuditInvariant, PTL

\* The two files of the audit log stay within MAX_FILE and one entry for each
\* process, however many write at a time (on Win32: one process at a time).
THEOREM AuditDiskBounded == AuditSpec => []DiskBounded
<1>1. AuditInv => DiskBounded
  <2>1. SUFFICES ASSUME AuditInv, ~(os = "win32" /\ overlapped), NEW f \in {current, backup}
                 PROVE  SizeOf(f) < MAX_FILE + Cardinality(Processes)
    BY DEF DiskBounded
  <2>2. CASE f = 0
    BY <2>2, AuditConstants DEF SizeOf
  <2>3. CASE f # 0
    <3>1. f \in 1..Len(files) /\ Len(files[f]) \in Nat
      BY <2>1, <2>3 DEF AuditInv, AuditTypes
    <3>2. Len(files[f]) + Cardinality(Pending(f)) < MAX_FILE + Cardinality(Processes)
      BY <2>1, <3>1 DEF AuditInv, PendingInv
    <3>3. Cardinality(Pending(f)) \in Nat
      BY PendingCount, AuditConstants
    <3> QED
      BY <2>3, <3>1, <3>2, <3>3, AuditConstants DEF SizeOf
  <2> QED
    BY <2>2, <2>3
<1> QED
  BY <1>1, AuditInvariant, PTL

-----------------------------------------------------------------------------
(***************************************************************************)
(* Proofs about the allowlist, for any text, any number of entries, and    *)
(* both data models.                                                       *)
(*                                                                         *)
(* ParsedFrom is a recursive function over the positions of the text; that *)
(* it is what its definition says is WalkExists of module Induction.  What *)
(* it puts out is then followed from the last position to the first: each  *)
(* entry is the value of a numeral of the text that has no minus before it *)
(* (NothingIsInvented); and from the start on, in a list of numerals and   *)
(* separators each position with a numeral is reached by the loop, and     *)
(* there is one entry for each at most (ListedAreAllowed).                 *)
(***************************************************************************)

\* The parse loop makes progress: a number that is found ends behind its start,
\* and within the text.
LEMMA StrtolFinds ==
    ASSUME NEW text \in Seq(Int), NEW i \in 1..Len(text)
    PROVE  LET num == Strtol(text, i)
           IN  /\ num.v \in Int
               /\ num.after \in i..(Len(text) + 1)
               /\ num.after # i =>
                    \E d \in i..Len(text) :
                        /\ num.after = d + 1 /\ text[d] >= 0
                        /\ d = i \/ (d = i + 1 /\ text[i] \in {Minus, Plus})
                        /\ text[d] <= LONG_MAX => num.v = IF text[i] = Minus THEN -text[d] ELSE text[d]
                        /\ text[d] > LONG_MAX => num.v = IF text[i] = Minus THEN -LONG_MAX ELSE LONG_MAX
               /\ num.after = i => ~(text[i] >= 0)
               /\ num.after = i /\ text[i] = Minus => i + 1 > Len(text) \/ ~(text[i + 1] >= 0)
<1> USE AllowAssumption DEF Minus, Plus, End, Numeral
<1> DEFINE d == IF ItemAt(text, i) \in {Minus, Plus} THEN i + 1 ELSE i
           cut == IF ItemAt(text, d) > LONG_MAX THEN LONG_MAX ELSE text[d]
<1>0. ItemAt(text, i) = text[i] /\ text[i] \in Int
  BY DEF ItemAt
<1>1. d \in i..(i + 1) /\ (d = i + 1 => text[i] \in {Minus, Plus}) /\ (d = i => text[i] \notin {Minus, Plus})
  BY <1>0
<1>2. ItemAt(text, d) \in Int /\ (ItemAt(text, d) >= 0 => d <= Len(text) /\ ItemAt(text, d) = text[d])
  <2>1. CASE d <= Len(text)
    BY <2>1, <1>1 DEF ItemAt
  <2>2. CASE ~(d <= Len(text))
    BY <2>2, <1>1 DEF ItemAt
  <2> QED BY <2>1, <2>2
<1>3. Strtol(text, i) = IF ~(ItemAt(text, d) >= 0) THEN [v |-> 0, after |-> i]
                        ELSE [v |-> IF text[i] = Minus THEN -cut ELSE cut, after |-> d + 1]
  BY DEF Strtol
<1> HIDE DEF d
<1>4. CASE ~(ItemAt(text, d) >= 0)
  <2>1. Strtol(text, i).v = 0 /\ Strtol(text, i).after = i
    BY <1>3, <1>4
  <2>2. ~(text[i] >= 0)
    BY <1>0, <1>1, <1>4 DEF ItemAt
  <2>3. text[i] = Minus => i + 1 > Len(text) \/ ~(text[i + 1] >= 0)
    BY <1>0, <1>1, <1>4 DEF ItemAt
  <2> QED BY <2>1, <2>2, <2>3
<1>5. CASE ItemAt(text, d) >= 0
  <2>1. Strtol(text, i).v = (IF text[i] = Minus THEN -cut ELSE cut) /\ Strtol(text, i).after = d + 1
    BY <1>3, <1>5
  <2>2. d \in i..Len(text) /\ text[d] >= 0 /\ text[d] \in Int /\ ItemAt(text, d) = text[d]
    BY <1>1, <1>2, <1>5
  <2>3. cut \in Int /\ (text[d] <= LONG_MAX => cut = text[d]) /\ (text[d] > LONG_MAX => cut = LONG_MAX)
    BY <2>2
  <2> HIDE DEF cut
  <2>4. d = i \/ (d = i + 1 /\ text[i] \in {Minus, Plus})
    BY <1>1
  <2> QED BY <2>1, <2>2, <2>3, <2>4
<1> QED BY <1>2, <1>4, <1>5

\* The parse loop moves on within the text.
LEMMA NextAtMoves ==
    ASSUME NEW text \in Seq(Int), NEW i \in 1..Len(text)
    PROVE  NextAt(text, i) \in (i + 1)..(Len(text) + 1)
<1>1. Strtol(text, i).after \in i..(Len(text) + 1)
  BY StrtolFinds
<1> QED BY <1>1 DEF NextAt

\* The parse loop, unfolded once: what is put out at i, and then from the next
\* position on.
LEMMA ParsedUnfolds ==
    ASSUME NEW text \in Seq(Int)
    PROVE  \E f : /\ ParsedFrom(text) = f[1]
                  /\ f[Len(text) + 1] = <<>>
                  /\ \A i \in 1..Len(text) : f[i] = EntryAt(text, i) \o f[NextAt(text, i)]
<1> DEFINE N == Len(text)
           D == 1..(N + 1)
           rank == [i \in D |-> N + 1 - i]
           nx == [i \in D |-> IF i > N THEN i ELSE NextAt(text, i)]
           out == [i \in D |-> IF i > N THEN <<>> ELSE EntryAt(text, i)]
           Def(f) == [i \in D |-> IF i > N THEN <<>> ELSE EntryAt(text, i) \o f[NextAt(text, i)]]
<1>1. N \in Nat
  OBVIOUS
<1>2. ASSUME NEW i \in D
      PROVE  /\ rank[i] \in 0..N
             /\ nx[i] # i => nx[i] \in D /\ rank[nx[i]] < rank[i]
  <2>1. CASE i > N
    BY <2>1
  <2>2. CASE ~(i > N)
    <3>1. NextAt(text, i) \in (i + 1)..(N + 1)
      BY <2>2, NextAtMoves
    <3> QED BY <2>2, <3>1
  <2> QED BY <2>1, <2>2
<1>3. ASSUME NEW i \in D
      PROVE  /\ nx[i] = i <=> i > N
             /\ nx[i] = (IF i > N THEN i ELSE NextAt(text, i))
             /\ out[i] = (IF i > N THEN <<>> ELSE EntryAt(text, i))
  <2>1. ~(i > N) => NextAt(text, i) \in (i + 1)..(N + 1)
    BY NextAtMoves
  <2> QED BY <2>1
<1> HIDE DEF nx, out, rank
<1>4. PICK g : Walks(g, D, nx, out)
  <2>1. Descends(D, N, rank, nx)
    BY <1>2 DEF Descends
  <2> HIDE DEF N, D
  <2> QED BY <1>1, <2>1, WalkExists
<1>5. g = [i \in D |-> IF nx[i] = i THEN out[i] ELSE out[i] \o g[nx[i]]]
  BY <1>4, Zenon DEF Walks
<1>6. [i \in D |-> IF nx[i] = i THEN out[i] ELSE out[i] \o g[nx[i]]] = Def(g)
  BY <1>3
<1>7. \E f : f = Def(f)
  BY <1>5, <1>6, Zenon
<1>8. PICK f : f = (CHOOSE h : h = Def(h))
  OBVIOUS
<1>9. f = Def(f)
  BY <1>7, <1>8, Zenon
<1>10. ParsedFrom(text) = f[1]
  BY <1>8 DEF ParsedFrom
<1>11. ASSUME NEW i \in 1..(N + 1)
       PROVE  f[i] = IF i > N THEN <<>> ELSE EntryAt(text, i) \o f[NextAt(text, i)]
  <2>1. Def(f)[i] = IF i > N THEN <<>> ELSE EntryAt(text, i) \o f[NextAt(text, i)]
    OBVIOUS
  <2> HIDE DEF Def
  <2> QED BY <1>9, <2>1, Zenon
<1>12. N + 1 \in 1..(N + 1) /\ N + 1 > N /\ \A i \in 1..N : i \in 1..(N + 1) /\ ~(i > N)
  OBVIOUS
<1>13. f[N + 1] = <<>>
  BY <1>11, <1>12
<1>14. \A i \in 1..N : f[i] = EntryAt(text, i) \o f[NextAt(text, i)]
  BY <1>11, <1>12
<1> QED BY <1>10, <1>13, <1>14, Zenon

\* A value that passes the test of the range is an id, and the cast keeps it.
LEMMA ListableIsId ==
    ASSUME NEW v \in Int
    PROVE  /\ Listable(v) => LongIsWider /\ v \in Ids /\ v % (UINT32_MAX + 1) = v
           /\ LongIsWider /\ v \in Ids => Listable(v)
<1> USE AllowAssumption
<1>1. LongIsWider => ToLong(UINT32_MAX) = UINT32_MAX
  BY DEF LongIsWider, ToLong
<1>2. ~LongIsWider => ToLong(UINT32_MAX) = -1
  BY DEF LongIsAsWide, ToLong
<1>3. UINT32_MAX \in Nat /\ (v \in 0..UINT32_MAX => v % (UINT32_MAX + 1) = v)
  OBVIOUS
<1> QED BY <1>1, <1>2, <1>3 DEF Listable, Ids

\* What one round of the parse loop adds stands in the text where the round
\* looked, and behind no minus sign unless it is zero.
LEMMA EntryStands ==
    ASSUME NEW text \in Seq(Int), NEW i \in 1..Len(text)
    PROVE  \/ EntryAt(text, i) = <<>>
           \/ \E d \in i..Len(text) :
                 /\ EntryAt(text, i) = <<text[d]>> /\ text[d] \in Ids
                 /\ d = i \/ (d = i + 1 /\ (text[d] = 0 \/ text[i] = Plus))
<1> DEFINE num == Strtol(text, i)
<1>1. CASE num.after # i /\ Listable(num.v)
  <2>1. PICK d \in i..Len(text) :
            /\ num.after = d + 1 /\ text[d] >= 0
            /\ d = i \/ (d = i + 1 /\ text[i] \in {Minus, Plus})
            /\ text[d] <= LONG_MAX => num.v = IF text[i] = Minus THEN -text[d] ELSE text[d]
            /\ text[d] > LONG_MAX => num.v = IF text[i] = Minus THEN -LONG_MAX ELSE LONG_MAX
    BY <1>1, StrtolFinds
  <2>2. num.v \in Int /\ num.v \in Ids /\ num.v % (UINT32_MAX + 1) = num.v /\ UINT32_MAX < LONG_MAX
    BY <1>1, StrtolFinds, ListableIsId DEF LongIsWider
  <2>3. EntryAt(text, i) = <<num.v>>
    BY <1>1, <2>2 DEF EntryAt
  <2> HIDE DEF num
  <2>4. text[d] \in Int /\ text[i] \in Int /\ LONG_MAX \in Nat /\ UINT32_MAX \in Nat
    BY AllowAssumption
  <2>5. PICK v \in Int, w \in Int : v = num.v /\ w = text[d]
    BY <2>2, <2>4
  <2>6. v >= 0 /\ v <= UINT32_MAX /\ UINT32_MAX < LONG_MAX /\ w >= 0
    BY <2>1, <2>2, <2>4, <2>5 DEF Ids
  <2>7. /\ w <= LONG_MAX => v = IF text[i] = Minus THEN -w ELSE w
        /\ w > LONG_MAX => v = IF text[i] = Minus THEN -LONG_MAX ELSE LONG_MAX
    BY <2>1, <2>5
  <2>8. v = w /\ (text[i] = Minus => w = 0)
    BY <2>4, <2>6, <2>7
  <2>9. num.v = text[d] /\ (text[i] = Minus => text[d] = 0)
    BY <2>5, <2>8
  <2> QED BY <2>1, <2>2, <2>3, <2>9 DEF Minus, Plus
<1>2. CASE ~(num.after # i /\ Listable(num.v))
  BY <1>2 DEF EntryAt
<1> QED BY <1>1, <1>2

\* A round begins behind a minus sign only where there is no number.
Clean(text, i) == i > 1 /\ i <= Len(text) /\ text[i] >= 0 => text[i - 1] # Minus

\* The next round begins so.
LEMMA NextIsClean ==
    ASSUME NEW text \in Seq(Int), NEW i \in 1..Len(text)
    PROVE  Clean(text, NextAt(text, i))
<1>1. CASE Strtol(text, i).after = i
  <2>1. NextAt(text, i) = i + 1
    BY <1>1 DEF NextAt
  <2>2. text[i] = Minus => i + 1 > Len(text) \/ ~(text[i + 1] >= 0)
    BY <1>1, StrtolFinds
  <2>3. i + 1 - 1 = i
    OBVIOUS
  <2> QED BY <2>1, <2>2, <2>3 DEF Clean
<1>2. CASE Strtol(text, i).after # i
  <2>1. PICK d \in i..Len(text) : Strtol(text, i).after = d + 1 /\ text[d] >= 0
    BY <1>2, StrtolFinds
  <2>2. NextAt(text, i) = d + 1 /\ d + 1 - 1 = d /\ text[d] # Minus
    BY <1>2, <2>1 DEF NextAt, Minus
  <2> QED BY <2>2 DEF Clean
<1> QED BY <1>1, <1>2

\* What may be among the entries of a text: an id that stands in it, and behind
\* no minus sign unless it is zero.
Stands(text, id) ==
    id \in Ids /\ \E j \in 1..Len(text) : text[j] = id /\ (j > 1 /\ id # 0 => text[j - 1] # Minus)

\* Whatever the text, the parse loop puts out nothing else.
LEMMA ParsedStands ==
    ASSUME NEW text \in Seq(Int)
    PROVE  /\ ParsedFrom(text) \in Seq(Ids)
           /\ \A k \in 1..Len(ParsedFrom(text)) : Stands(text, ParsedFrom(text)[k])
<1> DEFINE N == Len(text)
           Ok(q) == q \in Seq(Ids) /\ \A k \in 1..Len(q) : Stands(text, q[k])
<1>1. PICK f : /\ ParsedFrom(text) = f[1]
               /\ f[N + 1] = <<>>
               /\ \A i \in 1..N : f[i] = EntryAt(text, i) \o f[NextAt(text, i)]
  BY ParsedUnfolds
<1> DEFINE S == {i \in 1..(N + 1) : Clean(text, i) => Ok(f[i])}
<1>2. ASSUME NEW i \in 1..(N + 1), \A j \in 1..(N + 1) : j > i => j \in S
      PROVE  i \in S
  <2>1. CASE i = N + 1
    <3>1. Ok(<<>>)
      OBVIOUS
    <3> QED BY <1>1, <2>1, <3>1
  <2>2. CASE i # N + 1
    <3>1. i \in 1..Len(text)
      BY <2>2
    <3>2. SUFFICES ASSUME Clean(text, i) PROVE Ok(f[i])
      OBVIOUS
    <3>3. NextAt(text, i) \in (i + 1)..(N + 1) /\ Clean(text, NextAt(text, i))
      BY <3>1, NextAtMoves, NextIsClean
    <3>4. NextAt(text, i) \in 1..(N + 1) /\ NextAt(text, i) > i
      BY <3>3
    <3>5. PICK q : q = f[NextAt(text, i)] /\ Ok(q)
      BY <1>2, <3>3, <3>4
    <3>6. f[i] = EntryAt(text, i) \o q
      BY <1>1, <3>1, <3>5
    <3>7. CASE EntryAt(text, i) = <<>>
      <4>1. f[i] = q
        BY <3>5, <3>6, <3>7
      <4> QED BY <3>5, <4>1
    <3>8. CASE EntryAt(text, i) # <<>>
      <4>1. PICK d \in i..Len(text) :
                 /\ EntryAt(text, i) = <<text[d]>> /\ text[d] \in Ids
                 /\ d = i \/ (d = i + 1 /\ (text[d] = 0 \/ text[i] = Plus))
        BY <3>1, <3>8, EntryStands
      <4>2. Stands(text, text[d])
        <5>1. d > 1 /\ text[d] # 0 => text[d - 1] # Minus
          <6>1. CASE d = i
            BY <3>1, <3>2, <4>1, <6>1 DEF Clean, Ids
          <6>2. CASE d # i
            <7>1. d = i + 1 /\ d - 1 = i
              BY <4>1, <6>2
            <7> QED BY <4>1, <7>1 DEF Plus, Minus
          <6> QED BY <6>1, <6>2
        <5>2. d \in 1..Len(text)
          BY <3>1
        <5> QED BY <4>1, <5>1, <5>2 DEF Stands
      <4>3. f[i] = <<text[d]>> \o q
        BY <3>6, <4>1
      <4>4. PICK e : e = text[d] /\ e \in Ids /\ Stands(text, e)
        BY <4>1, <4>2
      <4>5. Ok(<<e>> \o q)
        <5>1. <<e>> \o q \in Seq(Ids) /\ Len(<<e>> \o q) = Len(q) + 1
          BY <3>5, <4>4
        <5>2. \A k \in 1..(Len(q) + 1) : (<<e>> \o q)[k] = IF k = 1 THEN e ELSE q[k - 1]
          BY <3>5, <4>4
        <5>3. ASSUME NEW k \in 1..(Len(q) + 1)
              PROVE  Stands(text, (<<e>> \o q)[k])
          <6>1. CASE k = 1
            BY <4>4, <5>2, <6>1
          <6>2. CASE k # 1
            <7>1. k - 1 \in 1..Len(q)
              BY <3>5, <6>2
            <7> QED BY <3>5, <5>2, <6>2, <7>1
          <6> QED BY <6>1, <6>2
        <5> QED BY <5>1, <5>3
      <4> QED BY <4>3, <4>4, <4>5
    <3> QED BY <3>7, <3>8
  <2> QED BY <2>1, <2>2
<1>3. 1..(N + 1) \subseteq S
  <2>1. N \in Nat
    OBVIOUS
  <2> HIDE DEF S, N
  <2> QED BY <1>2, <2>1, FromTheEnd
<1>4. 1 \in 1..(N + 1) /\ Clean(text, 1)
  BY DEF Clean
<1>5. Ok(f[1])
  BY <1>3, <1>4
<1> QED BY <1>1, <1>5

\* In a list, every round of the parse loop looks at one item, and adds it when
\* it is an id.
LEMMA ListEntry ==
    ASSUME LongIsWider, NEW text \in Seq(Int), WellFormed(text), NEW i \in 1..Len(text)
    PROVE  /\ NextAt(text, i) = i + 1
           /\ EntryAt(text, i) = IF text[i] \in Ids THEN <<text[i]>> ELSE <<>>
<1> DEFINE num == Strtol(text, i)
<1>1. text[i] \in Int /\ (text[i] >= 0 \/ text[i] \in {-1, -2})
  BY DEF WellFormed, Numeral, Separators, Space, Comma
<1>2. CASE num.after = i
  <2>1. ~(text[i] >= 0)
    BY <1>2, StrtolFinds
  <2>2. text[i] \notin Ids
    BY <1>1, <2>1, AllowAssumption DEF Ids
  <2> QED BY <1>2, <2>2 DEF EntryAt, NextAt
<1>3. CASE num.after # i
  <2>1. PICK d \in i..Len(text) :
            /\ num.after = d + 1 /\ text[d] >= 0
            /\ d = i \/ (d = i + 1 /\ text[i] \in {Minus, Plus})
            /\ text[d] <= LONG_MAX => num.v = IF text[i] = Minus THEN -text[d] ELSE text[d]
            /\ text[d] > LONG_MAX => num.v = IF text[i] = Minus THEN -LONG_MAX ELSE LONG_MAX
    BY <1>3, StrtolFinds
  <2>2. d = i
    BY <1>1, <2>1 DEF Minus, Plus
  <2>3. NextAt(text, i) = i + 1
    BY <1>3, <2>1, <2>2 DEF NextAt
  <2>4. num.v \in Int
    BY StrtolFinds
  <2>5. LONG_MAX \in Nat /\ UINT32_MAX \in Nat /\ UINT32_MAX < LONG_MAX
    BY AllowAssumption DEF LongIsWider
  <2>6. EntryAt(text, i) = IF Listable(num.v) THEN <<num.v % (UINT32_MAX + 1)>> ELSE <<>>
    BY <1>3 DEF EntryAt
  <2>7. (Listable(num.v) <=> num.v \in Ids) /\ (num.v \in Ids => num.v % (UINT32_MAX + 1) = num.v)
    BY <2>4, ListableIsId
  <2> HIDE DEF num
  <2>8. text[i] # Minus /\ text[i] >= 0
    BY <1>1, <2>1, <2>2 DEF Minus
  <2>9. CASE text[i] <= LONG_MAX
    <3>1. num.v = text[i]
      BY <2>1, <2>2, <2>8, <2>9
    <3> QED BY <2>3, <2>6, <2>7, <3>1
  <2>10. CASE text[i] > LONG_MAX
    <3>1. num.v = LONG_MAX
      BY <2>1, <2>2, <2>8, <2>10
    <3>2. num.v \notin Ids /\ text[i] \notin Ids
      BY <1>1, <2>5, <2>10, <3>1 DEF Ids
    <3> QED BY <2>3, <2>6, <2>7, <3>2
  <2> QED BY <1>1, <2>5, <2>9, <2>10
<1> QED BY <1>2, <1>3

\* In a list, the parse loop puts out every id that it lists, and no more
\* entries than there are numerals.
LEMMA ParsedLists ==
    ASSUME LongIsWider, NEW text \in Seq(Int), WellFormed(text)
    PROVE  /\ Len(ParsedFrom(text)) <= Cardinality(Listed(text))
           /\ \A j \in 1..Len(text) : text[j] \in Ids =>
                 \E k \in 1..Len(ParsedFrom(text)) : ParsedFrom(text)[k] = text[j]
<1> DEFINE N == Len(text)
           From(i) == {j \in i..N : text[j] >= 0}
           Ok(q, i) == /\ q \in Seq(Ids) /\ Len(q) <= Cardinality(From(i))
                       /\ \A j \in i..N : text[j] \in Ids => \E k \in 1..Len(q) : q[k] = text[j]
<1>0. N \in Nat
  OBVIOUS
<1>1. PICK f : /\ ParsedFrom(text) = f[1]
               /\ f[N + 1] = <<>>
               /\ \A i \in 1..N : f[i] = EntryAt(text, i) \o f[NextAt(text, i)]
  BY ParsedUnfolds
<1>2. \A i \in 1..(N + 1) : IsFiniteSet(From(i)) /\ Cardinality(From(i)) \in Nat
  <2>1. ASSUME NEW i \in 1..(N + 1)
        PROVE  IsFiniteSet(From(i))
    <3>1. From(i) \subseteq i..N /\ IsFiniteSet(i..N)
      BY <1>0, FS_Interval
    <3> QED BY <3>1, FS_Subset
  <2> QED BY <2>1, FS_CardinalityType
<1> DEFINE S == {i \in 1..(N + 1) : Ok(f[i], i)}
<1>3. ASSUME NEW i \in 1..(N + 1), \A j \in 1..(N + 1) : j > i => j \in S
      PROVE  i \in S
  <2>1. CASE i = N + 1
    <3>1. (N + 1)..N = {} /\ Len(<<>>) = 0 /\ <<>> \in Seq(Ids)
      BY <1>0
    <3>2. Cardinality(From(N + 1)) \in Nat
      BY <1>2, <2>1
    <3>3. Ok(<<>>, N + 1)
      BY <3>1, <3>2
    <3> QED BY <1>1, <2>1, <3>3
  <2>2. CASE i # N + 1
    <3>1. i \in 1..Len(text) /\ i + 1 \in 1..(N + 1) /\ i + 1 > i
      BY <2>2
    <3>2. PICK q : q = f[i + 1] /\ Ok(q, i + 1)
      <4>1. i + 1 \in S
        BY <1>3, <3>1
      <4> HIDE DEF Ok
      <4> QED BY <4>1
    <3>3. f[i] = (IF text[i] \in Ids THEN <<text[i]>> ELSE <<>>) \o q
      BY <1>1, <3>1, <3>2, ListEntry
    <3>4. PICK c \in Nat : c = Cardinality(From(i + 1))
      BY <1>2, <3>1
    <3>5. q \in Seq(Ids) /\ Len(q) \in Nat /\ Len(q) <= c
      BY <3>2, <3>4
    <3>6. i..N = {i} \cup ((i + 1)..N)
      BY <3>1
    <3>7. CASE text[i] \in Ids
      <4>1. text[i] >= 0 /\ text[i] \in Int
        BY <3>7, AllowAssumption DEF Ids
      <4>2. From(i) = From(i + 1) \cup {i} /\ i \notin From(i + 1)
        BY <3>1, <3>6, <4>1
      <4>3. Cardinality(From(i)) = c + 1
        <5> HIDE DEF From
        <5> QED BY <1>2, <3>1, <3>4, <4>2, FS_AddElement
      <4>4. PICK e \in Ids : e = text[i]
        BY <3>7
      <4>5. PICK r : r = <<e>> \o q
        OBVIOUS
      <4>6. /\ r \in Seq(Ids) /\ Len(r) = Len(q) + 1
            /\ r[1] = e /\ \A k \in 1..Len(q) : r[k + 1] = q[k]
        BY <3>5, <4>4, <4>5
      <4>7. ASSUME NEW j \in i..N, text[j] \in Ids
            PROVE  \E k \in 1..Len(r) : r[k] = text[j]
        <5>1. CASE j = i
          <6>1. 1 \in 1..Len(r)
            BY <3>5, <4>6
          <6>2. r[1] = text[j]
            BY <4>4, <4>6, <5>1
          <6> QED BY <6>1, <6>2
        <5>2. CASE j # i
          <6>1. j \in (i + 1)..N
            BY <3>1, <5>2
          <6>2. PICK k \in 1..Len(q) : q[k] = text[j]
            BY <3>2, <4>7, <6>1
          <6>3. k + 1 \in 1..Len(r) /\ r[k + 1] = text[j]
            BY <3>5, <4>6, <6>2
          <6> QED BY <6>3
        <5> QED BY <5>1, <5>2
      <4>8. Len(r) <= Cardinality(From(i))
        BY <3>5, <4>3, <4>6
      <4>9. Ok(r, i)
        BY <4>6, <4>7, <4>8
      <4>10. f[i] = r
        BY <3>3, <3>7, <4>4, <4>5
      <4> QED BY <4>9, <4>10
    <3>8. CASE text[i] \notin Ids
      <4>1. f[i] = q
        BY <3>3, <3>5, <3>8
      <4>2. From(i + 1) \subseteq From(i)
        BY <3>1, <3>6
      <4>3. c <= Cardinality(From(i)) /\ Cardinality(From(i)) \in Nat
        <5> HIDE DEF From
        <5> QED BY <1>2, <3>1, <3>4, <4>2, FS_Subset
      <4>4. Len(q) <= Cardinality(From(i))
        BY <3>5, <4>3
      <4>5. \A j \in i..N : text[j] \in Ids => j \in (i + 1)..N
        BY <3>1, <3>8
      <4>6. Ok(q, i)
        BY <3>2, <3>5, <4>4, <4>5
      <4> QED BY <4>1, <4>6
    <3> QED BY <3>7, <3>8
  <2> QED BY <2>1, <2>2
<1>4. 1..(N + 1) \subseteq S
  <2> HIDE DEF S, N
  <2> QED BY <1>0, <1>3, FromTheEnd
<1>5. 1 \in 1..(N + 1)
  BY <1>0
<1>6. Ok(f[1], 1)
  BY <1>4, <1>5
<1>7. From(1) = Listed(text)
  BY DEF Listed, Numeral
<1> QED BY <1>1, <1>6, <1>7

-----------------------------------------------------------------------------
\* What mcp_allowlist_init leaves: the value it found, and the entries of it.
AllowInv ==
    /\ env \in Seq(Int) \cup {Unset} /\ read \in Seq(Int) \cup {Unset}
    /\ policy.initialized \in BOOLEAN
    /\ policy.initialized /\ read # Unset =>
          policy.has_policy = TRUE /\ policy.entries = Bounded(ParsedFrom(read))

\* The policy is that of the value which mcp_allowlist_init found, whatever the
\* environment becomes.
THEOREM PolicyOfFirstRead == AllowSpec => []AllowInv
<1>1. AllowInit => AllowInv
  BY AllowAssumption DEF AllowInit, AllowInv
<1>2. AllowInv /\ [AllowNext]_allowVars => AllowInv'
  <2> SUFFICES ASSUME AllowInv, [AllowNext]_allowVars PROVE AllowInv'
    OBVIOUS
  <2>1. CASE mcp_allowlist_init
    <3>1. env' = env /\ read' = env /\ env \in Seq(Int) \cup {Unset}
      BY <2>1 DEF AllowInv, mcp_allowlist_init
    <3>2. CASE env = Unset
      <4>1. policy'.initialized = TRUE
        BY <2>1, <3>2 DEF mcp_allowlist_init
      <4> QED BY <3>1, <3>2, <4>1 DEF AllowInv
    <3>3. CASE env # Unset
      <4>1. /\ policy'.initialized = TRUE /\ policy'.has_policy = TRUE
            /\ policy'.entries = Bounded(ParsedFrom(env))
        BY <2>1, <3>3 DEF mcp_allowlist_init
      <4> QED BY <3>1, <3>3, <4>1 DEF AllowInv
    <3> QED BY <3>2, <3>3
  <2>2. CASE SetEnv
    <3>1. <<>> \in Seq(Int)
      OBVIOUS
    <3>2. policy' = policy /\ read' = read /\ env' \in Seq(Int) \cup {Unset}
      BY <2>2, <3>1 DEF SetEnv
    <3> QED BY <3>2 DEF AllowInv
  <2>3. CASE UNCHANGED allowVars
    BY <2>3 DEF AllowInv, allowVars
  <2> QED BY <2>1, <2>2, <2>3 DEF AllowNext
<1> QED BY <1>1, <1>2, PTL DEF AllowSpec

\* The bound keeps the first entries.
LEMMA BoundedKeepsFirst ==
    ASSUME NEW q \in Seq(Ids)
    PROVE  /\ Bounded(q) \in Seq(Ids) /\ Len(Bounded(q)) <= Len(q)
           /\ \A k \in 1..Len(Bounded(q)) : Bounded(q)[k] = q[k]
           /\ Len(q) <= MAX_ENTRIES => Bounded(q) = q
BY AllowAssumption DEF Bounded

\* Under a policy exactly the ids of the entries are let in.
LEMMA AllowsEntries ==
    ASSUME AllowInv, policy.initialized, read # Unset, NEW id
    PROVE  mcp_allowlist_allows(id) <=>
              \E k \in 1..Len(Bounded(ParsedFrom(read))) : Bounded(ParsedFrom(read))[k] = id
BY DEF AllowInv, mcp_allowlist_allows, mcp_allowlist_has_policy

\* NothingInvented, for every text, any number of entries, and both data models:
\* by induction over the positions of the text, no round of the parse loop
\* begins behind the minus sign of a number, and the range test and the cast
\* let no value through that is not the numeral itself.
THEOREM NothingIsInvented == AllowSpec => []NothingInvented
<1>1. AllowInv => NothingInvented
  <2> SUFFICES ASSUME AllowInv, policy.initialized, read # Unset,
                      NEW id \in Ids, mcp_allowlist_allows(id)
               PROVE  \E i \in 1..Len(read) :
                          read[i] = id /\ (i > 1 /\ id # 0 => read[i - 1] # Minus)
    BY DEF NothingInvented
  <2>1. read \in Seq(Int)
    BY DEF AllowInv
  <2>2. PICK q : q = ParsedFrom(read)
    OBVIOUS
  <2>3. q \in Seq(Ids) /\ \A k \in 1..Len(q) : Stands(read, q[k])
    BY <2>1, <2>2, ParsedStands
  <2>4. PICK k \in 1..Len(Bounded(q)) : Bounded(q)[k] = id
    BY <2>2, AllowsEntries
  <2>5. k \in 1..Len(q) /\ q[k] = id
    BY <2>3, <2>4, BoundedKeepsFirst
  <2> QED BY <2>3, <2>5 DEF Stands
<1> QED BY <1>1, PolicyOfFirstRead, PTL

\* AllowsListed, for every list of at most MAX_ENTRIES ids, where long is wider
\* than uint32_t; where it is not, the run of MCHostAllow.cfg refutes it.
THEOREM ListedAreAllowed ==
    ASSUME LongIsWider
    PROVE  AllowSpec => []AllowsListed
<1>1. AllowInv => AllowsListed
  <2> SUFFICES ASSUME AllowInv, policy.initialized, read # Unset, WellFormed(read),
                      Cardinality(Listed(read)) <= MAX_ENTRIES, NEW id \in Ids
               PROVE  mcp_allowlist_allows(id) <=> \E i \in 1..Len(read) : read[i] = id
    BY DEF AllowsListed
  <2>1. read \in Seq(Int)
    BY DEF AllowInv
  <2>2. PICK q : q = ParsedFrom(read)
    OBVIOUS
  <2>3. q \in Seq(Ids) /\ \A k \in 1..Len(q) : Stands(read, q[k])
    BY <2>1, <2>2, ParsedStands
  <2>4. /\ Len(q) <= Cardinality(Listed(read))
        /\ \A j \in 1..Len(read) : read[j] \in Ids => \E k \in 1..Len(q) : q[k] = read[j]
    BY <2>1, <2>2, ParsedLists
  <2>5. Cardinality(Listed(read)) \in Nat
    <3>1. Listed(read) \subseteq 1..Len(read) /\ IsFiniteSet(1..Len(read))
      BY <2>1, FS_Interval DEF Listed
    <3> QED BY <3>1, FS_Subset, FS_CardinalityType
  <2>6. Len(q) <= MAX_ENTRIES
    BY <2>3, <2>4, <2>5, AllowAssumption
  <2>7. Bounded(q) = q
    BY <2>3, <2>6, BoundedKeepsFirst
  <2>8. mcp_allowlist_allows(id) <=> \E k \in 1..Len(q) : q[k] = id
    BY <2>2, <2>7, AllowsEntries
  <2>9. ASSUME NEW k \in 1..Len(q), q[k] = id
        PROVE  \E i \in 1..Len(read) : read[i] = id
    BY <2>3, <2>9 DEF Stands
  <2>10. ASSUME NEW i \in 1..Len(read), read[i] = id
         PROVE  \E k \in 1..Len(q) : q[k] = id
    BY <2>4, <2>10
  <2> QED BY <2>8, <2>9, <2>10
<1> QED BY <1>1, PolicyOfFirstRead, PTL

=============================================================================
