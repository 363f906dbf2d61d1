------------------------------- MODULE MCHost -------------------------------
(* The parts of a host that share no state, checked side by side: a behaviour *)
(* moves one of them, chosen at the start, and the others stay as they were.  *)
EXTENDS Endpoint, Listener, AuditLog, Allowlist, TLC

VARIABLE part

vars == <<part, endVars, listenVars, auditVars, allowVars>>

\* Two apps, two shells one of which may follow or overlap the other, a service.
MCRoleOf == "app1" :> "-" @@ "app2" :> "-" @@ "sh1" :> "shell" @@ "sh2" :> "shell" @@ "svc" :> "service"
MCProcs == DOMAIN MCRoleOf
MCRoles == <<"shell", "service">>

\* Two threads of one process, and another process.
MCProcessOf == "w1" :> "p1" @@ "w2" :> "p1" @@ "w3" :> "p2"
MCWriters == DOMAIN MCProcessOf

\* All texts of up to four items, where two numerals are never side by side.
\* With two bits in an id, 3 is the largest; 4 has one bit more, 9 none in long.
Items == {0, 1, 3, 4, 9, Space, Comma, Minus, Plus, Letter}
MCTexts ==
    {t \in UNION {[1..n -> Items] : n \in 0..4} :
        \A i \in 1..Len(t) - 1 : ~(Numeral(t[i]) /\ Numeral(t[i + 1]))}

OnlyMoves(p) ==
    /\ part = p /\ UNCHANGED part
    /\ p # "endpoint" => UNCHANGED endVars
    /\ p # "listener" => UNCHANGED listenVars
    /\ p # "audit" => UNCHANGED auditVars
    /\ p # "allowlist" => UNCHANGED allowVars

\* The parts that do not move start in one state.
Init ==
    /\ part \in {"endpoint", "listener", "audit", "allowlist"}
    /\ EndInit /\ ListenInit /\ AuditInit /\ AllowInit
    /\ part # "listener" => platform = "posix"
    /\ part # "audit" => os = "posix"
    /\ part # "allowlist" => env = Unset

AcceptMoves == AcceptStep /\ OnlyMoves("listener")
StopMoves == spc # "running" /\ StopStep /\ OnlyMoves("listener")

Next ==
    \/ EndNext /\ OnlyMoves("endpoint")
    \/ ListenNext /\ OnlyMoves("listener")
    \/ AuditNext /\ OnlyMoves("audit")
    \/ AllowNext /\ OnlyMoves("allowlist")

\* The accept thread runs, and so does a stop that has begun; nothing makes a
\* client connect.
Spec == Init /\ [][Next]_vars /\ WF_vars(AcceptMoves) /\ WF_vars(StopMoves)

=============================================================================
