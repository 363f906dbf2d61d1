------------------------------ MODULE Capture ------------------------------
(***************************************************************************)
(* The capture_frame hand-off of src/mcp_capture.c: serve threads (the     *)
(* Callers) submit a capture and block on a condition variable, the        *)
(* compositor thread polls once a frame, writes the PNG and completes.     *)
(*                                                                         *)
(* There is one request slot.  Every critical section on its lock is       *)
(* non-blocking except for the wait itself, which releases the lock, so    *)
(* each is one action.  A path and mode are abstracted to a request        *)
(* <<caller, n>>, the caller's n-th call, so that requests are distinct.   *)
(* The compositor and the code that finds the slot are external.           *)
(***************************************************************************)
EXTENDS Naturals

CONSTANTS
    Callers,            \* serve threads that may call capture_frame
    MaxCalls,           \* bound: calls per caller
    MaxLives,           \* bound: compositors created one after the other
    QuiesceBeforeFini   \* does the embedder wait for callers before fini?

ASSUME CaptureAssumption ==
    /\ MaxCalls \in Nat \ {0}
    /\ MaxLives \in Nat \ {0}
    /\ QuiesceBeforeFini \in BOOLEAN

VARIABLES
    req,        \* the slot: path, pending, done, success
    live,       \* between mcp_capture_init and mcp_capture_fini
    lives,      \* how many times it was initialised
    installed,  \* g_installed_req # NULL
    notify,     \* the notify callbacks are set
    handler,    \* the pointer the install callback handed on # NULL
    pc,         \* caller -> where it is in mcp_capture_blocking_handler
    calls,      \* caller -> calls begun
    last,       \* caller -> what its last call returned
    fresh,      \* caller -> has some capture succeeded since it submitted?
    kpc,        \* the compositor: between frames, or working on kpath
    kpath,
    completed,  \* requests the compositor has completed
    written     \* and those of them whose PNG it has written

vars == <<req, live, lives, installed, notify, handler, pc, calls, last, fresh,
          kpc, kpath, completed, written>>
lifeVars == <<live, lives, installed, notify, handler>>
compVars == <<kpc, kpath, completed, written>>

Requests == Callers \X (1..MaxCalls)
NoRequest == <<"none">>
InHandler == {"fetched", "wait", "woken", "expired"}

\* What a call returned: its request, the bool, and whether some capture
\* succeeded between submit and return.
NoResult == [request |-> NoRequest, ok |-> FALSE, fresh |-> FALSE]

Mine(c) == <<c, calls[c]>>
EmptySlot == [path |-> NoRequest, pending |-> FALSE, done |-> FALSE, success |-> FALSE]

Init ==
    /\ req = EmptySlot
    /\ live = FALSE /\ lives = 0
    /\ installed = FALSE /\ notify = FALSE /\ handler = FALSE
    /\ pc = [c \in Callers |-> "idle"]
    /\ calls = [c \in Callers |-> 0]
    /\ last = [c \in Callers |-> NoResult]
    /\ fresh = [c \in Callers |-> FALSE]
    /\ kpc = "frame" /\ kpath = NoRequest
    /\ completed = {} /\ written = {}

-----------------------------------------------------------------------------
(***************************************************************************)
(* Lifecycle, on the compositor thread.                                    *)
(***************************************************************************)
\* mcp_capture_set_notify, at state tracker start-up
Set_notify ==
    /\ ~notify
    /\ notify' = TRUE
    /\ UNCHANGED <<req, live, lives, installed, handler, pc, calls, last, fresh, compVars>>

\* mcp_capture_init and mcp_capture_install; the install callback hands the
\* pointer to the per-process tool.
Install ==
    /\ ~live /\ lives < MaxLives
    /\ live' = TRUE /\ lives' = lives + 1
    /\ req' = EmptySlot
    /\ installed' = TRUE
    /\ handler' = (notify \/ handler)
    /\ UNCHANGED <<notify, pc, calls, last, fresh, compVars>>

\* Mutant of Uninstall: the callback is not told.
UninstallSilently ==
    /\ live /\ installed /\ kpc = "frame"
    /\ installed' = FALSE
    /\ UNCHANGED <<req, live, lives, notify, handler, pc, calls, last, fresh, compVars>>

\* mcp_capture_uninstall
Uninstall ==
    /\ live /\ installed /\ kpc = "frame"
    /\ handler' = (handler /\ ~notify)
    /\ installed' = FALSE
    /\ UNCHANGED <<req, live, lives, notify, pc, calls, last, fresh, compVars>>

\* mcp_capture_fini, then the compositor frees the slot.
Fini ==
    /\ live /\ ~installed /\ kpc = "frame"
    /\ QuiesceBeforeFini => \A c \in Callers : pc[c] \notin InHandler
    /\ live' = FALSE
    /\ UNCHANGED <<req, lives, installed, notify, handler, pc, calls, last, fresh, compVars>>

-----------------------------------------------------------------------------
(***************************************************************************)
(* mcp_capture_blocking_handler                                            *)
(***************************************************************************)
\* The tool picks up the slot: mcp_capture_get_installed, or the pointer the
\* install callback left it.
Get_installed(c) ==
    /\ pc[c] = "idle" /\ calls[c] < MaxCalls
    /\ installed \/ handler
    /\ pc' = [pc EXCEPT ![c] = "fetched"]
    /\ calls' = [calls EXCEPT ![c] = @ + 1]
    /\ UNCHANGED <<req, lifeVars, last, fresh, compVars>>

\* Mutant of Submit: done and success keep their values of the last capture.
SubmitKeepsDone(c) ==
    /\ pc[c] = "fetched" /\ live
    /\ req' = [path |-> Mine(c), pending |-> TRUE, done |-> req.done, success |-> req.success]
    /\ fresh' = [fresh EXCEPT ![c] = FALSE]
    /\ pc' = [pc EXCEPT ![c] = IF req.done THEN "woken" ELSE "wait"]
    /\ UNCHANGED <<lifeVars, calls, last, compVars>>

\* Fill the slot and wait; the slot may hold another caller's request.
Submit(c) ==
    /\ pc[c] = "fetched" /\ live
    /\ req' = [path |-> Mine(c), pending |-> TRUE, done |-> FALSE, success |-> FALSE]
    /\ fresh' = [fresh EXCEPT ![c] = FALSE]
    /\ pc' = [pc EXCEPT ![c] = "wait"]
    /\ UNCHANGED <<lifeVars, calls, last, compVars>>

\* pthread_cond_timedwait may return 0 without a signal.
SpuriousWakeup(c) ==
    /\ pc[c] = "wait" /\ live
    /\ pc' = [pc EXCEPT ![c] = "woken"]
    /\ UNCHANGED <<req, lifeVars, calls, last, fresh, compVars>>

\* The wait returned 0: test done again.
Rewait(c) ==
    /\ pc[c] = "woken" /\ live /\ ~req.done
    /\ pc' = [pc EXCEPT ![c] = "wait"]
    /\ UNCHANGED <<req, lifeVars, calls, last, fresh, compVars>>

Return(c, ok) ==
    /\ pc' = [pc EXCEPT ![c] = "idle"]
    /\ last' = [last EXCEPT ![c] = [request |-> Mine(c), ok |-> ok, fresh |-> fresh[c]]]
    /\ req' = [path |-> req.path, pending |-> FALSE, done |-> req.done, success |-> req.success]
    /\ UNCHANGED <<lifeVars, calls, fresh, compVars>>

ReturnSuccess(c) ==
    /\ pc[c] = "woken" /\ live /\ req.done
    /\ Return(c, req.success)

\* The deadline passes; the thread still has to get the lock back, and the
\* compositor may complete in between.
Expire(c) ==
    /\ pc[c] = "wait" /\ live
    /\ pc' = [pc EXCEPT ![c] = "expired"]
    /\ UNCHANGED <<req, lifeVars, calls, last, fresh, compVars>>

\* Mutant of ReturnTimeout: the return code of the wait is not looked at.
ReturnTimeoutIgnored(c) ==
    /\ pc[c] = "expired" /\ live
    /\ pc' = [pc EXCEPT ![c] = "woken"]
    /\ UNCHANGED <<req, lifeVars, calls, last, fresh, compVars>>

\* A non-zero return code ends the call with false, done or not.
ReturnTimeout(c) ==
    /\ pc[c] = "expired" /\ live
    /\ Return(c, FALSE)

-----------------------------------------------------------------------------
(***************************************************************************)
(* The compositor's end of frame.                                          *)
(***************************************************************************)
\* Mutant of Poll: a completed request is offered again.
PollIgnoresDone ==
    /\ live /\ kpc = "frame"
    /\ req.pending
    /\ kpc' = "capture"
    /\ kpath' = req.path
    /\ UNCHANGED <<req, lifeVars, pc, calls, last, fresh, completed, written>>

\* mcp_capture_poll returning true; a poll that returns false does nothing.
Poll ==
    /\ live /\ kpc = "frame"
    /\ req.pending /\ ~req.done
    /\ kpc' = "capture"
    /\ kpath' = req.path
    /\ UNCHANGED <<req, lifeVars, pc, calls, last, fresh, completed, written>>

\* pthread_cond_signal: one of the waiters, if any, is woken.
Signal ==
    \/ \E c \in Callers : pc[c] = "wait" /\ pc' = [pc EXCEPT ![c] = "woken"]
    \/ (\A c \in Callers : pc[c] # "wait") /\ pc' = pc

\* Mutant of Complete: nobody is woken.
CompleteNoSignal(ok) ==
    /\ live /\ kpc = "capture"
    /\ kpc' = "frame" /\ kpath' = NoRequest
    /\ completed' = completed \cup {kpath}
    /\ written' = IF ok THEN written \cup {kpath} ELSE written
    /\ fresh' = [c \in Callers |-> fresh[c] \/ ok]
    /\ req' = [path |-> req.path, pending |-> req.pending, done |-> TRUE, success |-> ok]
    /\ pc' = pc
    /\ UNCHANGED <<lifeVars, calls, last>>

\* The compositor has written the PNG, or failed to, and calls
\* mcp_capture_complete.
Complete(ok) ==
    /\ live /\ kpc = "capture"
    /\ kpc' = "frame" /\ kpath' = NoRequest
    /\ completed' = completed \cup {kpath}
    /\ written' = IF ok THEN written \cup {kpath} ELSE written
    /\ fresh' = [c \in Callers |-> fresh[c] \/ ok]
    /\ req' = [path |-> req.path, pending |-> req.pending, done |-> TRUE, success |-> ok]
    /\ Signal
    /\ UNCHANGED <<lifeVars, calls, last>>

Next ==
    \/ Set_notify \/ Install \/ Uninstall \/ Fini
    \/ Poll
    \/ \E ok \in BOOLEAN : Complete(ok)
    \/ \E c \in Callers :
          \/ Get_installed(c) \/ Submit(c)
          \/ SpuriousWakeup(c) \/ Rewait(c) \/ ReturnSuccess(c)
          \/ Expire(c) \/ ReturnTimeout(c)

\* A serve thread keeps running, and the clock reaches its deadline.  Nothing
\* is assumed of the compositor: it may stall for ever.
Fairness ==
    \A c \in Callers :
        /\ WF_vars(Submit(c)) /\ WF_vars(Rewait(c)) /\ WF_vars(ReturnSuccess(c))
        /\ SF_vars(Expire(c)) /\ WF_vars(ReturnTimeout(c))

Spec == Init /\ [][Next]_vars /\ Fairness

-----------------------------------------------------------------------------
\* Every variable keeps its type, and only completed requests are written.
TypeOK ==
    /\ req \in [path : Requests \cup {NoRequest}, pending : BOOLEAN,
                done : BOOLEAN, success : BOOLEAN]
    /\ live \in BOOLEAN /\ lives \in 0..MaxLives
    /\ installed \in BOOLEAN /\ notify \in BOOLEAN /\ handler \in BOOLEAN
    /\ pc \in [Callers -> {"idle"} \cup InHandler]
    /\ calls \in [Callers -> 0..MaxCalls]
    /\ last \in [Callers -> [request : Requests \cup {NoRequest}, ok : BOOLEAN, fresh : BOOLEAN]]
    /\ fresh \in [Callers -> BOOLEAN]
    /\ kpc \in {"frame", "capture"}
    /\ kpath \in Requests \cup {NoRequest}
    /\ completed \subseteq Requests /\ written \subseteq completed

\* mcp_capture_blocking_handler returns true only if the compositor wrote some
\* PNG after the call was submitted: never on the strength of an earlier one.
TrueMeansFresh == \A c \in Callers : last[c].ok => last[c].fresh

\* The compositor never works on a request it has already completed, however
\* late the caller is to take its answer (mcp_capture_poll's test of done).
CompletedOnce == kpc = "capture" => kpath \notin completed

\* No answer is left to sleepers: while a completed request has not been taken
\* (mcp_capture_complete has set done, pending still stands), either some
\* caller is awake to take it or nobody is waiting.
NoLostWakeup ==
    live /\ req.done /\ req.pending /\ (\E c \in Callers : pc[c] = "wait") =>
        \E c \in Callers : pc[c] \in {"woken", "expired"}

\* Once the slot is gone nobody can pick up a pointer to it: neither
\* g_installed_req nor the pointer that the install callback handed on.
PointersCleared == ~live => ~installed /\ ~handler

\* Every call of mcp_capture_blocking_handler returns, even when the
\* compositor has stalled for good.
HandlerReturns == \A c \in Callers : pc[c] \in InHandler ~> pc[c] = "idle"

\* What mcp_capture.h says of mcp_capture_blocking_handler: it waits "for the
\* compositor thread to complete it", the request this call submitted.
TrueMeansOwnCapture == \A c \in Callers : last[c].ok => last[c].request \in written

\* What mcp_capture.h says of mcp_capture_uninstall, "Call from compositor
\* destroy before freeing req": having done so, the slot may be freed, and no
\* thread is still using its lock.
SlotNotFreedInUse == ~live => \A c \in Callers : pc[c] \notin {"wait", "woken", "expired"}

=============================================================================
