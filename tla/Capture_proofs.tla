--------------------------- MODULE Capture_proofs ---------------------------
(***************************************************************************)
(* Proofs about the capture hand-off, for any number of serve threads,     *)
(* calls and compositor lifetimes.                                         *)
(***************************************************************************)
EXTENDS Capture, TLAPS

(***************************************************************************)
(* Types.  A request is numbered from 1, and what is pending, or worked    *)
(* on, is a request.                                                       *)
(***************************************************************************)
Sound ==
    /\ \A c \in Callers : pc[c] \in InHandler => calls[c] # 0
    /\ req.pending => req.path \in Requests
    /\ kpc = "capture" => kpath \in Requests

TypeInv == TypeOK /\ Sound

\* A call in the handler has a request of its own to submit.
LEMMA MineIsRequest ==
    ASSUME TypeInv, NEW c \in Callers, pc[c] \in InHandler
    PROVE  Mine(c) \in Requests
<1>1. calls[c] \in 0..MaxCalls /\ calls[c] # 0
  BY DEF TypeInv, TypeOK, Sound
<1>2. calls[c] \in 1..MaxCalls
  BY <1>1, CaptureAssumption DEF CaptureAssumption
<1> QED
  BY <1>2 DEF Mine, Requests

\* The types hold at start-up.
LEMMA TypeInit ==
    Init => TypeInv
<1> SUFFICES ASSUME Init PROVE TypeInv
  OBVIOUS
<1> USE CaptureAssumption DEF Init, CaptureAssumption
<1>1. req \in [path : Requests \cup {NoRequest}, pending : BOOLEAN, done : BOOLEAN, success : BOOLEAN]
  BY Zenon DEF EmptySlot
<1>2. last \in [Callers -> [request : Requests \cup {NoRequest}, ok : BOOLEAN, fresh : BOOLEAN]]
  BY DEF NoResult
<1>3. lives \in 0..MaxLives /\ calls \in [Callers -> 0..MaxCalls]
  OBVIOUS
<1>4. pc \in [Callers -> {"idle"} \cup InHandler] /\ fresh \in [Callers -> BOOLEAN]
  OBVIOUS
<1>5. Sound
  BY DEF Sound, EmptySlot, InHandler
<1> QED
  BY <1>1, <1>2, <1>3, <1>4, <1>5 DEF TypeInv, TypeOK

\* Every step of the serve threads and of the compositor keeps the types.
LEMMA TypeStep ==
    TypeInv /\ [Next]_vars => TypeInv'
<1> SUFFICES ASSUME TypeInv, [Next]_vars PROVE TypeInv'
  OBVIOUS
<1> USE CaptureAssumption DEF TypeInv, TypeOK, Sound, CaptureAssumption, lifeVars, compVars
<1>1. CASE Set_notify
  BY <1>1 DEF Set_notify
<1>2. CASE Install
  BY <1>2 DEF Install, EmptySlot
<1>3. CASE Uninstall
  BY <1>3 DEF Uninstall
<1>4. CASE Fini
  BY <1>4 DEF Fini
<1>5. CASE Poll
  BY <1>5 DEF Poll
<1>6. ASSUME NEW ok \in BOOLEAN, Complete(ok)
      PROVE  TypeInv'
  BY <1>6 DEF Complete, Signal, InHandler
<1>7. ASSUME NEW c \in Callers, Get_installed(c)
      PROVE  TypeInv'
  BY <1>7 DEF Get_installed, InHandler
<1>8. ASSUME NEW c \in Callers, Submit(c)
      PROVE  TypeInv'
  <2>1. Mine(c) \in Requests
    BY <1>8, MineIsRequest DEF Submit, InHandler
  <2> QED
    BY <1>8, <2>1 DEF Submit, InHandler
<1>9. ASSUME NEW c \in Callers, SpuriousWakeup(c) \/ Rewait(c) \/ Expire(c)
      PROVE  TypeInv'
  BY <1>9 DEF SpuriousWakeup, Rewait, Expire, InHandler
<1>10. ASSUME NEW c \in Callers, NEW ok \in BOOLEAN, pc[c] \in InHandler, Return(c, ok)
       PROVE  TypeInv'
  <2>1. Mine(c) \in Requests
    BY <1>10, MineIsRequest
  <2> QED
    BY <1>10, <2>1 DEF Return, InHandler
<1>11. ASSUME NEW c \in Callers, ReturnSuccess(c) \/ ReturnTimeout(c)
       PROVE  TypeInv'
  BY <1>10, <1>11 DEF ReturnSuccess, ReturnTimeout, InHandler
<1>12. CASE UNCHANGED vars
  BY <1>12 DEF vars, InHandler, Requests
<1> QED
  BY <1>1, <1>2, <1>3, <1>4, <1>5, <1>6, <1>7, <1>8, <1>9, <1>11, <1>12 DEF Next

\* The types, and what Sound adds to them, hold throughout.
LEMMA TypesAlways ==
    Spec => []TypeInv
BY TypeInit, TypeStep, PTL DEF Spec

\* Every variable of the hand-off keeps its type, and only requests that were
\* submitted are ever captured.
THEOREM CaptureTypes == Spec => []TypeOK
<1>1. TypeInv => TypeOK
  BY DEF TypeInv
<1> QED
  BY <1>1, TypesAlways, PTL

-----------------------------------------------------------------------------
(***************************************************************************)
(* A true answer is fresh: done and success in the slot mean that every    *)
(* caller between submit and return has seen a capture succeed.            *)
(***************************************************************************)
Submitted == {"wait", "woken", "expired"}

FreshInv ==
    /\ req.done /\ req.success => \A c \in Callers : pc[c] \in Submitted => fresh[c]
    /\ TrueMeansFresh

\* An empty slot answers nobody.
LEMMA FreshInit ==
    Init => FreshInv
BY DEF Init, FreshInv, TrueMeansFresh, EmptySlot, NoResult

\* A step keeps FreshInv: submitting clears done, completing makes every
\* caller in the handler fresh.
LEMMA FreshStep ==
    TypeInv /\ FreshInv /\ [Next]_vars => FreshInv'
<1> SUFFICES ASSUME TypeInv, FreshInv, [Next]_vars PROVE FreshInv'
  OBVIOUS
<1> USE DEF TypeInv, TypeOK, FreshInv, TrueMeansFresh, lifeVars, compVars, Submitted
<1>1. CASE Set_notify \/ Uninstall \/ Fini \/ Poll \/ UNCHANGED vars
  BY <1>1 DEF Set_notify, Uninstall, Fini, Poll, vars
<1>2. CASE Install
  BY <1>2 DEF Install, EmptySlot
<1>3. ASSUME NEW ok \in BOOLEAN, Complete(ok)
      PROVE  FreshInv'
  BY <1>3 DEF Complete, Signal
<1>4. ASSUME NEW c \in Callers, Get_installed(c)
      PROVE  FreshInv'
  BY <1>4 DEF Get_installed
<1>5. ASSUME NEW c \in Callers, Submit(c)
      PROVE  FreshInv'
  BY <1>5 DEF Submit
<1>6. ASSUME NEW c \in Callers, SpuriousWakeup(c) \/ Rewait(c) \/ Expire(c)
      PROVE  FreshInv'
  BY <1>6 DEF SpuriousWakeup, Rewait, Expire
<1>7. ASSUME NEW c \in Callers, ReturnSuccess(c)
      PROVE  FreshInv'
  BY <1>7 DEF ReturnSuccess, Return
<1>8. ASSUME NEW c \in Callers, ReturnTimeout(c)
      PROVE  FreshInv'
  BY <1>8 DEF ReturnTimeout, Return
<1> QED
  BY <1>1, <1>2, <1>3, <1>4, <1>5, <1>6, <1>7, <1>8 DEF Next

\* mcp_capture_blocking_handler never returns true on the strength of a
\* capture that ended before the call was submitted, however many threads
\* share the slot and however late completions come.
THEOREM CaptureIsFresh == Spec => []TrueMeansFresh
<1>1. Spec => []FreshInv
  BY FreshInit, FreshStep, TypesAlways, PTL DEF Spec
<1>2. FreshInv => TrueMeansFresh
  BY DEF FreshInv
<1> QED
  BY <1>1, <1>2, PTL

-----------------------------------------------------------------------------
(***************************************************************************)
(* No request is captured twice: the requests that are completed, pending  *)
(* or worked on are numbered at most like the last call of their caller,   *)
(* and below it while that call has yet to submit.                         *)
(***************************************************************************)
Used(c, n) ==
    \/ <<c, n>> \in completed
    \/ req.pending /\ req.path = <<c, n>>
    \/ kpc = "capture" /\ kpath = <<c, n>>

OnceInv ==
    /\ \A c \in Callers : \A n \in 1..MaxCalls :
          Used(c, n) => n <= calls[c] /\ (pc[c] = "fetched" => n # calls[c])
    /\ req.pending /\ ~req.done => req.path \notin completed
    /\ CompletedOnce

\* No request is used at start-up.
LEMMA OnceInit ==
    Init => OnceInv
BY DEF Init, OnceInv, CompletedOnce, EmptySlot, Used

\* A step keeps OnceInv: each call submits a request with a new number.
LEMMA OnceStep ==
    TypeInv /\ OnceInv /\ [Next]_vars => OnceInv'
<1> SUFFICES ASSUME TypeInv, OnceInv, [Next]_vars PROVE OnceInv'
  OBVIOUS
<1> USE CaptureAssumption DEF CaptureAssumption, TypeInv, TypeOK, Sound, OnceInv, CompletedOnce, Used, lifeVars, compVars
<1>1. CASE Set_notify \/ Uninstall \/ Fini \/ UNCHANGED vars
  BY <1>1 DEF Set_notify, Uninstall, Fini, vars
<1>2. CASE Install
  BY <1>2 DEF Install, EmptySlot
<1>3. CASE Poll
  BY <1>3 DEF Poll
<1>4. ASSUME NEW ok \in BOOLEAN, Complete(ok)
      PROVE  OnceInv'
  BY <1>4 DEF Complete, Signal
<1>5. ASSUME NEW c \in Callers, Get_installed(c)
      PROVE  OnceInv'
  BY <1>5 DEF Get_installed
<1>6. ASSUME NEW c \in Callers, Submit(c)
      PROVE  OnceInv'
  BY <1>6, MineIsRequest DEF Submit, Mine, InHandler, Requests
<1>7. ASSUME NEW c \in Callers, SpuriousWakeup(c) \/ Rewait(c) \/ Expire(c)
      PROVE  OnceInv'
  BY <1>7 DEF SpuriousWakeup, Rewait, Expire
<1>8. ASSUME NEW c \in Callers, ReturnSuccess(c) \/ ReturnTimeout(c)
      PROVE  OnceInv'
  BY <1>8 DEF ReturnSuccess, ReturnTimeout, Return
<1> QED
  BY <1>1, <1>2, <1>3, <1>4, <1>5, <1>6, <1>7, <1>8 DEF Next

\* mcp_capture_poll never hands the compositor a request it has already
\* completed.
THEOREM CapturedOnce == Spec => []CompletedOnce
<1>1. Spec => []OnceInv
  BY OnceInit, OnceStep, TypesAlways, PTL DEF Spec
<1>2. OnceInv => CompletedOnce
  BY DEF OnceInv
<1> QED
  BY <1>1, <1>2, PTL

-----------------------------------------------------------------------------
(***************************************************************************)
(* Wake-ups, and the pointers to the slot.                                 *)
(***************************************************************************)
\* The callback's pointer is there only while the slot is installed, by an
\* install that the callback was told of.
PointerInv ==
    /\ installed => live
    /\ handler => installed /\ notify

\* A step keeps NoLostWakeup: a completion wakes a waiter if there is one, and
\* whoever returns clears pending.
LEMMA WakeStep ==
    TypeInv /\ NoLostWakeup /\ [Next]_vars => NoLostWakeup'
<1> SUFFICES ASSUME TypeInv, NoLostWakeup, [Next]_vars PROVE NoLostWakeup'
  OBVIOUS
<1> USE DEF TypeInv, TypeOK, NoLostWakeup, lifeVars, compVars
<1>1. CASE Set_notify \/ Uninstall \/ Fini \/ Poll \/ UNCHANGED vars
  BY <1>1 DEF Set_notify, Uninstall, Fini, Poll, vars
<1>2. CASE Install
  BY <1>2 DEF Install, EmptySlot
<1>3. ASSUME NEW ok \in BOOLEAN, Complete(ok)
      PROVE  NoLostWakeup'
  BY <1>3 DEF Complete, Signal
<1>4. ASSUME NEW c \in Callers, Get_installed(c)
      PROVE  NoLostWakeup'
  BY <1>4 DEF Get_installed
<1>5. ASSUME NEW c \in Callers, Submit(c)
      PROVE  NoLostWakeup'
  <2>1. req'.done = FALSE
    BY <1>5 DEF Submit
  <2> QED
    BY <2>1
<1>6. ASSUME NEW c \in Callers, SpuriousWakeup(c) \/ Rewait(c) \/ Expire(c)
      PROVE  NoLostWakeup'
  BY <1>6 DEF SpuriousWakeup, Rewait, Expire
<1>7. ASSUME NEW c \in Callers, ReturnSuccess(c) \/ ReturnTimeout(c)
      PROVE  NoLostWakeup'
  <2>1. req'.pending = FALSE
    BY <1>7 DEF ReturnSuccess, ReturnTimeout, Return
  <2> QED
    BY <2>1
<1> QED
  BY <1>1, <1>2, <1>3, <1>4, <1>5, <1>6, <1>7 DEF Next

\* One pthread_cond_signal is enough for any number of callers: an answer that
\* nobody has taken never leaves all of them asleep.
THEOREM CaptureWakes == Spec => []NoLostWakeup
<1>1. Init => NoLostWakeup
  BY DEF Init, NoLostWakeup, EmptySlot
<1> QED
  BY <1>1, WakeStep, TypesAlways, PTL DEF Spec

\* After the compositor has gone, neither g_installed_req nor the callback's
\* pointer leads to the slot it has freed.
THEOREM CapturePointers == Spec => []PointersCleared
<1>1. Init => PointerInv
  BY DEF Init, PointerInv
<1>2. TypeInv /\ PointerInv /\ [Next]_vars => PointerInv'
  <2> SUFFICES ASSUME TypeInv, PointerInv, [Next]_vars PROVE PointerInv'
    OBVIOUS
  <2> USE DEF TypeInv, TypeOK, PointerInv
  <2>1. CASE Set_notify \/ Fini
    BY <2>1 DEF Set_notify, Fini
  <2>2. CASE Install
    BY <2>2, Zenon DEF Install
  <2>3. CASE Uninstall
    BY <2>3, Zenon DEF Uninstall
  <2>4. CASE UNCHANGED lifeVars
    BY <2>4 DEF lifeVars
  <2>5. [Next]_vars => Set_notify \/ Install \/ Uninstall \/ Fini \/ UNCHANGED lifeVars
    BY DEF Next, vars, lifeVars, Poll, Complete, Get_installed, Submit, SpuriousWakeup,
           Rewait, ReturnSuccess, Expire, ReturnTimeout, Return
  <2> QED
    BY <2>1, <2>2, <2>3, <2>4, <2>5
<1>3. PointerInv => PointersCleared
  BY DEF PointerInv, PointersCleared
<1> QED
  BY <1>1, <1>2, <1>3, TypesAlways, PTL DEF Spec

=============================================================================
