---------------------------- MODULE HwTimerProofs ----------------------------
(***************************************************************************)
(* Proofs about the hardware timer signal delivery model, for every set   *)
(* of signal numbers and values and every bound on the expiries that       *)
(* satisfies HwTimerAssumption.                                            *)
(***************************************************************************)
EXTENDS HwTimer, TLAPS

USE HwTimerAssumption

(* The strengthening of TypeOK: timer_timeout_ind runs at most once per   *)
(* expiry of the counter (an asserted line stands for one not yet taken),  *)
(* and the workqueue thread only takes the work below the bound.  The list *)
(* head always points at nodes; the work's pointers are NULL only before   *)
(* the first rt_work_init, while the list is empty.                        *)
TypeInv ==
  /\ TypeOK
  /\ fired <= expired
  /\ irqLine => fired < expired
  /\ wpc = "run" => delivered < MaxFires
  /\ nxt[Q] \in Nodes /\ prv[Q] \in Nodes
  /\ \/ nxt[W] \in Nodes /\ prv[W] \in Nodes
     \/ nxt[W] = NULL /\ prv[W] = NULL /\ nxt[Q] = Q /\ prv[Q] = Q

(* The strengthening of WorkListWellFormed in one-shot mode: every call   *)
(* of timer_timeout_ind is pending on the list, being run by the           *)
(* workqueue thread or already signalled, never two at once; and while the *)
(* counter runs or its interrupt is asserted, all of them are signalled,   *)
(* since the process re-arms only after the last signal.                   *)
OneShotInv ==
  /\ TypeInv
  /\ WorkListWellFormed
  /\ tmode = "oneshot"
  /\ fired = delivered + (IF wpending THEN 1 ELSE 0) + (IF wpc = "run" THEN 1 ELSE 0)
  /\ ~(wpending /\ wpc = "run")
  /\ (running \/ irqLine) => fired = delivered

(* Pointer functions in which every pointer is a node.                    *)
Ring == [Nodes -> Nodes]

(* rt_list_init, rt_list_remove and rt_list_insert_after store only node  *)
(* addresses or pointers already stored: pointers to nodes stay so.        *)
LEMMA ListInitRing ==
  ASSUME NEW N, NEW P, DOMAIN N = Nodes, DOMAIN P = Nodes, NEW n \in Nodes,
         \A m \in Nodes \ {n} : N[m] \in Nodes /\ P[m] \in Nodes
  PROVE  ListInit(N, P, n)[1] \in Ring /\ ListInit(N, P, n)[2] \in Ring
BY DEF ListInit, Ring

LEMMA ListRemoveRing ==
  ASSUME NEW N \in Ring, NEW P \in Ring, NEW n \in Nodes
  PROVE  ListRemove(N, P, n)[1] \in Ring /\ ListRemove(N, P, n)[2] \in Ring
BY DEF ListRemove, Ring

LEMMA ListInsertAfterRing ==
  ASSUME NEW N \in Ring, NEW P \in Ring, NEW l \in Nodes, NEW n \in Nodes
  PROVE  /\ ListInsertAfter(N, P, l, n)[1] \in Ring
         /\ ListInsertAfter(N, P, l, n)[2] \in Ring
BY DEF ListInsertAfter, Ring

(* A ring meets the pointer conjuncts of TypeInv.                         *)
LEMMA RingLinks ==
  ASSUME NEW N \in Ring, NEW P \in Ring
  PROVE  /\ N \in [Nodes -> Nodes \cup {NULL}] /\ P \in [Nodes -> Nodes \cup {NULL}]
         /\ N[Q] \in Nodes /\ P[Q] \in Nodes /\ N[W] \in Nodes /\ P[W] \in Nodes
BY DEF Ring, Nodes

(* timer_timeout_ind leaves every pointer of the head and the work a node. *)
LEMMA TimeoutIndRing ==
  ASSUME NEW N, NEW P, DOMAIN N = Nodes, DOMAIN P = Nodes,
         N[Q] \in Nodes, P[Q] \in Nodes
  PROVE  LET I == ListInit(N, P, W)
             S == WorkSubmit(I[1], I[2])
         IN  S[1] \in Ring /\ S[2] \in Ring
<1> DEFINE I == ListInit(N, P, W)
<1>1. W \in Nodes /\ Nodes \ {W} = {Q}
  BY DEF Nodes, Q, W
<1>2. I[1] \in Ring /\ I[2] \in Ring
  BY <1>1, ListInitRing
<1>3. ListRemove(I[1], I[2], W)[1] \in Ring /\ ListRemove(I[1], I[2], W)[2] \in Ring
  BY <1>1, <1>2, ListRemoveRing
<1>4. ListRemove(I[1], I[2], W)[2][Q] \in Nodes
  BY <1>3 DEF Ring, Nodes
<1>5. QED
  BY <1>1, <1>3, <1>4, ListInsertAfterRing DEF WorkSubmit

(* The zeroed statics satisfy TypeInv.                                     *)
LEMMA InitTypeInv == Init => TypeInv
<1> SUFFICES ASSUME Init PROVE TypeInv
  OBVIOUS
<1>1. nxt \in [Nodes -> Nodes \cup {NULL}] /\ prv \in [Nodes -> Nodes \cup {NULL}]
  BY DEF Init, Nodes
<1>2. rxInd \in BOOLEAN /\ running \in BOOLEAN /\ irqLine \in BOOLEAN /\ wpending \in BOOLEAN
     /\ activated \in BOOLEAN
  BY Zenon DEF Init
<1>3. nxt[Q] = Q /\ prv[Q] = Q /\ nxt[W] = NULL /\ prv[W] = NULL
  BY DEF Init, Nodes, Q, W
<1>4. Q \in Nodes
  BY DEF Nodes
<1>5. QED
  BY <1>1, <1>2, <1>3, <1>4 DEF Init, TypeInv, TypeOK

(* Every step keeps TypeInv.                                               *)
LEMMA TypeInvInductive == TypeInv /\ [Next]_vars => TypeInv'
<1> SUFFICES ASSUME TypeInv, [Next]_vars PROVE TypeInv'
  OBVIOUS
<1>1. CASE \E s \in Signos, v \in Sigvals : IrqSet(s, v)
  BY <1>1 DEF IrqSet, TypeInv, TypeOK, clkVars
<1>2. CASE IrqClear
  BY <1>2 DEF IrqClear, TypeInv, TypeOK, clkVars
<1>3. CASE \E m \in Modes : KdTimerStart(m)
  BY <1>3 DEF KdTimerStart, TypeInv, TypeOK, clkVars
<1>4. CASE KdTimerStop
  BY <1>4 DEF KdTimerStop, TypeInv, TypeOK, clkVars
<1>5. CASE Expire
  BY <1>5 DEF Expire, TypeInv, TypeOK, clkVars
<1>6. CASE KdHwtimerIsr
  <2>1. CASE rxInd
    <3>1. nxt' \in Ring /\ prv' \in Ring
      BY <1>6, <2>1, TimeoutIndRing DEF KdHwtimerIsr, TimerTimeoutInd, TypeInv, TypeOK, clkVars
    <3>2. fired' <= expired' /\ fired' \in 0..MaxFires
      BY <1>6, <2>1 DEF KdHwtimerIsr, TimerTimeoutInd, TypeInv, TypeOK, clkVars
    <3>3. QED
      BY <1>6, <2>1, <3>1, <3>2, RingLinks DEF KdHwtimerIsr, TimerTimeoutInd, TypeInv, TypeOK, clkVars
  <2>2. CASE ~rxInd
    BY <1>6, <2>2 DEF KdHwtimerIsr, TypeInv, TypeOK, clkVars
  <2>3. QED
    BY <2>1, <2>2
<1>7. CASE WorkerTake
  <2>1. nxt \in Ring /\ prv \in Ring /\ nxt[Q] \in Nodes
    BY <1>7 DEF WorkerTake, TypeInv, TypeOK, clkVars, Ring, Nodes
  <2>2. nxt' \in Ring /\ prv' \in Ring
    BY <1>7, <2>1, ListRemoveRing DEF WorkerTake
  <2>3. QED
    BY <1>7, <2>2, RingLinks DEF WorkerTake, TypeInv, TypeOK, clkVars
<1>8. CASE SendSigWork
  BY <1>8 DEF SendSigWork, TypeInv, TypeOK, clkVars
<1>9. CASE UNCHANGED vars
  BY <1>9 DEF vars, TypeInv, TypeOK, clkVars
<1>10. CASE HwtimerOpen
  <2>1. clkDiv' \in LeafDivs
    BY <1>10 DEF HwtimerOpen, KdClkDiv, LeafDivs
  <2>2. QED
    BY <1>10, <2>1 DEF HwtimerOpen, TypeInv, TypeOK, clkVars
<1>11. CASE HwtimerClose
  BY <1>11 DEF HwtimerClose, TypeInv, TypeOK, clkVars
<1>12. CASE \E f \in Freqs : FreqSet(f)
  <2>1. PICK f \in Freqs : FreqSet(f)
    BY <1>12
  <2>2. clkDiv' \in LeafDivs
    BY <2>1 DEF FreqSet, KdClkDiv, LeafDivs, TypeInv, TypeOK, clkVars
  <2>3. QED
    BY <2>1, <2>2 DEF FreqSet, TypeInv, TypeOK, clkVars
<1>13. QED
  BY <1>1, <1>2, <1>3, <1>4, <1>5, <1>6, <1>7, <1>8, <1>9, <1>10, <1>11,
     <1>12 DEF Next

(* The timer model keeps every variable in its type, whatever modes the   *)
(* process uses: timer_timeout_ind and send_sig_work never run more often  *)
(* than the counter expired.                                               *)
THEOREM TypeCorrect == Spec => []TypeOK
<1>1. TypeInv => TypeOK
  BY DEF TypeInv
<1>2. QED
  BY <1>1, InitTypeInv, TypeInvInductive, PTL DEF Spec

-----------------------------------------------------------------------------
(* WorkListWellFormed in one-shot mode.                                    *)

(* timer_timeout_ind on an empty list links the head and the work into a  *)
(* ring of two.                                                            *)
LEMMA SubmitOnEmpty ==
  ASSUME NEW N, NEW P, DOMAIN N = Nodes, DOMAIN P = Nodes, N[Q] = Q, P[Q] = Q
  PROVE  LET I == ListInit(N, P, W)
             S == WorkSubmit(I[1], I[2])
         IN  S[1][Q] = W /\ S[1][W] = Q /\ S[2][Q] = W /\ S[2][W] = Q
BY DEF ListInit, WorkSubmit, ListRemove, ListInsertAfter, Nodes, Q, W

(* The workqueue thread taking the work off a ring of two empties it.     *)
LEMMA TakeFromRing ==
  ASSUME NEW N, NEW P, DOMAIN N = Nodes, DOMAIN P = Nodes,
         N[Q] = W, N[W] = Q, P[Q] = W, P[W] = Q
  PROVE  ListRemove(N, P, W)[1][Q] = Q /\ ListRemove(N, P, W)[2][Q] = Q
BY DEF ListRemove, Nodes, Q, W

(* Before the first expiry the list is empty and nothing was fired.       *)
LEMMA InitOneShotInv ==
  ASSUME Modes = {"oneshot"}
  PROVE  Init => OneShotInv
<1> SUFFICES ASSUME Init PROVE OneShotInv
  OBVIOUS
<1>1. TypeInv
  BY InitTypeInv
<1>2. nxt[Q] = Q /\ prv[Q] = Q
  BY DEF Init, Nodes, Q
<1>3. QED
  BY <1>1, <1>2 DEF Init, OneShotInv, WorkListWellFormed, Q, W

(* Every step keeps OneShotInv when the process only uses one-shot mode.  *)
LEMMA OneShotInvInductive ==
  ASSUME Modes = {"oneshot"}
  PROVE  OneShotInv /\ [Next]_vars => OneShotInv'
<1> SUFFICES ASSUME OneShotInv, [Next]_vars PROVE OneShotInv'
  OBVIOUS
<1>0. TypeInv'
  BY TypeInvInductive DEF OneShotInv
<1>1. CASE \E s \in Signos, v \in Sigvals : IrqSet(s, v)
  BY <1>0, <1>1 DEF IrqSet, OneShotInv, WorkListWellFormed, clkVars
<1>2. CASE IrqClear
  BY <1>0, <1>2 DEF IrqClear, OneShotInv, WorkListWellFormed, clkVars
<1>3. CASE \E m \in Modes : KdTimerStart(m)
  BY <1>0, <1>3 DEF KdTimerStart, OneShotInv, WorkListWellFormed, clkVars
<1>4. CASE KdTimerStop
  BY <1>0, <1>4 DEF KdTimerStop, OneShotInv, WorkListWellFormed, clkVars
<1>5. CASE Expire
  BY <1>0, <1>5 DEF Expire, OneShotInv, WorkListWellFormed, clkVars
<1>6. CASE KdHwtimerIsr
  <2>1. ~running' /\ ~irqLine'
    BY <1>6 DEF KdHwtimerIsr, OneShotInv
  <2>2. CASE rxInd
    <3>1. fired = delivered /\ ~wpending /\ wpc = "idle"
      BY <1>6 DEF KdHwtimerIsr, OneShotInv, TypeInv, TypeOK
    <3>2. nxt[Q] = Q /\ prv[Q] = Q
      BY <3>1 DEF OneShotInv, WorkListWellFormed, clkVars
    <3>3. nxt'[Q] = W /\ nxt'[W] = Q /\ prv'[Q] = W /\ prv'[W] = Q
      BY <1>6, <2>2, <3>2, SubmitOnEmpty DEF KdHwtimerIsr, TimerTimeoutInd,
         OneShotInv, TypeInv, TypeOK
    <3>4. wpending' /\ wpc' = "idle" /\ fired' = delivered' + 1
      BY <1>6, <2>2, <3>1 DEF KdHwtimerIsr, TimerTimeoutInd, OneShotInv, TypeInv, TypeOK
    <3>5. QED
      BY <1>0, <1>6, <2>1, <3>3, <3>4 DEF KdHwtimerIsr, OneShotInv, WorkListWellFormed, clkVars
  <2>3. CASE ~rxInd
    BY <1>0, <1>6, <2>1, <2>3 DEF KdHwtimerIsr, OneShotInv, WorkListWellFormed, clkVars
  <2>4. QED
    BY <2>2, <2>3
<1>7. CASE WorkerTake
  <2>1. nxt[Q] = W /\ nxt[W] = Q /\ prv[Q] = W /\ prv[W] = Q /\ wpending /\ wpc = "idle"
    BY <1>7 DEF WorkerTake, OneShotInv, WorkListWellFormed, clkVars
  <2>2. nxt'[Q] = Q /\ prv'[Q] = Q
    BY <1>7, <2>1, TakeFromRing DEF WorkerTake, OneShotInv, TypeInv, TypeOK
  <2>3. fired = delivered + 1
    BY <2>1 DEF OneShotInv, TypeInv, TypeOK
  <2>4. QED
    BY <1>0, <1>7, <2>2, <2>3 DEF WorkerTake, OneShotInv, WorkListWellFormed, clkVars, TypeInv, TypeOK
<1>8. CASE SendSigWork
  BY <1>0, <1>8 DEF SendSigWork, OneShotInv, WorkListWellFormed, clkVars, TypeInv, TypeOK
<1>9. CASE UNCHANGED vars
  BY <1>0, <1>9 DEF vars, OneShotInv, WorkListWellFormed, clkVars
<1>10. CASE HwtimerOpen
  BY <1>0, <1>10 DEF HwtimerOpen, OneShotInv, WorkListWellFormed, clkVars
<1>11. CASE HwtimerClose
  BY <1>0, <1>11 DEF HwtimerClose, OneShotInv, WorkListWellFormed, clkVars
<1>12. CASE \E f \in Freqs : FreqSet(f)
  BY <1>0, <1>12 DEF FreqSet, OneShotInv, WorkListWellFormed, clkVars
<1>13. QED
  BY <1>1, <1>2, <1>3, <1>4, <1>5, <1>6, <1>7, <1>8, <1>9, <1>10, <1>11,
     <1>12 DEF Next

(* In one-shot mode, with the process re-arming the timer only after the  *)
(* signal of the last expiry, timer_timeout_ind never re-initialises the  *)
(* work while it is queued: the workqueue's list stays a well-formed ring, *)
(* for every bound on the expiries and every signal configuration.         *)
THEOREM OneShotListHolds ==
  ASSUME Modes = {"oneshot"}
  PROVE  Spec => []WorkListWellFormed
<1>1. OneShotInv => WorkListWellFormed
  BY DEF OneShotInv
<1>2. QED
  BY <1>1, InitOneShotInv, OneShotInvInductive, PTL DEF Spec

=============================================================================
