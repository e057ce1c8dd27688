----------------------------- MODULE PlicProofs -----------------------------
(***************************************************************************)
(* Proofs about the PLIC driver model, for every value of the constants    *)
(* that satisfies PlicAssumption.                                          *)
(***************************************************************************)
EXTENDS Plic, TLAPS

USE PlicAssumption

(* Each action of the driver and of the PLIC keeps every variable in its  *)
(* type: plic_init writes only context 1, which exists since the build has *)
(* at least two contexts; a claim takes a pending ID; a device raises at   *)
(* most MaxRaises requests.                                                *)
LEMMA TypeOKInductive == TypeOK /\ [Next]_vars => TypeOK'
<1> SUFFICES ASSUME TypeOK, [Next]_vars PROVE TypeOK'
  OBVIOUS
<1>1. CASE PlicInit
  BY <1>1 DEF PlicInit, TypeOK, Contexts, NoCtx
<1>2. CASE \E i \in Ids, en \in {0, 1} : PlicIrqToggle(i, en)
  <2>1. PICK i \in Ids, en \in {0, 1} : PlicIrqToggle(i, en)
    BY <1>2
  <2>2. present => enable' \in [Contexts -> SUBSET Ids]
    <3>1. CASE present /\ hartCtx \in Contexts
      BY <2>1, <3>1 DEF PlicIrqToggle, PlicToggle, TypeOK
    <3>2. CASE present /\ hartCtx = NoCtx
      <4>1. NoCtx \notin Contexts
        BY DEF NoCtx, Contexts
      <4>2. enable' = enable
        BY <2>1, <3>2, <4>1 DEF PlicIrqToggle, PlicToggle, TypeOK
      <4>3. QED
        BY <4>2 DEF TypeOK
    <3>3. QED
      BY <3>1, <3>2 DEF TypeOK
  <2>3. QED
    BY <2>1, <2>2 DEF PlicIrqToggle, PlicToggle, TypeOK
<1>3. CASE \E i \in Ids : Raise(i)
  BY <1>3 DEF Raise, TypeOK
<1>4. CASE PlicHandleIrq
  BY <1>4 DEF PlicHandleIrq, TypeOK
<1>5. CASE ClaimIrq
  BY <1>5 DEF ClaimIrq, Eligible, TypeOK, Ids
<1>6. CASE ClaimNone
  BY <1>6 DEF ClaimNone, TypeOK
<1>7. CASE GenericHandleIrq
  BY <1>7 DEF GenericHandleIrq, Completed, TypeOK
<1>8. CASE UNCHANGED vars
  BY <1>8 DEF vars, TypeOK
<1>9. QED
  BY <1>1, <1>2, <1>3, <1>4, <1>5, <1>6, <1>7, <1>8 DEF Next

(* Before plic_init every variable has its type.                          *)
LEMMA InitTypeOK == Init => TypeOK
<1> SUFFICES ASSUME Init PROVE TypeOK
  OBVIOUS
<1>1. raised \in [Ids -> 0..MaxRaises]
  BY DEF Init
<1>2. cur \in 0..NrIrqs /\ hartCtx \in Contexts \cup {NoCtx}
  BY DEF Init
<1>3. QED
  BY <1>1, <1>2 DEF Init, TypeOK

(* The model of plic_init, the PLIC and the dispatch loop never leaves    *)
(* its types.                                                              *)
THEOREM TypeCorrect == Spec => []TypeOK
BY InitTypeOK, TypeOKInductive, PTL DEF Spec

-----------------------------------------------------------------------------
(* OneOutstanding holds whenever every ID the PLIC can deliver lies in    *)
(* the range [0, IRQ_MAX_NR) that generic_handle_irq completes.            *)

(* The strengthening OneOutstandingInv is preserved by every step.        *)
LEMMA OneOutstandingInductive ==
  ASSUME NrIrqs < IrqMaxNr
  PROVE  OneOutstandingInv /\ [Next]_vars => OneOutstandingInv'
<1> SUFFICES ASSUME OneOutstandingInv, [Next]_vars
             PROVE  OneOutstandingInv'
  OBVIOUS
<1>0. TypeOK'
  BY TypeOKInductive DEF OneOutstandingInv
<1>1. CASE PlicInit
  <2>1. hpc = "thread"
    BY <1>1 DEF PlicInit, OneOutstandingInv
  <2>2. QED
    BY <1>0, <1>1, <2>1 DEF PlicInit, OneOutstandingInv
<1>2. CASE \E i \in Ids, en \in {0, 1} : PlicIrqToggle(i, en)
  BY <1>0, <1>2 DEF PlicIrqToggle, OneOutstandingInv
<1>3. CASE \E i \in Ids : Raise(i)
  BY <1>0, <1>3 DEF Raise, OneOutstandingInv
<1>4. CASE PlicHandleIrq
  BY <1>0, <1>4 DEF PlicHandleIrq, OneOutstandingInv
<1>5. CASE ClaimIrq
  <2>1. PICK i \in Eligible(hartCtx) : IsBestClaim(hartCtx, i) /\ cur' = i
    BY <1>5 DEF ClaimIrq
  <2>2. i \in Ids /\ i \in enable[hartCtx]
    BY <2>1 DEF Eligible, OneOutstandingInv, TypeOK
  <2>3. inService' = {cur'}
    BY <1>5, <2>1 DEF ClaimIrq, OneOutstandingInv
  <2>4. QED
    BY <1>0, <1>5, <2>1, <2>2, <2>3 DEF ClaimIrq, OneOutstandingInv
<1>6. CASE ClaimNone
  BY <1>0, <1>6 DEF ClaimNone, OneOutstandingInv
<1>7. CASE GenericHandleIrq
  <2>1. cur \in Ids /\ cur \in enable[hartCtx] /\ inService = {cur}
    BY <1>7 DEF GenericHandleIrq, OneOutstandingInv
  <2>2. ~(cur >= IrqMaxNr)
    BY <2>1 DEF Ids
  <2>3. inService' = {}
    BY <1>7, <2>1, <2>2 DEF GenericHandleIrq, Completed
  <2>4. QED
    BY <1>0, <1>7, <2>3 DEF GenericHandleIrq, OneOutstandingInv
<1>8. CASE UNCHANGED vars
  BY <1>0, <1>8 DEF vars, OneOutstandingInv
<1>9. QED
  BY <1>1, <1>2, <1>3, <1>4, <1>5, <1>6, <1>7, <1>8 DEF Next

(* When C908_PLIC_NR_EXT_IRQS < IRQ_MAX_NR, plic_handle_irq completes     *)
(* every ID it claims before it claims another or returns to the thread:  *)
(* no interrupt source is left in service and lost.                        *)
THEOREM OneOutstandingHolds ==
  ASSUME NrIrqs < IrqMaxNr
  PROVE  Spec => []OneOutstanding
<1>1. Init => OneOutstandingInv
  BY InitTypeOK DEF Init, OneOutstandingInv
<1>2. OneOutstandingInv => OneOutstanding
  BY DEF OneOutstandingInv, OneOutstanding
<1>3. QED
  BY <1>1, <1>2, OneOutstandingInductive, PTL DEF Spec

-----------------------------------------------------------------------------
(* Refinement: under the same hypothesis every step of the driver and the *)
(* PLIC is a step of IrqDelivery under the mapping of Plic's Delivery, or *)
(* leaves the mapped state alone.                                          *)

(* Before plic_init nothing is outstanding or handled.                    *)
LEMMA InitRefines == Init => Delivery!AInit
BY DEF Init, Delivery!AInit, Delivery!None, Delivery!Ids, Ids

(* Each step, from a state of OneOutstandingInv, maps to an IrqDelivery   *)
(* step or a stutter.                                                      *)
LEMMA StepRefines ==
  ASSUME NrIrqs < IrqMaxNr
  PROVE  OneOutstandingInv /\ [Next]_vars => [Delivery!ANext]_Delivery!avars
<1> SUFFICES ASSUME OneOutstandingInv, [Next]_vars
             PROVE  [Delivery!ANext]_Delivery!avars
  OBVIOUS
<1> DEFINE stutter == UNCHANGED <<pending, inService, cur, raised>>
<1>0. stutter => UNCHANGED Delivery!avars
  BY DEF Delivery!avars
<1>1. CASE PlicInit
  BY <1>0, <1>1 DEF PlicInit
<1>2. CASE \E i \in Ids, en \in {0, 1} : PlicIrqToggle(i, en)
  BY <1>0, <1>2 DEF PlicIrqToggle
<1>3. CASE \E i \in Ids : Raise(i)
  <2>1. PICK i \in Ids : Raise(i)
    BY <1>3
  <2>2. Delivery!ARaise(i)
    BY <2>1 DEF Raise, Delivery!ARaise
  <2>3. QED
    BY <2>1, <2>2 DEF Delivery!ANext, Delivery!Ids, Ids
<1>4. CASE PlicHandleIrq
  BY <1>0, <1>4 DEF PlicHandleIrq
<1>5. CASE ClaimIrq
  <2>1. PICK i \in Eligible(hartCtx) : IsBestClaim(hartCtx, i) /\ cur' = i
    BY <1>5 DEF ClaimIrq
  <2>2. i \in Ids /\ i \in pending
    BY <2>1 DEF Eligible, OneOutstandingInv, TypeOK
  <2>3. inService = {}
    BY <1>5 DEF ClaimIrq, OneOutstandingInv
  <2>4. inService' = {i} /\ pending' = pending \ {i}
    BY <1>5, <2>1, <2>3 DEF ClaimIrq
  <2>5. Delivery!AStart(i)
    BY <1>5, <2>2, <2>3, <2>4, <2>1 DEF ClaimIrq, Delivery!AStart, Delivery!None
  <2>6. QED
    BY <2>2, <2>5 DEF Delivery!ANext, Delivery!Ids, Ids
<1>6. CASE ClaimNone
  BY <1>0, <1>6 DEF ClaimNone
<1>7. CASE GenericHandleIrq
  <2>1. cur \in Ids /\ cur \in enable[hartCtx] /\ inService = {cur}
    BY <1>7 DEF GenericHandleIrq, OneOutstandingInv
  <2>2. cur \notin pending
    BY <2>1 DEF OneOutstandingInv
  <2>3. ~(cur >= IrqMaxNr) /\ cur # 0
    BY <2>1 DEF Ids
  <2>4. inService' = {}
    BY <1>7, <2>1, <2>3 DEF GenericHandleIrq, Completed
  <2>5. Delivery!AFinish
    BY <1>7, <2>1, <2>2, <2>3, <2>4 DEF GenericHandleIrq, Delivery!AFinish, Delivery!None
  <2>6. QED
    BY <2>5 DEF Delivery!ANext
<1>8. CASE UNCHANGED vars
  BY <1>0, <1>8 DEF vars
<1>9. QED
  BY <1>1, <1>2, <1>3, <1>4, <1>5, <1>6, <1>7, <1>8 DEF Next

(* When C908_PLIC_NR_EXT_IRQS < IRQ_MAX_NR, plic_handle_irq delivers       *)
(* interrupts as IrqDelivery says: one request handled at a time, each    *)
(* handling of a raised request, each plic_complete retiring it.           *)
THEOREM ImplementsDelivery ==
  ASSUME NrIrqs < IrqMaxNr
  PROVE  Spec => ImplementsIrqDelivery
<1>1. Init => OneOutstandingInv
  BY InitTypeOK DEF Init, OneOutstandingInv
<1>2. Spec => []OneOutstandingInv
  BY <1>1, OneOutstandingInductive, PTL DEF Spec
<1>3. QED
  BY <1>2, InitRefines, StepRefines, PTL DEF Spec, ImplementsIrqDelivery, Delivery!ASpec

=============================================================================
