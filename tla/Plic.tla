-------------------------------- MODULE Plic --------------------------------
(***************************************************************************)
(* The PLIC driver of the C908 core (libcpu/risc-v/t-head/c908/plic.c):   *)
(* plic_init, plic_enable_irq / plic_disable_irq and the dispatch loop     *)
(* plic_handle_irq -> generic_handle_irq -> plic_complete, run by the one  *)
(* hart the driver serves.  The PLIC hardware the driver programs (the     *)
(* gateways, the per-context enable bits and thresholds, the claim/        *)
(* complete register) is the environment: its actions are not code of     *)
(* the repository and follow the RISC-V PLIC specification.                *)
(***************************************************************************)
EXTENDS Naturals

CONSTANTS
  NrIrqs,        \* C908_PLIC_NR_EXT_IRQS: interrupt sources 1..NrIrqs
  IrqMaxNr,      \* IRQ_MAX_NR: the range generic_handle_irq accepts
  NrContext,     \* C908_NR_CONTEXT: PLIC contexts 0..NrContext-1
  Handlers,      \* IDs that have a handler installed in isr_table
  MaxThreshold,  \* the value 0xffffffff written as a threshold
  MaxRaises      \* bound on the requests each device raises

ASSUME PlicAssumption ==
  /\ NrIrqs \in Nat \ {0}
  /\ IrqMaxNr \in Nat \ {0}
  /\ NrContext \in Nat \ {0, 1}
  /\ Handlers \subseteq 1..NrIrqs
  /\ MaxThreshold \in Nat \ {0, 1}
  /\ MaxRaises \in Nat

Ids      == 1..NrIrqs
Contexts == 0..(NrContext - 1)
NoCtx    == NrContext          \* hart_base not yet set
SCtx     == 1                  \* the context wired to this hart's SEIP

VARIABLES
  plicRegs,   \* plic_regs # RT_NULL
  present,    \* plic_handlers[0].present
  hartCtx,    \* the context plic_handlers[0].hart_base/enable_base point to
  seie,       \* the SEIE bit of the sie CSR
  hpc,        \* where the hart is: "thread", or in plic_handle_irq
  cur,        \* the ID the dispatch loop has claimed
  priority,   \* PLIC priority registers (hardware)
  enable,     \* PLIC enable bits per context (hardware)
  threshold,  \* PLIC threshold per context (hardware)
  pending,    \* gateway requests waiting to be claimed (hardware)
  inService,  \* claimed and not yet completed (hardware)
  raised      \* requests each device has raised so far (bounded)

vars == <<plicRegs, present, hartCtx, seie, hpc, cur,
          priority, enable, threshold, pending, inService, raised>>

-----------------------------------------------------------------------------
(* PLIC hardware.                                                          *)

(* The sources a context may claim: pending, enabled for it, and with a   *)
(* priority above its threshold.                                           *)
Eligible(c) ==
  {i \in pending : i \in enable[c] /\ priority[i] > threshold[c]}

(* The claim register answers the eligible ID of highest priority, ties   *)
(* going to the lowest ID, and 0 when there is none: i is that ID.         *)
IsBestClaim(c, i) ==
  \A j \in Eligible(c) : priority[j] < priority[i]
                         \/ (priority[j] = priority[i] /\ i <= j)

(* A device raises its line; the gateway forwards a request only when the *)
(* source has none pending and none in service.  Each device raises at    *)
(* most MaxRaises requests.                                                *)
Raise(i) ==
  /\ i \notin pending \cup inService
  /\ raised[i] < MaxRaises
  /\ pending' = pending \cup {i}
  /\ raised' = [raised EXCEPT ![i] = @ + 1]
  /\ UNCHANGED <<plicRegs, present, hartCtx, seie, hpc, cur,
                 priority, enable, threshold, inService>>

(* Completing an ID ends its service only when it is enabled for the      *)
(* context; the PLIC silently ignores any other completion.                *)
Completed(c, i) ==
  IF i \in enable[c] THEN inService \ {i} ELSE inService

-----------------------------------------------------------------------------
(* Driver.                                                                 *)

Init ==
  /\ plicRegs = FALSE
  /\ present = FALSE
  /\ hartCtx = NoCtx
  /\ seie = FALSE
  /\ hpc = "thread"
  /\ cur = 0
  /\ priority \in [Ids -> {0, 1}]
  /\ enable \in [Contexts -> SUBSET Ids]
  /\ threshold \in [Contexts -> {0, MaxThreshold}]
  /\ pending = {}
  /\ inService = {}
  /\ raised = [i \in Ids |-> 0]

(* plic_init.  The loop skips context 0; the first later context marks    *)
(* the handler present, points it at that context, writes threshold 0 and *)
(* disables every ID; each further context finds the handler present and  *)
(* writes 0xffffffff through the same hart_base, then disables every ID   *)
(* again.  The last write wins.  Finally SEIE is set.                      *)
PlicInit ==
  /\ ~plicRegs
  /\ plicRegs' = TRUE
  /\ present' = TRUE
  /\ hartCtx' = 1
  /\ threshold' = [threshold EXCEPT ![1] =
                     IF NrContext - 1 = 1 THEN 0 ELSE MaxThreshold]
  /\ enable' = [enable EXCEPT ![1] = {}]
  /\ seie' = TRUE
  /\ UNCHANGED <<hpc, cur, priority, pending, inService, raised>>

(* plic_toggle: set or clear the ID's bit of an enable word by a read-    *)
(* modify-write.                                                           *)
PlicToggle(bits, i, en) == IF en = 1 THEN bits \cup {i} ELSE bits \ {i}

(* Seeded fault: plic_toggle addresses the bit of the next ID.            *)
PlicIrqToggleNextBit(i, en) ==
  /\ plicRegs
  /\ hpc = "thread"
  /\ priority' = [priority EXCEPT ![i] = en]
  /\ enable' = IF present
                 THEN [enable EXCEPT ![hartCtx] = PlicToggle(@, i + 1, en)]
                 ELSE enable
  /\ UNCHANGED <<plicRegs, present, hartCtx, seie, hpc, cur,
                 threshold, pending, inService, raised>>

(* plic_irq_toggle, called by plic_enable_irq (en = 1) and                *)
(* plic_disable_irq (en = 0) from thread context: the priority register   *)
(* of the ID gets en, then plic_toggle sets or clears its enable bit on    *)
(* the present handler's context.  The ID is not range-checked.            *)
PlicIrqToggle(i, en) ==
  /\ plicRegs
  /\ hpc = "thread"
  /\ priority' = [priority EXCEPT ![i] = en]
  /\ enable' = IF present
                 THEN [enable EXCEPT ![hartCtx] = PlicToggle(@, i, en)]
                 ELSE enable
  /\ UNCHANGED <<plicRegs, present, hartCtx, seie, hpc, cur,
                 threshold, pending, inService, raised>>

(* The hart takes the supervisor external interrupt when SEIE is set and  *)
(* its context has an eligible source; plic_handle_irq finds the driver    *)
(* initialised and clears SEIE.                                            *)
PlicHandleIrq ==
  /\ hpc = "thread"
  /\ seie
  /\ Eligible(SCtx) # {}
  /\ plicRegs /\ present
  /\ seie' = FALSE
  /\ hpc' = "loop"
  /\ UNCHANGED <<plicRegs, present, hartCtx, cur,
                 priority, enable, threshold, pending, inService, raised>>

(* The loop reads the claim register and gets an ID.                       *)
ClaimIrq ==
  /\ hpc = "loop"
  /\ \E i \in Eligible(hartCtx) : IsBestClaim(hartCtx, i) /\ cur' = i
  /\ pending' = pending \ {cur'}
  /\ inService' = inService \cup {cur'}
  /\ hpc' = "dispatch"
  /\ UNCHANGED <<plicRegs, present, hartCtx, seie, priority, enable, threshold, raised>>

(* Seeded fault: the loop ends without set_csr(sie, SIE_SEIE).            *)
ClaimNoneKeepMasked ==
  /\ hpc = "loop"
  /\ Eligible(hartCtx) = {}
  /\ hpc' = "thread"
  /\ UNCHANGED <<plicRegs, present, hartCtx, seie, cur,
                 priority, enable, threshold, pending, inService, raised>>

(* The claim register reads 0: the loop ends and SEIE is set again.        *)
ClaimNone ==
  /\ hpc = "loop"
  /\ Eligible(hartCtx) = {}
  /\ seie' = TRUE
  /\ hpc' = "thread"
  /\ UNCHANGED <<plicRegs, present, hartCtx, cur,
                 priority, enable, threshold, pending, inService, raised>>

(* Seeded fault: plic_complete only inside if (isr != RT_NULL).           *)
GenericHandleIrqCompleteIfHandler ==
  /\ hpc = "dispatch"
  /\ inService' = IF cur >= IrqMaxNr \/ cur \notin Handlers THEN inService
                   ELSE Completed(hartCtx, cur)
  /\ hpc' = "loop"
  /\ UNCHANGED <<plicRegs, present, hartCtx, seie, cur,
                 priority, enable, threshold, pending, raised>>

(* generic_handle_irq: an ID outside [0, IRQ_MAX_NR) is logged and left   *)
(* as it is; otherwise the isr_table handler, if any, runs and            *)
(* plic_complete writes the ID back to the claim register.                 *)
GenericHandleIrq ==
  /\ hpc = "dispatch"
  /\ inService' = IF cur >= IrqMaxNr THEN inService ELSE Completed(hartCtx, cur)
  /\ hpc' = "loop"
  /\ UNCHANGED <<plicRegs, present, hartCtx, seie, cur,
                 priority, enable, threshold, pending, raised>>

Next ==
  \/ PlicInit
  \/ \E i \in Ids, en \in {0, 1} : PlicIrqToggle(i, en)
  \/ \E i \in Ids : Raise(i)
  \/ PlicHandleIrq
  \/ ClaimIrq
  \/ ClaimNone
  \/ GenericHandleIrq

(* The hart takes a pending external interrupt and, once in the loop,     *)
(* runs it to its end: weak fairness on the trap and the loop's steps.     *)
Fairness ==
  /\ WF_vars(PlicHandleIrq)
  /\ WF_vars(ClaimIrq)
  /\ WF_vars(ClaimNone)
  /\ WF_vars(GenericHandleIrq)

Spec == Init /\ [][Next]_vars /\ Fairness

-----------------------------------------------------------------------------
(* Properties.                                                             *)

TypeOK ==
  /\ plicRegs \in BOOLEAN
  /\ present \in BOOLEAN
  /\ hartCtx \in Contexts \cup {NoCtx}
  /\ seie \in BOOLEAN
  /\ hpc \in {"thread", "loop", "dispatch"}
  /\ cur \in 0..NrIrqs
  /\ priority \in [Ids -> {0, 1}]
  /\ enable \in [Contexts -> SUBSET Ids]
  /\ threshold \in [Contexts -> {0, MaxThreshold}]
  /\ pending \subseteq Ids
  /\ inService \subseteq Ids
  /\ raised \in [Ids -> 0..MaxRaises]

(* Claim/complete discipline of plic_handle_irq: at most one ID is        *)
(* claimed and not completed, it is the one being dispatched, and none is *)
(* left in service once the hart is back in thread context or about to    *)
(* claim again.  An ID left in service is never delivered again.           *)
OneOutstanding ==
  /\ hpc = "dispatch" => inService \subseteq {cur}
  /\ hpc # "dispatch" => inService = {}

(* Inductive strengthening of OneOutstanding: the hart leaves thread      *)
(* context only after plic_init, and the ID being dispatched is the one   *)
(* in service and is enabled for the hart's context, so plic_complete is  *)
(* honoured by the PLIC; a source in service has no request pending.       *)
OneOutstandingInv ==
  /\ TypeOK
  /\ pending \cap inService = {}
  /\ hpc # "thread" => plicRegs
  /\ hpc = "dispatch" => inService = {cur} /\ cur \in Ids /\ cur \in enable[hartCtx]
  /\ hpc # "dispatch" => inService = {}

(* Every request of a source stays pending only while the source is       *)
(* disabled: once the driver has enabled an ID, a raised request is       *)
(* eventually claimed by the dispatch loop, unless the ID is disabled.     *)
IsEnabled(i) == present /\ i \in enable[hartCtx] /\ priority[i] = 1

EventuallyClaimed ==
  \A i \in Ids : (i \in pending /\ IsEnabled(i)) ~> (i \notin pending \/ ~IsEnabled(i))

-----------------------------------------------------------------------------
(* Refinement: the driver and the PLIC implement IrqDelivery.  A request  *)
(* is outstanding while it is pending or in service, and the request being *)
(* handled is the ID the loop has claimed while it is in service.          *)
Delivery == INSTANCE IrqDelivery WITH
  req    <- pending \cup inService,
  active <- IF inService = {} THEN 0 ELSE cur

(* plic_handle_irq hands each raised request to one generic_handle_irq    *)
(* call at a time, and the plic_complete of that call retires it: every   *)
(* behaviour of the driver is one of IrqDelivery.                          *)
ImplementsIrqDelivery == Delivery!ASpec

=============================================================================
