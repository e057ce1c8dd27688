------------------------------- MODULE HwTimer ------------------------------
(***************************************************************************)
(* Signal delivery of the K230 hardware timer driver                       *)
(* (bsp/k230/drivers/interdrv/hwtimer/drv_timer.c) for one timer channel:  *)
(* a user process arms the timer and asks for a signal on expiry           *)
(* (kd_timer_ctrl, HWTIMER_CTRL_IRQ_SET); kd_hwtimer_isr, through the      *)
(* hwtimer framework, calls timer_timeout_ind, which initialises and       *)
(* submits the channel's one static rt_work; the system workqueue thread   *)
(* later runs send_sig_work, which reads the channel's lwp, signo and      *)
(* sigval and sends the signal.                                            *)
(*                                                                         *)
(* The workqueue and the rt_list operations it uses are the environment;   *)
(* their pointer updates are modelled one write at a time, as rtservice.h  *)
(* and the RT-Thread 5 workqueue perform them, because rt_work_init on a   *)
(* work still on the queue is exactly what aliasing makes go wrong.  The   *)
(* workqueue holds this work only; other works on the system queue do not  *)
(* change how its pointers are updated.                                    *)
(*                                                                         *)
(* The device's life cycle is modelled too: the framework's open           *)
(* (rt_hwtimer_init) sets timer->freq and calls kd_timer_init(timer, 1),   *)
(* which programs the channel's clock divider; FREQ_SET, for a frequency   *)
(* the framework accepts, calls kd_timer_ctrl, which stores it and         *)
(* programs the divider again; close calls kd_timer_init(timer, 0).  The   *)
(* divider is a register: it keeps its value across close and open.        *)
(***************************************************************************)
EXTENDS Naturals

CONSTANTS
  Signos,    \* signal numbers a process may ask for
  Sigvals,   \* sigval values it may pass
  Modes,     \* timer modes the process uses: "oneshot", "period"
  MaxFires,  \* bound on the expiries of the counter
  Freqs,     \* frequencies (Hz) the process passes to FREQ_SET
  NULL       \* a pointer or value that is zero

ASSUME HwTimerAssumption ==
  /\ Modes \subseteq {"oneshot", "period"} /\ Modes # {}
  /\ MaxFires \in Nat \ {0}
  /\ NULL \notin Signos \cup Sigvals
  /\ Freqs \subseteq Nat

Q == "work_list"         \* the workqueue's list head
W == "send_sig_work"     \* kd_timer->send_sig_work.list
Nodes == {Q, W}

MHz == 1000000
MaxFreq == 100 * MHz     \* _info.maxfreq
MinFreq == 12500000      \* _info.minfreq
SrcRate == 100 * MHz     \* the timer source clock: a divider of 1 gives maxfreq
LeafDivs == {1, 2, 4, 8} \* the dividers the driver programs

VARIABLES
  rxInd,     \* timer->parent.rx_indicate = timer_timeout_ind
  kdSigno,   \* kd_timer->signo
  kdSigval,  \* kd_timer->sigval
  running,   \* the channel's TIMER_CR_ENABLE
  tmode,     \* the mode the framework started the timer in
  irqLine,   \* the channel's interrupt is asserted (cleared by reading eoi)
  expired,   \* expiries of the counter so far (bounded)
  nxt, prv,  \* rt_list_t next / prev of the list head and of the work
  wpending,  \* RT_WORK_STATE_PENDING in send_sig_work.flags
  wpc,       \* the workqueue thread: "idle", or "run" with the work taken
  fired,     \* history: calls of timer_timeout_ind
  delivered, \* history: calls of lwp_signal_kill
  lastSig,   \* history: the signo and sigval of the last signal sent
  activated, \* RT_DEVICE_FLAG_ACTIVATED: the device is open
  freq,      \* timer->freq, the rate the framework computes counts with
  clkDiv     \* the divider of SYSCTL_CLK_TIMER_x_SRC: the counter runs at
             \* SrcRate \div clkDiv

vars == <<rxInd, kdSigno, kdSigval, running, tmode, irqLine, expired,
          nxt, prv, wpending, wpc, fired, delivered, lastSig,
          activated, freq, clkDiv>>

clkVars == <<activated, freq, clkDiv>>

-----------------------------------------------------------------------------
(* rtservice.h list operations on a pair of pointer functions.             *)

(* rt_list_init(n): n->next = n->prev = n.                                 *)
ListInit(N, P, n) == <<[N EXCEPT ![n] = n], [P EXCEPT ![n] = n]>>

(* rt_list_remove(n): n->next->prev = n->prev; n->prev->next = n->next;    *)
(* n->next = n->prev = n.                                                  *)
ListRemove(N, P, n) ==
  LET P1 == [P EXCEPT ![N[n]] = P[n]]
      N1 == [N EXCEPT ![P1[n]] = N[n]]
  IN  <<[N1 EXCEPT ![n] = n], [P1 EXCEPT ![n] = n]>>

(* rt_list_insert_after(l, n): l->next->prev = n; n->next = l->next;       *)
(* l->next = n; n->prev = l.                                               *)
ListInsertAfter(N, P, l, n) ==
  LET P1 == [P EXCEPT ![N[l]] = n]
      N1 == [N EXCEPT ![n] = N[l]]
  IN  <<[N1 EXCEPT ![l] = n], [P1 EXCEPT ![n] = l]>>

(* rt_work_submit(work, 0): under the queue's lock, take the work off any *)
(* list, clear its flags, append it and mark it pending.                   *)
WorkSubmit(N, P) ==
  LET R == ListRemove(N, P, W)
  IN  ListInsertAfter(R[1], R[2], R[2][Q], W)

(* The divider kd_timer_init and kd_timer_ctrl program for timer->freq f: *)
(* four frequencies have one; for any other the divider d is left.         *)
KdClkDiv(f, d) ==
  CASE f = MinFreq  -> 8
    [] f = MaxFreq  -> 1
    [] f = 50 * MHz -> 2
    [] f = 25 * MHz -> 4
    [] OTHER        -> d

-----------------------------------------------------------------------------
(* The statics are zero: the work's pointers are NULL, the list is empty. *)
Init ==
  /\ rxInd = FALSE
  /\ kdSigno = 0
  /\ kdSigval = NULL
  /\ running = FALSE
  /\ tmode \in Modes
  /\ irqLine = FALSE
  /\ expired = 0
  /\ nxt = [n \in Nodes |-> IF n = Q THEN Q ELSE NULL]
  /\ prv = [n \in Nodes |-> IF n = Q THEN Q ELSE NULL]
  /\ wpending = FALSE
  /\ wpc = "idle"
  /\ fired = 0
  /\ delivered = 0
  /\ lastSig = NULL
  /\ activated = FALSE
  /\ freq = 0
  /\ clkDiv \in LeafDivs   \* the divider's value before the first open

(* Seeded fault: IRQ_SET stores the sigval in the signo field.             *)
IrqSetSwapped(s, v) ==
  /\ activated
  /\ kdSigno' = v
  /\ kdSigval' = s
  /\ rxInd' = TRUE
  /\ UNCHANGED <<running, tmode, irqLine, expired, nxt, prv, wpending, wpc,
                 fired, delivered, lastSig>>
  /\ UNCHANGED clkVars

(* kd_timer_ctrl(HWTIMER_CTRL_IRQ_SET) with cfg.enable, interrupts        *)
(* disabled: record lwp_self(), signo and sigval and install               *)
(* timer_timeout_ind as rx_indicate.                                       *)
IrqSet(s, v) ==
  /\ activated
  /\ kdSigno' = s
  /\ kdSigval' = v
  /\ rxInd' = TRUE
  /\ UNCHANGED <<running, tmode, irqLine, expired, nxt, prv, wpending, wpc,
                 fired, delivered, lastSig>>
  /\ UNCHANGED clkVars

(* ... without cfg.enable: rx_indicate = NULL; the fields are left.        *)
IrqClear ==
  /\ activated
  /\ rxInd' = FALSE
  /\ UNCHANGED <<kdSigno, kdSigval, running, tmode, irqLine, expired, nxt,
                 prv, wpending, wpc, fired, delivered, lastSig>>
  /\ UNCHANGED clkVars

(* kd_timer_start from the framework's write: load the count, unmask and   *)
(* enable.  A process that uses one-shot mode re-arms the timer only once *)
(* it has received the signal of the last expiry.                          *)
KdTimerStart(m) ==
  /\ activated
  /\ ~running
  /\ m = "oneshot" => delivered = fired
  /\ running' = TRUE
  /\ tmode' = m
  /\ UNCHANGED <<rxInd, kdSigno, kdSigval, irqLine, expired, nxt, prv,
                 wpending, wpc, fired, delivered, lastSig>>
  /\ UNCHANGED clkVars

(* kd_timer_stop: clear TIMER_CR_ENABLE and mask the interrupt.            *)
KdTimerStop ==
  /\ activated
  /\ running
  /\ running' = FALSE
  /\ UNCHANGED <<rxInd, kdSigno, kdSigval, tmode, irqLine, expired, nxt,
                 prv, wpending, wpc, fired, delivered, lastSig>>
  /\ UNCHANGED clkVars

(* The counter reaches zero and raises the channel's interrupt.            *)
Expire ==
  /\ running
  /\ expired < MaxFires
  /\ expired' = expired + 1
  /\ irqLine' = TRUE
  /\ UNCHANGED <<rxInd, kdSigno, kdSigval, running, tmode, nxt, prv,
                 wpending, wpc, fired, delivered, lastSig>>
  /\ UNCHANGED clkVars

(* timer_timeout_ind: rt_work_init(&send_sig_work, ...) then              *)
(* rt_work_submit(&send_sig_work, 0).                                      *)
TimerTimeoutInd ==
  LET I == ListInit(nxt, prv, W)
      S == WorkSubmit(I[1], I[2])
  IN  /\ nxt' = S[1]
      /\ prv' = S[2]
      /\ wpending' = TRUE
      /\ fired' = fired + 1

(* Seeded fault: the unused read of eoi is dropped; the interrupt stays  *)
(* asserted.                                                               *)
KdHwtimerIsrNoEoi ==
  /\ irqLine
  /\ running' = (running /\ tmode = "period")
  /\ IF rxInd
       THEN TimerTimeoutInd
       ELSE UNCHANGED <<nxt, prv, wpending, fired>>
  /\ UNCHANGED <<rxInd, kdSigno, kdSigval, tmode, irqLine, expired, wpc,
                 delivered, lastSig>>
  /\ UNCHANGED clkVars

(* kd_hwtimer_isr: read eoi, which clears the interrupt, then             *)
(* rt_device_hwtimer_isr, which stops a one-shot timer and calls           *)
(* rx_indicate when one is installed.                                      *)
KdHwtimerIsr ==
  /\ irqLine
  /\ irqLine' = FALSE
  /\ running' = (running /\ tmode = "period")
  /\ IF rxInd
       THEN TimerTimeoutInd
       ELSE UNCHANGED <<nxt, prv, wpending, fired>>
  /\ UNCHANGED <<rxInd, kdSigno, kdSigval, tmode, expired, wpc, delivered,
                 lastSig>>
  /\ UNCHANGED clkVars

(* The workqueue thread takes the first work off the list, under the      *)
(* queue's lock, and clears its flags.                                     *)
WorkerTake ==
  /\ wpc = "idle"
  /\ nxt[Q] # Q
  /\ delivered < MaxFires
  /\ LET R == ListRemove(nxt, prv, nxt[Q]) IN
       /\ nxt' = R[1]
       /\ prv' = R[2]
  /\ wpending' = FALSE
  /\ wpc' = "run"
  /\ UNCHANGED <<rxInd, kdSigno, kdSigval, running, tmode, irqLine, expired,
                 fired, delivered, lastSig>>
  /\ UNCHANGED clkVars

(* Seeded fault: send_sig_work returns when rt_malloc fails.             *)
SendSigWorkDropOnNoMem ==
  /\ wpc = "run"
  /\ \E ext \in BOOLEAN :
       /\ lastSig' = IF ext THEN [signo |-> kdSigno, sigval |-> kdSigval]
                     ELSE lastSig
       /\ delivered' = IF ext THEN delivered + 1 ELSE delivered
  /\ wpc' = "idle"
  /\ UNCHANGED <<rxInd, kdSigno, kdSigval, running, tmode, irqLine, expired,
                 nxt, prv, wpending, fired>>
  /\ UNCHANGED clkVars

(* send_sig_work: rt_malloc the siginfo extension (its sigval is lost if  *)
(* that fails) and lwp_signal_kill with the channel's current signo.       *)
SendSigWork ==
  /\ wpc = "run"
  /\ \E ext \in BOOLEAN :
       lastSig' = [signo |-> kdSigno, sigval |-> IF ext THEN kdSigval ELSE NULL]
  /\ delivered' = delivered + 1
  /\ wpc' = "idle"
  /\ UNCHANGED <<rxInd, kdSigno, kdSigval, running, tmode, irqLine, expired,
                 nxt, prv, wpending, fired>>
  /\ UNCHANGED clkVars

(* rt_device_open of the closed device: rt_hwtimer_init sets timer->freq  *)
(* to minfreq (1 MHz is below it) and calls kd_timer_init(timer, 1),       *)
(* which selects the clock's parent and programs the divider for it.       *)
HwtimerOpen ==
  /\ ~activated
  /\ activated' = TRUE
  /\ freq' = MinFreq
  /\ clkDiv' = KdClkDiv(MinFreq, clkDiv)
  /\ UNCHANGED <<rxInd, kdSigno, kdSigval, running, tmode, irqLine, expired,
                 nxt, prv, wpending, wpc, fired, delivered, lastSig>>

(* rt_device_close of the last opener: kd_timer_init(timer, 0), which     *)
(* stops the counter, then the framework clears the flag and rx_indicate.  *)
HwtimerClose ==
  /\ activated
  /\ activated' = FALSE
  /\ running' = FALSE
  /\ rxInd' = FALSE
  /\ UNCHANGED <<kdSigno, kdSigval, tmode, irqLine, expired, nxt, prv,
                 wpending, wpc, fired, delivered, lastSig, freq, clkDiv>>

(* HWTIMER_CTRL_FREQ_SET with a frequency between minfreq and maxfreq     *)
(* (the framework refuses any other): kd_timer_ctrl stores it in           *)
(* timer->freq and programs the divider for it.                            *)
FreqSet(f) ==
  /\ activated
  /\ MinFreq <= f /\ f <= MaxFreq
  /\ freq' = f
  /\ clkDiv' = KdClkDiv(f, clkDiv)
  /\ UNCHANGED <<rxInd, kdSigno, kdSigval, running, tmode, irqLine, expired,
                 nxt, prv, wpending, wpc, fired, delivered, lastSig, activated>>

Next ==
  \/ HwtimerOpen
  \/ HwtimerClose
  \/ \E f \in Freqs : FreqSet(f)
  \/ \E s \in Signos, v \in Sigvals : IrqSet(s, v)
  \/ IrqClear
  \/ \E m \in Modes : KdTimerStart(m)
  \/ KdTimerStop
  \/ Expire
  \/ KdHwtimerIsr
  \/ WorkerTake
  \/ SendSigWork

(* An asserted interrupt is taken, and the workqueue thread gets the CPU. *)
Fairness ==
  /\ WF_vars(KdHwtimerIsr)
  /\ WF_vars(WorkerTake)
  /\ WF_vars(SendSigWork)

Spec == Init /\ [][Next]_vars /\ Fairness

-----------------------------------------------------------------------------
(* Properties.                                                             *)

TypeOK ==
  /\ rxInd \in BOOLEAN
  /\ kdSigno \in Signos \cup {0}
  /\ kdSigval \in Sigvals \cup {NULL}
  /\ running \in BOOLEAN
  /\ tmode \in Modes
  /\ irqLine \in BOOLEAN
  /\ expired \in 0..MaxFires
  /\ nxt \in [Nodes -> Nodes \cup {NULL}]
  /\ prv \in [Nodes -> Nodes \cup {NULL}]
  /\ wpending \in BOOLEAN
  /\ wpc \in {"idle", "run"}
  /\ fired \in 0..MaxFires
  /\ delivered \in 0..MaxFires
  /\ lastSig \in {NULL} \cup [signo : Signos \cup {0}, sigval : Sigvals \cup {NULL}]
  /\ activated \in BOOLEAN
  /\ freq \in Freqs \cup {0, MinFreq}
  /\ clkDiv \in LeafDivs

(* While the device is open, the counter runs at timer->freq: the rate    *)
(* the framework converts timeouts to counts with is the rate the divider *)
(* kd_timer_init or kd_timer_ctrl last programmed gives, through any       *)
(* sequence of FREQ_SET, close and reopen.                                 *)
ClockMatchesFreq ==
  activated => SrcRate \div clkDiv = freq

(* The workqueue's list stays a well-formed ring through every            *)
(* timer_timeout_ind: it is empty or holds the work, linked both ways,    *)
(* and the work is on it exactly when it is marked pending.                *)
WorkListWellFormed ==
  /\ \/ nxt[Q] = Q /\ prv[Q] = Q
     \/ nxt[Q] = W /\ prv[Q] = W /\ nxt[W] = Q /\ prv[W] = Q
  /\ wpending <=> nxt[Q] = W

(* Every call of timer_timeout_ind is followed by a signal of its own: the *)
(* process gets one signal per expiry it asked to be told of.              *)
EveryFireSignalled ==
  \A k \in 1..MaxFires : (fired >= k) ~> (delivered >= k)

=============================================================================
