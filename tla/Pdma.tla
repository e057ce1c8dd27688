-------------------------------- MODULE Pdma --------------------------------
(***************************************************************************)
(* The K230 PDMA driver (bsp/k230/drivers/interdrv/pdma/drv_pdma.c).       *)
(* Client threads, one per channel, run k_pdma_config step by step         *)
(* (stop, drain, hardlock-protected enable, status clear, descriptor chain *)
(* allocation, base address write), then start, stop and free; the PDMA    *)
(* interrupt handler calls k_pdma_int_clear_all or k_pdma_int_clear.  The  *)
(* DMA engine, the page allocator and the hardware lock are the           *)
(* environment.                                                            *)
(***************************************************************************)
EXTENDS Integers, Sequences

CONSTANTS
  Channels,       \* the channels used, a subset of 0..PDMA_CH_MAX-1
  Events,         \* the status/interrupt events modelled ("done", ...)
  Lengths,        \* transfer lengths (line_size) the clients request
  MaxLine,        \* PDMA_MAX_LINE_SIZE
  NBlocks,        \* page blocks the allocator can hand out
  PvOffset,       \* PV_OFFSET: physical = virtual + PvOffset
  HardlockOk,     \* kd_request_lock(HARDLOCK_PDMA) succeeded at init
  CarefulClient   \* clients reconfigure only once the last chain is freed

ASSUME PdmaAssumption ==
  /\ Channels \subseteq 0..7
  /\ Channels # {}
  /\ "done" \in Events
  /\ Lengths \subseteq Nat \ {0}
  /\ MaxLine \in Nat \ {0}
  /\ NBlocks \in Nat
  /\ PvOffset \in Nat
  /\ HardlockOk \in BOOLEAN
  /\ CarefulClient \in BOOLEAN

Clients == Channels          \* the client thread that drives channel c is c
Blocks  == 1..NBlocks        \* virtual addresses of the blocks
NoOne   == -1                \* the hardware lock is free

VARIABLES
  chEn,        \* pdma_ch_en: the enabled channels
  intStat,     \* dma_int_stat: pending <<event, channel>> bits (W1C)
  busy,        \* ch_status bit 0 per channel (DMA engine)
  stopping,    \* a stop written to ch_ctl not yet taken by the engine
  saddr,       \* ch_llt_saddr per channel
  pageSize,    \* g_pdma_page_size
  allocPage,   \* g_pdma_alloc_page
  heap,        \* page allocator: size of each allocated block, 0 if free
  badFree,     \* rt_pages_free was given an address or size it never handed out
  nullWrite,   \* pdma_llt_cal wrote descriptors through a NULL block
  lock,        \* holder of the PDMA hardware lock
  pc,          \* per client: where it is in k_pdma_config
  rmw,         \* per client: the pdma_ch_en value it read
  llt,         \* per client: the chain address pdma_llt_cal returned
  req,         \* per client: the line_size of the configuration
  armed,       \* per client: configured and not yet started
  fptr         \* per client: the llt_list k_pdma_llt_free read

vars == <<chEn, intStat, busy, stopping, saddr, pageSize, allocPage, heap,
          badFree, nullWrite, lock, pc, rmw, llt, req, armed, fptr>>

-----------------------------------------------------------------------------
(* Descriptor chain (pdma_llt_cal).                                        *)

(* list_num = (line_size - 1) / PDMA_MAX_LINE_SIZE + 1                     *)
NodeCount(L) == (L - 1) \div MaxLine + 1

(* Seeded fault: every node, the last included, gets the full line size.  *)
LltCalFullLast(src, dst, L) ==
  LET n == NodeCount(L) IN
  [i \in 1..n |->
     [src_addr  |-> src + MaxLine * (i - 1),
      dst_addr  |-> dst + MaxLine * (i - 1),
      line_size |-> MaxLine,
      next_llt  |-> IF i = n THEN 0 ELSE i + 1,
      pause     |-> 0]]

(* The chain as a sequence of nodes; next_llt_addr is the index of the    *)
(* next node, 0 for the last one.                                          *)
LltCal(src, dst, L) ==
  LET n == NodeCount(L) IN
  [i \in 1..n |->
     [src_addr  |-> src + MaxLine * (i - 1),
      dst_addr  |-> dst + MaxLine * (i - 1),
      line_size |-> IF i = n THEN L % MaxLine ELSE MaxLine,
      next_llt  |-> IF i = n THEN 0 ELSE i + 1,
      pause     |-> 0]]

(* Reference: a chain moves [src, src + L) to [dst, dst + L) in order,    *)
(* each node moving 1..MaxLine bytes right after the previous one.         *)
ChainCovers(chain, src, dst, L) ==
  LET n == Len(chain)
      end(i) == chain[i].src_addr + chain[i].line_size
  IN /\ n >= 1
     /\ chain[1].src_addr = src /\ chain[1].dst_addr = dst
     /\ \A i \in 1..n : /\ chain[i].line_size \in 1..MaxLine
                        /\ chain[i].dst_addr - dst = chain[i].src_addr - src
                        /\ chain[i].next_llt = IF i = n THEN 0 ELSE i + 1
     /\ \A i \in 1..(n - 1) : chain[i + 1].src_addr = end(i)
     /\ end(n) = src + L

-----------------------------------------------------------------------------
(* Page allocator and chain release.                                       *)

(* rt_pages_free(saddr, size) of channel c returns exactly the block it   *)
(* was given by rt_pages_alloc.                                            *)
ProperFree(c) == saddr[c] \in Blocks /\ heap[saddr[c]] = pageSize[c]

(* Seeded fault: the flag is cleared but the pages are not returned (the  *)
(* commented-out rt_free path).                                            *)
LltFreeFlagOnly(S) ==
  /\ UNCHANGED <<heap, badFree>>
  /\ allocPage' = [c \in Channels |-> IF c \in S THEN FALSE ELSE allocPage[c]]

(* k_pdma_llt_free for every channel of S at once: the chain at           *)
(* ch_llt_saddr is freed with g_pdma_page_size when g_pdma_alloc_page is   *)
(* set, and the flag is cleared.                                           *)
LltFree(S) ==
  LET owed == {c \in S : allocPage[c]} IN
  /\ heap' = [b \in Blocks |-> IF \E c \in owed : saddr[c] = b THEN 0 ELSE heap[b]]
  /\ badFree' = (badFree \/ \E c \in owed : \/ ~ProperFree(c)
                                            \/ \E d \in owed \ {c} : saddr[d] = saddr[c])
  /\ allocPage' = [c \in Channels |-> IF c \in owed THEN FALSE ELSE allocPage[c]]

(* k_pdma_int_clear(ch, clear): write-1-to-clear the channel's bits of    *)
(* clear; free the chain when clear is exactly PDONE_INT.                  *)
KPdmaIntClear(ch, clear) ==
  /\ intStat' = intStat \ (clear \X {ch})
  /\ IF clear = {"done"}
       THEN LltFree({ch})
       ELSE UNCHANGED <<heap, badFree, allocPage>>

-----------------------------------------------------------------------------
(* Client threads: k_pdma_config, one step per shared access.              *)

Init ==
  /\ chEn = {}
  /\ intStat = {}
  /\ busy = [c \in Channels |-> FALSE]
  /\ stopping = [c \in Channels |-> FALSE]
  /\ saddr = [c \in Channels |-> 0]
  /\ pageSize = [c \in Channels |-> 0]
  /\ allocPage = [c \in Channels |-> FALSE]
  /\ heap = [b \in Blocks |-> 0]
  /\ badFree = FALSE
  /\ nullWrite = FALSE
  /\ lock = NoOne
  /\ pc = [t \in Clients |-> "idle"]
  /\ rmw = [t \in Clients |-> {}]
  /\ llt = [t \in Clients |-> 0]
  /\ req = [t \in Clients |-> 0]
  /\ armed = [t \in Clients |-> FALSE]
  /\ fptr = [t \in Clients |-> 0]

(* Seeded fault: k_pdma_config does not call k_pdma_stop first.           *)
ConfigNoStop(t, L) ==
  /\ pc[t] = "idle"
  /\ CarefulClient => ~allocPage[t]
  /\ req' = [req EXCEPT ![t] = L]
  /\ armed' = [armed EXCEPT ![t] = FALSE]
  /\ pc' = [pc EXCEPT ![t] = "drain"]
  /\ UNCHANGED <<chEn, intStat, busy, stopping, saddr, pageSize, allocPage,
                 heap, badFree, nullWrite, lock, rmw, llt, fptr>>

(* k_pdma_config entry and k_pdma_stop(ch): ch_ctl = 0x2.                  *)
ConfigStop(t, L) ==
  /\ pc[t] = "idle"
  /\ CarefulClient => ~allocPage[t]
  /\ stopping' = [stopping EXCEPT ![t] = busy[t]]
  /\ req' = [req EXCEPT ![t] = L]
  /\ armed' = [armed EXCEPT ![t] = FALSE]
  /\ pc' = [pc EXCEPT ![t] = "drain"]
  /\ UNCHANGED <<chEn, intStat, busy, saddr, pageSize, allocPage, heap,
                 badFree, nullWrite, lock, rmw, llt, fptr>>

(* Seeded fault: k_pdma_config does not wait for the channel to stop.     *)
ConfigDrainNoWait(t) ==
  /\ pc[t] = "drain"
  /\ pc' = [pc EXCEPT ![t] = "lock"]
  /\ UNCHANGED <<chEn, intStat, busy, stopping, saddr, pageSize, allocPage,
                 heap, badFree, nullWrite, lock, rmw, llt, req, armed, fptr>>

(* while (ch_status & 0x1) ;                                               *)
ConfigDrain(t) ==
  /\ pc[t] = "drain"
  /\ ~busy[t]
  /\ pc' = [pc EXCEPT ![t] = "lock"]
  /\ UNCHANGED <<chEn, intStat, busy, stopping, saddr, pageSize, allocPage,
                 heap, badFree, nullWrite, lock, rmw, llt, req, armed, fptr>>

(* Seeded fault: pdma_ch_enable does not take the hardware lock.          *)
EnLockSkipped(t) ==
  /\ pc[t] = "lock"
  /\ pc' = [pc EXCEPT ![t] = "read"]
  /\ UNCHANGED <<chEn, intStat, busy, stopping, saddr, pageSize, allocPage,
                 heap, badFree, nullWrite, lock, rmw, llt, req, armed, fptr>>

(* pdma_ch_enable: while (kd_hardlock_lock(pdma_hardlock)) ;  Without the *)
(* lock (pdma_hardlock = -1) the driver runs unprotected.                  *)
EnLock(t) ==
  /\ pc[t] = "lock"
  /\ HardlockOk => lock = NoOne
  /\ lock' = IF HardlockOk THEN t ELSE lock
  /\ pc' = [pc EXCEPT ![t] = "read"]
  /\ UNCHANGED <<chEn, intStat, busy, stopping, saddr, pageSize, allocPage,
                 heap, badFree, nullWrite, rmw, llt, req, armed, fptr>>

(* pdma_ch_en |= (1 << ch): the read ...                                   *)
EnRead(t) ==
  /\ pc[t] = "read"
  /\ rmw' = [rmw EXCEPT ![t] = chEn]
  /\ pc' = [pc EXCEPT ![t] = "write"]
  /\ UNCHANGED <<chEn, intStat, busy, stopping, saddr, pageSize, allocPage,
                 heap, badFree, nullWrite, lock, llt, req, armed, fptr>>

(* Seeded fault: the enable writes 1 << (ch + 1).                          *)
EnWriteShifted(t) ==
  /\ pc[t] = "write"
  /\ chEn' = rmw[t] \cup {t + 1}
  /\ lock' = IF HardlockOk THEN NoOne ELSE lock
  /\ pc' = [pc EXCEPT ![t] = "clear"]
  /\ UNCHANGED <<intStat, busy, stopping, saddr, pageSize, allocPage,
                 heap, badFree, nullWrite, rmw, llt, req, armed, fptr>>

(* ... the write, and kd_hardlock_unlock.                                  *)
EnWrite(t) ==
  /\ pc[t] = "write"
  /\ chEn' = rmw[t] \cup {t}
  /\ lock' = IF HardlockOk THEN NoOne ELSE lock
  /\ pc' = [pc EXCEPT ![t] = "clear"]
  /\ UNCHANGED <<intStat, busy, stopping, saddr, pageSize, allocPage,
                 heap, badFree, nullWrite, rmw, llt, req, armed, fptr>>

(* k_pdma_int_clear(ch, PDONE_INT | PITEM_INT | PPAUSE_INT | PTOUT_INT),  *)
(* then the ch_cfg and ch_peri_dev_sel writes.                             *)
ConfigClear(t) ==
  /\ pc[t] = "clear"
  /\ KPdmaIntClear(t, Events)
  /\ pc' = [pc EXCEPT ![t] = "cal"]
  /\ UNCHANGED <<chEn, busy, stopping, saddr, pageSize, nullWrite, lock,
                 rmw, llt, req, armed, fptr>>

(* pdma_llt_cal: record the page order and set g_pdma_alloc_page, then    *)
(* rt_pages_alloc; the nodes are written into the block (through NULL if  *)
(* the allocation failed, which faults) and the physical address returned. *)
LltCalStep(t) ==
  /\ pc[t] = "cal"
  /\ pageSize' = [pageSize EXCEPT ![t] = NodeCount(req[t])]
  /\ allocPage' = [allocPage EXCEPT ![t] = TRUE]
  /\ IF \E b \in Blocks : heap[b] = 0
       THEN LET b == CHOOSE b \in Blocks : heap[b] = 0 IN
            /\ heap' = [heap EXCEPT ![b] = NodeCount(req[t])]
            /\ llt' = [llt EXCEPT ![t] = b + PvOffset]
            /\ pc' = [pc EXCEPT ![t] = "saddr"]
            /\ UNCHANGED nullWrite
       ELSE /\ nullWrite' = TRUE
            /\ pc' = [pc EXCEPT ![t] = "fault"]
            /\ UNCHANGED <<heap, llt>>
  /\ UNCHANGED <<chEn, intStat, busy, stopping, saddr, badFree, lock,
                 rmw, req, armed, fptr>>

(* ch_llt_saddr = pdma_llt_cal(...); k_pdma_config returns 0.              *)
ConfigSaddr(t) ==
  /\ pc[t] = "saddr"
  /\ saddr' = [saddr EXCEPT ![t] = llt[t]]
  /\ armed' = [armed EXCEPT ![t] = TRUE]
  /\ pc' = [pc EXCEPT ![t] = "idle"]
  /\ UNCHANGED <<chEn, intStat, busy, stopping, pageSize, allocPage, heap,
                 badFree, nullWrite, lock, rmw, llt, req, fptr>>

(* k_pdma_start: ch_ctl = 0x1; the engine runs an enabled channel.         *)
KPdmaStart(t) ==
  /\ pc[t] = "idle"
  /\ armed[t]
  /\ busy' = [busy EXCEPT ![t] = t \in chEn]
  /\ armed' = [armed EXCEPT ![t] = FALSE]
  /\ UNCHANGED <<chEn, intStat, stopping, saddr, pageSize, allocPage, heap,
                 badFree, nullWrite, lock, pc, rmw, llt, req, fptr>>

(* k_pdma_stop outside a configuration.                                    *)
KPdmaStop(t) ==
  /\ pc[t] = "idle"
  /\ busy[t]
  /\ stopping' = [stopping EXCEPT ![t] = TRUE]
  /\ UNCHANGED <<chEn, intStat, busy, saddr, pageSize, allocPage, heap,
                 badFree, nullWrite, lock, pc, rmw, llt, req, armed, fptr>>

(* k_pdma_llt_free called by the client once its transfer is over (it was *)
(* started and jamlnik_pdma_is_busy is false), one step per shared access, *)
(* with neither a lock nor the interrupt masked between them.  First       *)
(* llt_list = ch_llt_saddr ...                                             *)
FreeRead(t) ==
  /\ pc[t] = "idle"
  /\ ~armed[t]
  /\ ~busy[t]
  /\ fptr' = [fptr EXCEPT ![t] = saddr[t]]
  /\ pc' = [pc EXCEPT ![t] = "fread"]
  /\ UNCHANGED <<chEn, intStat, busy, stopping, saddr, pageSize, allocPage,
                 heap, badFree, nullWrite, lock, rmw, llt, req, armed>>

(* ... if (g_pdma_alloc_page[ch]) ...                                      *)
FreeTest(t) ==
  /\ pc[t] = "fread"
  /\ pc' = [pc EXCEPT ![t] = IF allocPage[t] THEN "ffree" ELSE "idle"]
  /\ UNCHANGED <<chEn, intStat, busy, stopping, saddr, pageSize, allocPage,
                 heap, badFree, nullWrite, lock, rmw, llt, req, armed, fptr>>

(* ... rt_pages_free(llt_list, g_pdma_page_size[ch]) ...                   *)
FreePages(t) ==
  /\ pc[t] = "ffree"
  /\ heap' = [b \in Blocks |-> IF b = fptr[t] THEN 0 ELSE heap[b]]
  /\ badFree' = (badFree \/ ~(fptr[t] \in Blocks /\ heap[fptr[t]] = pageSize[t]))
  /\ pc' = [pc EXCEPT ![t] = "fclear"]
  /\ UNCHANGED <<chEn, intStat, busy, stopping, saddr, pageSize, allocPage,
                 nullWrite, lock, rmw, llt, req, armed, fptr>>

(* ... g_pdma_alloc_page[ch] = false.                                      *)
FreeClear(t) ==
  /\ pc[t] = "fclear"
  /\ allocPage' = [allocPage EXCEPT ![t] = FALSE]
  /\ pc' = [pc EXCEPT ![t] = "idle"]
  /\ UNCHANGED <<chEn, intStat, busy, stopping, saddr, pageSize, heap,
                 badFree, nullWrite, lock, rmw, llt, req, armed, fptr>>

ClientLltFree(t) == FreeRead(t) \/ FreeTest(t) \/ FreePages(t) \/ FreeClear(t)

-----------------------------------------------------------------------------
(* PDMA interrupt handler, run atomically on the hart.                     *)

(* k_pdma_int_clear_all(clear): snapshot dma_int_stat, write clear, then  *)
(* free the chain of every channel whose done bit is in the snapshot.      *)
KPdmaIntClearAll(clear) ==
  /\ intStat # {}
  /\ intStat' = intStat \ clear
  /\ LltFree({c \in Channels : <<"done", c>> \in intStat})
  /\ UNCHANGED <<chEn, busy, stopping, saddr, pageSize, nullWrite, lock,
                 pc, rmw, llt, req, armed, fptr>>

(* k_pdma_int_clear(ch, PDONE_INT) from the handler.                       *)
IsrIntClear(ch) ==
  /\ <<"done", ch>> \in intStat
  /\ KPdmaIntClear(ch, {"done"})
  /\ UNCHANGED <<chEn, busy, stopping, saddr, pageSize, nullWrite, lock,
                 pc, rmw, llt, req, armed, fptr>>

-----------------------------------------------------------------------------
(* DMA engine.                                                             *)

(* The transfer completes: busy clears and every event bit is raised.      *)
HwDone(c) ==
  /\ busy[c]
  /\ busy' = [busy EXCEPT ![c] = FALSE]
  /\ stopping' = [stopping EXCEPT ![c] = FALSE]
  /\ intStat' = intStat \cup (Events \X {c})
  /\ UNCHANGED <<chEn, saddr, pageSize, allocPage, heap, badFree, nullWrite,
                 lock, pc, rmw, llt, req, armed, fptr>>

(* The engine takes a stop: the transfer is abandoned, no event is raised. *)
HwStop(c) ==
  /\ busy[c] /\ stopping[c]
  /\ busy' = [busy EXCEPT ![c] = FALSE]
  /\ stopping' = [stopping EXCEPT ![c] = FALSE]
  /\ UNCHANGED <<chEn, intStat, saddr, pageSize, allocPage, heap, badFree,
                 nullWrite, lock, pc, rmw, llt, req, armed, fptr>>

ConfigStep(t) ==
  \/ ConfigDrain(t) \/ EnLock(t) \/ EnRead(t) \/ EnWrite(t)
  \/ ConfigClear(t) \/ LltCalStep(t) \/ ConfigSaddr(t)

Next ==
  \/ \E t \in Clients, L \in Lengths : ConfigStop(t, L)
  \/ \E t \in Clients : ConfigStep(t)
  \/ \E t \in Clients : KPdmaStart(t) \/ KPdmaStop(t) \/ ClientLltFree(t)
  \/ \E clear \in SUBSET (Events \X Channels) : KPdmaIntClearAll(clear)
  \/ \E c \in Channels : IsrIntClear(c)
  \/ \E c \in Channels : HwDone(c) \/ HwStop(c)

(* Client threads are scheduled, and the engine honours a stop.  No       *)
(* fairness for completion: a peripheral may hold a transfer forever.      *)
Fairness ==
  /\ \A t \in Clients : WF_vars(ConfigStep(t))
  /\ \A c \in Channels : WF_vars(HwStop(c))

Spec == Init /\ [][Next]_vars /\ Fairness

-----------------------------------------------------------------------------
(* Properties.                                                             *)

PcStates == {"idle", "drain", "lock", "read", "write", "clear", "cal",
             "saddr", "fault", "fread", "ffree", "fclear"}

TypeOK ==
  /\ chEn \subseteq Channels
  /\ intStat \subseteq Events \X Channels
  /\ busy \in [Channels -> BOOLEAN]
  /\ stopping \in [Channels -> BOOLEAN]
  /\ saddr \in [Channels -> Nat]
  /\ pageSize \in [Channels -> Nat]
  /\ allocPage \in [Channels -> BOOLEAN]
  /\ heap \in [Blocks -> Nat]
  /\ badFree \in BOOLEAN
  /\ nullWrite \in BOOLEAN
  /\ lock \in Clients \cup {NoOne}
  /\ pc \in [Clients -> PcStates]
  /\ rmw \in [Clients -> SUBSET Channels]
  /\ llt \in [Clients -> Nat]
  /\ req \in [Clients -> Lengths \cup {0}]
  /\ armed \in [Clients -> BOOLEAN]
  /\ fptr \in [Clients -> Nat]

(* The chain pdma_llt_cal built for a configuration still to be started  *)
(* moves exactly the requested line_size bytes, in segments of at most     *)
(* PDMA_MAX_LINE_SIZE.                                                     *)
LltChainCovers ==
  \A t \in Clients : (pc[t] = "saddr" \/ armed[t]) =>
     ChainCovers(LltCal(0, 0, req[t]), 0, 0, req[t])

(* The read-modify-write of pdma_ch_en in pdma_ch_enable loses no update: *)
(* a channel whose configuration has passed the enable stays enabled.      *)
ChannelStaysEnabled ==
  \A t \in Clients : (pc[t] \in {"clear", "cal", "saddr"} \/ armed[t]) => t \in chEn

(* The engine never walks a freed chain: while a channel is busy, its     *)
(* ch_llt_saddr is a block the allocator has handed out and not got back. *)
NoUseAfterFree ==
  \A c \in Channels : busy[c] => saddr[c] \in Blocks /\ heap[saddr[c]] > 0

(* Every rt_pages_free of a chain, from the client or from the interrupt  *)
(* handler, returns a block that is allocated, with its size, once.        *)
NoBadFree == ~badFree

(* No chain leaks: every allocated block is the chain some channel still  *)
(* owes a free for, or the one a configuration is about to install.        *)
NoLeak ==
  \A b \in Blocks : heap[b] > 0 =>
     \/ \E c \in Channels : allocPage[c] /\ saddr[c] = b
     \/ \E t \in Clients : pc[t] = "saddr" /\ llt[t] = b

(* k_pdma_config never rewrites the ch_llt_saddr of a channel the engine  *)
(* is running: the busy-wait on ch_status comes before the new chain is    *)
(* installed, whether or not the client freed its last chain.              *)
SaddrStableWhileBusy ==
  [][\A c \in Channels : busy[c] /\ busy'[c] => saddr'[c] = saddr[c]]_vars

(* The busy-wait of k_pdma_config ends: the stop it writes is taken.       *)
ConfigDrains ==
  \A t \in Clients : pc[t] = "drain" ~> pc[t] # "drain"

=============================================================================
