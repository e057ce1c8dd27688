# TLA+ models of the K230 interrupt, DMA, timer, procfs and SPI code

This directory holds TLA+ models of the C code under `src/` (RT-Thread,
K230 BSP). Each model is checked with TLC on small instances. Some are
proved with TLAPS for every value of the constants.

## The system and its parts

| Part | Source | What it does |
|------|--------|--------------|
| PLIC driver | `libcpu/risc-v/t-head/c908/plic.c` | Sets up the platform interrupt controller. Enables and disables sources. Its dispatch loop claims an ID, calls the registered handler and completes the ID. |
| PDMA driver | `bsp/k230/drivers/interdrv/pdma/drv_pdma.c` | Configures a DMA channel and builds its descriptor chain from pages. Enables channels under a hardware lock. Frees chains on completion, from the interrupt handler or from the client. |
| Hardware timer | `bsp/k230/drivers/interdrv/hwtimer/drv_timer.c` | Starts and stops the timer. Its ISR calls `timer_timeout_ind`, which queues `send_sig_work` on the system workqueue to signal the process that asked for it (`HWTIMER_CTRL_IRQ_SET`). |
| procfs | `components/dfs/dfs_v2/filesystems/procfs/dfs_procfs.c` | A list of entries under `procfs_lock`, plus file operations: open stores the entry in the vnode; read, close and getdents list the entries. |
| SPI bus glue | `components/drivers/spi/dev_spi.c` | The bus device. Its first open, under `bus->lock`, allocates a child `rt_spi_device`, registers it as `<bus>_dev` and makes it `bus->owner`. Read, write and control forward to the owner. The last close unregisters and frees it. |
| USB glue and shell | `components/drivers/usb/cherryusb/...` | Not modelled (see below). |

How the parts interact: the timer and the PDMA interrupt are sources the
PLIC delivers. Their ISRs run from `generic_handle_irq`. Each model treats
the code it calls as environment: the PLIC hardware, the DMA engine, the
page allocator, the workqueue and the signal layer. A model that composes
the PLIC with the PDMA handler is planned (see the plan below).

## Modules

### `Plic.tla` — `plic.c`

The constants are:

- `NrIrqs`: `C908_PLIC_NR_EXT_IRQS`.
- `IrqMaxNr`: `IRQ_MAX_NR`.
- `NrContext`: `C908_NR_CONTEXT`.
- `Handlers`: the IDs with a registered handler.
- `MaxThreshold`.
- `MaxRaises`: how many requests one device raises.

The driver's state:

- `plicRegs`: `plic_init` has run.
- `present`.
- `hartCtx`: the context that `plic_handlers[0]` points at.
- `seie`.
- `hpc`: where the hart is in the dispatch loop.
- `cur`: the ID it claimed.

The PLIC's state: `priority`, `enable`, `threshold`, `pending` and
`inService`.

The actions:

- `PlicInit` is all of `plic_init`, including its loop over the contexts.
  Every context after the first writes through the same `hart_base`.
- `PlicIrqToggle` is `plic_enable_irq`/`plic_disable_irq`. It uses the
  helper `PlicToggle` (the `plic_toggle` bit update).
- `PlicHandleIrq` enters the loop.
- The claim read is `ClaimIrq` or `ClaimNone`. The PLIC hands out the
  highest-priority pending, enabled, not-in-service ID above the
  threshold, with the lowest ID winning ties.
- `GenericHandleIrq` calls the handler and then `plic_complete`. It does
  so only for `irq < IRQ_MAX_NR`: an ID at or above that takes the
  early return.
- `Raise` is a device.

The module also has `OneOutstandingInv`, the inductive strengthening used
by the proof.

### `IrqDelivery.tla`: what the PLIC driver promises

This is an abstract specification with no code of its own. Devices raise
requests (`req`). One request at a time is being handled (`active`). A
handling starts only for an outstanding request, and finishing it
retires exactly that request. `Plic.tla` instantiates it as `Delivery`:

- `req` is `pending \cup inService`;
- `active` is `cur` while an ID is in service, and none otherwise.

`ImplementsIrqDelivery == Delivery!ASpec` is proved (see Proofs). It is
not a run of its own: the driver never touches `pending`, and every
plausible driver bug that breaks the refinement also breaks
`OneOutstanding`, so a run of it would show nothing more.

### `Pdma.tla` — `drv_pdma.c`

There is one client thread per channel. `k_pdma_config` is split at the
points where another thread or the handler can run in between:

- `ConfigStop`, then `ConfigDrain`, the busy-wait on `ch_status`.
- `EnLock`, `EnRead` and `EnWrite`: `pdma_ch_enable`, with the hardware
  lock and the read-modify-write of `pdma_ch_en`.
- `ConfigClear`.
- `LltCalStep`: `pdma_llt_cal`. It allocates pages, sets
  `g_pdma_alloc_page` and builds the chain with `LltCal` and `NodeCount`.
- `ConfigSaddr`: the `ch_llt_saddr` write, with `PV_OFFSET` added.

The other actions:

- `KPdmaStart` and `KPdmaStop`.
- `ClientLltFree`: the client's `k_pdma_llt_free` once
  `jamlnik_pdma_is_busy` is false. It takes no lock and leaves the PDMA
  interrupt unmasked, so it is four steps, one per shared access:
  `FreeRead` reads `ch_llt_saddr` into `fptr`, `FreeTest` tests
  `g_pdma_alloc_page`, `FreePages` is `rt_pages_free(fptr)`, and
  `FreeClear` clears the flag. The handler may run between any two.
- `KPdmaIntClearAll` and `KPdmaIntClear`: the two interrupt paths. Both
  free from a snapshot of `dma_int_stat`, with `k_pdma_llt_free` in one
  step (nothing else runs on the hart during the handler).
- `HwDone` and `HwStop`: the engine.

The heap is a function from blocks to their allocated size. `badFree` and
`nullWrite` record a free of something never allocated and a write
through NULL. The constants `HardlockOk` and `CarefulClient` choose
whether `kd_request_lock` succeeded, and whether clients free a chain
before reconfiguring.

### `HwTimer.tla` — `drv_timer.c`

- `IrqSet` and `IrqClear`: `kd_timer_ctrl(HWTIMER_CTRL_IRQ_SET)`.
- `KdTimerStart` and `KdTimerStop`.
- `Expire`: the hardware.
- `KdHwtimerIsr`: clears the interrupt. It stops a one-shot timer and
  calls `timer_timeout_ind` when `rx_indicate` is set.
- `TimerTimeoutInd`: `rt_work_init`, then `rt_work_submit`.
- `WorkerTake` and `SendSigWork`: the workqueue thread running the work.
- `HwtimerOpen`: `timer_fops_open`, through the framework's
  `rt_hwtimer_init`, which sets `timer->freq` to `minfreq` and calls
  `kd_timer_init(timer, 1)`. `KdClkDiv` is the divider that
  `kd_timer_init` and `kd_timer_ctrl` program: 8, 1, 2 or 4 for 12.5,
  100, 50 or 25 MHz, and the old divider for any other frequency.
- `HwtimerClose`: `timer_fops_close`, whose `kd_timer_init(timer, 0)`
  stops the counter; the framework clears `rx_indicate`.
- `FreqSet(f)`: `kd_timer_ctrl(HWTIMER_CTRL_FREQ_SET)` for a frequency the
  framework lets through (between `minfreq` and `maxfreq`).

The ioctl paths (`IrqSet`, `IrqClear`, `KdTimerStart`, `KdTimerStop`,
`FreqSet`) need the device open. The divider `clkDiv` is a register: it
keeps its value across close and open, and its value before the first
open is any of the four.

The workqueue's `rt_list_t` is modelled pointer by pointer (`nxt`, `prv`)
through `ListInit`, `ListRemove` and `ListInsertAfter`. Those are
`rt_list_init`, `rt_list_remove` and `rt_list_insert_after`, with their
assignments in order. Corruption by re-initialising a queued node
therefore shows as it does in memory. `fired` and `delivered` count
expiries and signals.

### `Procfs.tla` — `dfs_procfs.c`

The state:

- Threads `Threads` work on entries `Entries` with names `Names`.
- `list` is the entry list, head first.
- `ename` holds the names and `live` the entries not yet freed.

The registry actions:

- `Create` and `Destroy`.
- `RegisterFind` and `RegisterInsert` are the two `procfs_lock` sections
  of `rt_proc_entry_register`.
- `Unregister` is `rt_list_remove` of the entry's own node, modelled as
  `RemoveFirst(list, ent[t])` of `SequencesExt`. An entry is on the list
  at most once, since `RegisterInsert` runs once per created entry, so
  removing its first occurrence is the unlink `rt_list_remove` does.

The file operations:

- Open files are per thread: `fopen` is the name, `vref` and `vdata` are
  the vnode's reference count and `data`.
- `Open` is `dfs_proc_fops_open`: the shared-vnode, first-open and
  failure branches.
- `Read` and `Close`. `Deref` records a dereference of a freed entry in
  `uaf`.
- `OpenDir`, `Getdents` and `CloseDir`: a listing of `/`. `dpos` is
  `file->fpos`, and `Count` entries are returned per call.
- `seen` is what the listing returned so far. `lchanged` records that the
  list changed while a listing was open.

### `Spi.tla` — `dev_spi.c`

The constants are threads `Threads`, heap blocks `Devs` that `rt_malloc`
may return for a child device, and `AllocCanFail`. The variables:

- `lock`, `owner` and `registered`: `bus->lock`, `bus->owner`, and the
  device registered as `<bus>_dev`.
- `live`: the blocks allocated and not yet freed.
- `refCount` and `opened`: the device framework's `ref_count` on the bus,
  and which threads have it open.
- `pc` and `newdev`: where each thread is, and the local `spi_device`
  of its open.
- `tdev` and `stale`: the device pointer a transfer has read, and whether
  it has been freed since.
- `faults`: a failed `RT_ASSERT`, or a dereference of NULL or freed
  memory. It stops the system.

The actions of `_spi_bus_device_open` are:

- `OpenCall`;
- `OpenLock`: `rt_mutex_take`;
- `OpenCheck`: `owner == NULL`;
- `OpenAlloc`: `rt_malloc`, which may fail, then
  `rt_spi_bus_attach_device`. The attach fails while the name is still
  registered (helper `AttachDevice`, which is `rt_spidev_device_init`);
- `OpenSetOwner`;
- `OpenRelease`: the `exit:` label, which returns 0 on every path.

The actions of `_spi_bus_device_close` are:

- `CloseUnregister`: `rt_device_unregister` of the owner, without the
  lock;
- `CloseFree`: `rt_free`, then `owner = NULL`.

`Close` is the framework's `rt_device_close`. It decrements `ref_count`,
and only the last closer calls the driver. The transfer actions are:

- `BusTransfer`: the bus read, write and control. They assert that the
  owner is not NULL and take it.
- `SpidevTransfer`: `rt_device_find("<bus>_dev")` and the child device's
  read and write.
- `Transfer`: the `rt_spi_transfer` that dereferences the pointer.

## Runs

Each pass run has a mutant, listed in `PROJECT.json`: a plausible bug in
one mapped definition that TLC then catches.

| Run | cfg | Result | What it shows |
|-----|-----|--------|---------------|
| plic | `MCPlic.cfg` | pass, ~104k states | `OneOutstanding`: the hart never claims a second ID while one is in service, and is never back in thread context with one in service. `EventuallyClaimed`: an enabled source above the threshold is claimed. |
| plic_three_contexts | `MCPlicThreeCtx.cfg` | violation | With three contexts, `plic_init` masks the hart's own context (threshold `0xffffffff`), so nothing is ever claimed. |
| pdma | `MCPdma.cfg` | pass, ~3M states | `LltChainCovers`: the chain moves exactly the requested bytes. `ChannelStaysEnabled`: no lost enable. `NoLeak`: every allocated block is a chain some channel still owes a free for, although the client's and the handler's frees race. |
| pdma_free_race | `MCPdmaFreeRace.cfg` | violation | `NoBadFree`. The client's `k_pdma_llt_free` has called `rt_pages_free` but not yet cleared `g_pdma_alloc_page` when the handler's `k_pdma_int_clear_all` frees the same chain again (`drv_pdma.c:216`). |
| pdma_reconfig | `MCPdmaReconfig.cfg` | pass | Clients that reconfigure before freeing. `ConfigDrains`: the busy-wait ends. `SaddrStableWhileBusy` (an action property): no step rewrites the `ch_llt_saddr` of a channel that stays busy. Deadlock is not checked, because leaked pages finally make `pdma_llt_cal` write through NULL, where the kernel faults. |
| hwtimer | `MCHwTimer.cfg` | pass | In one-shot mode, re-armed after each signal, the work list stays well formed (`WorkListWellFormed`), and every expiry is followed by a signal (`EveryFireSignalled`). |
| hwtimer_periodic | `MCHwTimerPeriodic.cfg` | violation | In periodic mode, a second expiry while the work is queued re-initialises it and breaks the list. |
| spi | `MCSpi.cfg` | pass, ~2.7k states | `NoFreedRegistered`: the device list never holds a freed child device. `NoLeak`: every allocated block is the owner or about to become it. `OpenReturns`: every open that waits for `bus->lock` returns. |
| spi_close_race | `MCSpiClose.cfg` | violation | Thread 1 opens and closes the bus. Thread 2 finds `<bus>_dev` and starts a transfer. Thread 1's close then unregisters and frees the device under it, and the transfer uses freed memory (`dev_spi.c:165`). |
| procfs | `MCProcfs.cfg` | pass, ~2M states | `ListingExact`: a listing that no registration overlapped returns exactly the list. |
| procfs_names | `MCProcfsNames.cfg` | violation | A check-then-insert race registers a name twice. |
| procfs_stale_entry | `MCProcfsStale.cfg` | violation | Open, then unregister and destroy, then read dereferences the freed entry. |

Seven more defects are reached by changing one constant or property of a
pass run. Each one makes TLC report a violation:

- `MCPdma.cfg` checking `NoUseAfterFree`. In the window of the
  `pdma_free_race` run, after the client's `rt_pages_free` and before it
  clears `g_pdma_alloc_page`, `pdma_llt_cal` of the other channel gets
  the freed block and starts its transfer. The handler, finding the first
  channel's flag still set, frees the block under it (`drv_pdma.c:219`).
- `MCPdma.cfg` with `PvOffset = 2`, checking `NoBadFree`.
  `k_pdma_llt_free` frees the address read back from `ch_llt_saddr`,
  which is `virt + PV_OFFSET` (`drv_pdma.c:215`).
- `MCHwTimer.cfg` with `Freqs <- MCFreqsUnsupported`, checking
  `ClockMatchesFreq`. `FREQ_SET` with 40 MHz, which the framework
  accepts, stores `timer->freq` but keeps the divider of `minfreq`: the
  counter runs at 12.5 MHz and every timeout is 3.2 times too long
  (`drv_timer.c:213`).
- `MCPdma.cfg` with `CarefulClient = FALSE`, checking `NoLeak`.
  Reconfiguring a channel overwrites `g_pdma_alloc_page` and leaks the
  previous chain (`drv_pdma.c:167`).
- `MCPdma.cfg` with `HardlockOk = FALSE`, checking `ChannelStaysEnabled`.
  When `kd_request_lock` fails, two `pdma_ch_en` read-modify-writes race
  and an enable is lost (`drv_pdma.c:237`).
- `MCPlic.cfg` with `IrqMaxNr = 2`, so the ID 2 is at or above
  `IRQ_MAX_NR`, checking `OneOutstanding`. `generic_handle_irq` returns
  without `plic_complete`, and the ID stays claimed (`plic.c:58`).
- `MCPdma.cfg` with `Lengths = {2}`, checking `LltChainCovers`. A length
  that is a multiple of `PDMA_MAX_LINE_SIZE` gets a last descriptor of
  length 0 (`drv_pdma.c:175`).
- `MCProcfs.cfg` checking `EntryListedOnce`. A registration between two
  getdents calls shifts the list under `fpos`, and one listing returns an
  entry twice (`dfs_procfs.c:56`, `:297`).

### Bounds

- **PLIC:** 3 sources, 2 contexts, thresholds up to 7, and at most 2 raises
  per source. That is enough for two sources pending at once, a re-raise
  during service, a toggle in the middle of the loop, and ties in
  priority. The violation of the three-context run needs a third context
  and nothing more.
- **PDMA:** 2 channels (the one-word `pdma_ch_en` race needs two) and
  `PDMA_MAX_LINE_SIZE = 2`. Lengths 1 and 3 give one-node and two-node
  chains; length 2 is the exact multiple. The reconfiguration run takes length 1
  only: the stop-and-wait and the `ch_llt_saddr` store do not depend on it. There are 2 page blocks, so
  the block one channel frees can go to the other while the handler still
  sees the first channel's flag (the `NoUseAfterFree` variant). Addresses are abstract block numbers, and
  `PV_OFFSET` is 0 except in its own run, where it is 2.
- **Timer:** 3 expiries, 2 signal numbers and 1 value. A second expiry
  before the worker runs is the case that matters; in one-shot mode
  `KdTimerStart` re-arms only once every expiry was signalled, so only
  the periodic run meets it. The pass run takes the four frequencies with
  a divider. The frequency variant takes `minfreq` and
  40 MHz, one frequency without a divider, which is all the defect needs.
- **procfs:** 2 threads, 2 entries, 2 names, one `dirent` per getdents
  call, and symmetry over all three sets. Each set is interchangeable in
  the code, so the symmetry is sound.

- **SPI:** 2 threads, the fewest for lock contention and for a close
  racing a transfer. There are 2 heap blocks, so a second allocation
  while the first block is still live is possible. Allocation may fail.
  The threads are interchangeable, and so are the blocks, so the
  violation run uses symmetry.

### Fairness

- **PLIC:** weak fairness on the dispatch loop's steps. Once an interrupt
  is taken, the hart runs the loop to the end.
- **PDMA:** weak fairness on the engine taking a stop (`HwStop`) and on
  each step of `k_pdma_config` (`ConfigStep`). The engine finishes a
  stop it was given, and a thread inside `k_pdma_config` runs on.
- **Timer:** weak fairness on the ISR (an asserted line is taken), on the
  worker taking the work, and on `send_sig_work`. The workqueue thread is
  runnable and gets the CPU.

- **SPI:** strong fairness on `OpenLock`, and weak fairness on the other
  steps of an open in progress. A thread waiting in `rt_mutex_take` is
  queued on the mutex, and `rt_mutex_release` hands the mutex to the
  first waiter. A waiter that is repeatedly able to take it therefore
  gets it.

Otherwise no strong fairness is assumed. Clients are never forced to start a
configuration, a transfer or a free.

## Proofs

### `PlicProofs.tla`

Proved by `tlapm` for every value of the constants that satisfies
`PlicAssumption`:

- **`TypeCorrect`**: `Spec => []TypeOK`. It rests on `InitTypeOK` and
  `TypeOKInductive`. The proof has one case per action. In the toggle
  case, `plic_handlers[0]` points either at a real context or at the
  "none" value before `plic_init` has run.
- **`OneOutstandingHolds`**: `ASSUME NrIrqs < IrqMaxNr PROVE
  Spec => []OneOutstanding`.

`OneOutstanding` alone is not inductive: a claim is only completed if the
claimed ID is one `generic_handle_irq` completes. The strengthening
`OneOutstandingInv` adds three facts:

- while dispatching, `inService = {cur}`, with `cur` a real, enabled ID;
- outside dispatch, nothing is in service;
- the registers are set up before the hart leaves thread context.

The proof checks each action against it. Its one use of the hypothesis is
in `GenericHandleIrq`: since `cur < NrIrqs < IRQ_MAX_NR`, the completing
branch is taken. Without the hypothesis the theorem is false: that is the
violation reached with `IrqMaxNr = 2` (see Runs).

- **`ImplementsDelivery`**: `ASSUME NrIrqs < IrqMaxNr PROVE
  Spec => ImplementsIrqDelivery`. The lemma `InitRefines` maps `Init` to
  `Delivery!AInit`. The lemma `StepRefines` shows that a step from a
  state satisfying `OneOutstandingInv` is a step or a stutter of the
  abstract spec. For it the invariant gained a conjunct,
  `pending \cap inService = {}`. The PLIC gateway does not re-latch a
  source in service, so a raise adds a new request, and a completion
  retires the active one. Each step maps as follows:
  - `Raise` is `ARaise`;
  - `ClaimIrq` is `AStart`;
  - `GenericHandleIrq` is `AFinish`;
  - every other action leaves both `req` and `active` unchanged.

  The `raised` counter is the same in both specs.

### `SpiProofs.tla`

These are proved for every finite set of threads and every set of heap
blocks that satisfies `SpiAssumption`:

- **`TypeCorrect`**: `Spec => []TypeOK`.
- **`NoFreedRegisteredHolds`**: `Spec => []NoFreedRegistered`.
- **`NoLeakHolds`**: `Spec => []NoLeak`.

All three follow from the invariant `SpiInv` (lemma `SpiInvHolds`),
which `InitSpiInv` and `SpiInvInductive` establish. The latter has one
step per action, and the actions with a fault branch are split by the
shared lemma `FaultKeeps`. `SpiInv` strengthens the two properties with
facts that hold because of how the code is written:

- `ref_count` equals the number of threads with the bus open. This is
  `Cardinality(Openers)`, maintained with `FS_AddElement` and
  `FS_RemoveElement`. It is why `TypeOK` needs the invariant at all:
  without it, `Close` could take `refCount` below 0.
- A thread inside open has not opened the bus yet.
- Between `rt_mutex_take` and `rt_mutex_release`, only the lock holder
  runs the open path.
- While an open allocates, `bus->owner` is NULL, and the device it
  attached is the one registered.
- A close about to `rt_free` holds an owner that is allocated and
  already unregistered, and no other close is at that point.

TLC checked `SpiInv` as an invariant on 2 and on 3 threads before it was
proved. These theorems say nothing about `NoBadOwnerUse`. That property
is false (run `spi_close_race`), because a transfer through the child
device holds no reference.

### `HwTimerProofs.tla`

These are proved for every bound `MaxFires` and every set of signal
numbers and values:

- **`TypeCorrect`**: `Spec => []TypeOK`, in either mode. The
  strengthening `TypeInv` adds three groups of facts:
  - `timer_timeout_ind` ran no more often than the counter expired, and
    an asserted line stands for an expiry not yet taken;
  - the workqueue thread only takes the work below the bound;
  - the list head always points at nodes, and the work's pointers are
    NULL only before the first `rt_work_init`, while the list is empty.

  The lemmas `ListInitRing`, `ListRemoveRing`, `ListInsertAfterRing`,
  `TimeoutIndRing` and `RingLinks` show that the `rtservice.h` list
  operations keep pointers pointing at nodes.
- **`OneShotListHolds`**: `ASSUME Modes = {"oneshot"} PROVE
  Spec => []WorkListWellFormed`. The strengthening `OneShotInv` counts
  each call of `timer_timeout_ind` in exactly one place: pending on the
  list, being run by the workqueue thread, or already signalled. It also
  states that all of them are signalled while the counter runs or its
  interrupt is asserted. That holds because the process re-arms a
  one-shot timer only after the last signal (the guard of
  `KdTimerStart`). So the ISR calls `timer_timeout_ind` only on an empty
  list:
  - `SubmitOnEmpty` computes the ring of two that it builds;
  - `TakeFromRing` shows that the worker empties it again.

  Periodic mode has no such guard, and the theorem is false there: see
  the `hwtimer_periodic` run.

### `PdmaProofs.tla`

These are proved for every set of channels, events and lengths, every
line size, page count and `PV_OFFSET` that satisfies `PdmaAssumption`:

- **`TypeCorrect`**: `Spec => []TypeOK`. `TypeOK` is inductive as it
  stands. The helper lemmas are:
  - `NodeCountNat`: `list_num` is natural, even for the 0 a client
    starts with;
  - `LltFreeType` and `KPdmaIntClearType`: the frees keep the heap
    sizes natural.
- **`ChannelStaysEnabledHolds`**: `ASSUME HardlockOk PROVE
  Spec => []ChannelStaysEnabled`. The strengthening `EnableInv` adds
  three facts:
  - only the holder of the hardware lock is between the read and the
    write of `pdma_ch_en`;
  - the lock is held only by such a client;
  - the value the holder read is still the register's.

  So `EnWrite` computes `chEn \cup {t}`, and enable bits are never lost.
  Without `HardlockOk` the theorem is false: the `HardlockOk = FALSE`
  variant of `MCPdma.cfg` (see Runs) loses an enable.
- **`SaddrStableWhileBusyHolds`**: `Spec => SaddrStableWhileBusy`, for
  every value of the constants, careful clients or not. The strengthening
  is `TypeOK /\ StopsFirst`. `StopsFirst` says a busy channel's client is
  `idle` or at the `ch_status` wait. Only `ConfigSaddr` writes `saddr`,
  and its client is past that wait, so the channel is not busy. The
  action property follows from the invariant and one `[Next]_vars` step.
- **`LltChainCoversHolds`**: `ASSUME ExactLengthFree PROVE
  Spec => []LltChainCovers`. `ExactLengthFree` says no requested length
  is a multiple of `PDMA_MAX_LINE_SIZE`. For a multiple, `pdma_llt_cal`
  gives the last node `line_size % PDMA_MAX_LINE_SIZE = 0`, and TLC finds
  `LltChainCovers` false when `MCLengthsExact` replaces `MCLengths` in
  `MCPdma.cfg`. The chain is a closed-form
  function of the index, so no induction is needed:
  - `ModDef` and `DivUnique` are the identities of `\div` and `%`;
  - `DivPred` and `DivSplit` write a length as `q` full lines plus a
    remainder in `1..MAX-1`, with `list_num = q + 1`;
  - `LltCalCovers` checks each clause of `ChainCovers` for that chain.

  The strengthening `ReqInv` says a client that is configuring or armed
  has a recorded length (`req` is 0 only before its first
  `k_pdma_config`). TLC checked it on `MCPdma.cfg` first.

### `PdmaMemoryProofs.tla`

This module proves `NoLeak` of the `pdma` run:

- **`NoLeakHolds`**: `ASSUME LeakHyp PROVE Spec => []NoLeak`, for every
  set of channels, events and lengths, every line size and every number
  of page blocks.

`LeakHyp` has two conjuncts, and each is needed:

- `PvOffset = 0`. Otherwise `k_pdma_llt_free` frees a physical address
  and the chain stays allocated (the `PvOffset = 2` variant under Runs).
- `CarefulClient`: a client reconfigures a channel only after its last
  chain is freed. Without it `pdma_llt_cal` overwrites
  `g_pdma_alloc_page` and `ch_llt_saddr`, and TLC breaks `NoLeak` (see
  Runs).

`NoLeak` holds although the client's and the handler's frees race (the
`pdma_free_race` run and its `NoUseAfterFree` variant): those races free a block twice or too early, but
never leave one allocated. `NoLeak` alone is not inductive. The
strengthening `LeakInv` was checked by TLC on `MCPdma.cfg` first.
`Chain(c)` is `llt[c]` between `pdma_llt_cal` and the store to
`ch_llt_saddr`, and `saddr[c]` otherwise. `Holds(c, b)` says channel `c`
will still free `b`: its flag is set, `b` is its chain, and its client is
not in `fclear`, past its `rt_pages_free`. `LeakInv` says:

- a client inside `k_pdma_config`, before `pdma_llt_cal` returned, has
  its flag clear. So `pdma_llt_cal` never overwrites a chain still owed a
  free;
- past the `ch_status` wait the channel is not busy, and in `cal` and
  `saddr` no done bit of it is pending. Otherwise the handler would free
  `ch_llt_saddr` and clear the flag while the new chain is in `llt`, and
  the new chain would leak;
- a client inside its `k_pdma_llt_free` has read the current
  `ch_llt_saddr`, so `FreePages` frees the chain the channel holds;
- every allocated block is held (`HeapHeld`), which gives `NoLeak`
  (`LeakInvNoLeak`).

The lemmas `LltFreeNoOwner` and `LltFreeKeepsHeld` cover the handler's
atomic free, `HeldFrame` the steps that leave the heap and the chains
alone, and `ConfigFrame` the configuration stages. The case of
`LltCalStep` uses `PvOffset = 0` for the block it picks.

### `ProcfsProofs.tla`

This module proves both properties of the `procfs` run for every finite
set of threads and every set of entries and names. It assumes only
`ProcfsAssumption`: `Threads` is finite (the bound on `vref` is its
cardinality), `Count` is a positive natural (a `dirent` buffer holds at
least one entry) and `None` is neither an entry nor a name.

- `TypeCorrect` states `Spec => []TypeOK`. `TypeOK` bounds `vref[n]` by
  `|Threads|`, which is not inductive alone. The strengthening `TypeInv`
  adds `CountInv`: `vref[n]` is the number of threads whose `fopen` is
  `n`. That is the reference count `dfs_proc_fops_open` and the dfs
  layer's close keep, and it gives the bound through `HoldersBound`.
  `EntInv` adds that a thread past `rt_proc_entry_create` has an entry.
  `OpenCount` and `CloseCount` carry the counting for the two actions
  that move a vnode count.
- `Find` and `RemoveFirst` both choose the least index holding a value.
  `LeastIndex` proves that such an index exists from the well-foundedness
  of `<` on `Nat` (`WFMin` of `WellFoundedInduction`). `FindType` and
  `RemoveFirstType` follow from it.
- `ListingExactHolds` states `Spec => []ListingExact`. The strengthening
  `ListingPrefix` says that an open, unmarked listing has `dpos <= Len(list)`,
  that `seen` is `SubSeq(list, 1, dpos)`, and that a finished listing has
  `dpos = Len(list)`. `GetdentsPrefix` joins the two slices with
  `ConcatAdjacentSubSeq`. `DentCountRange` shows that getdents returns
  nothing exactly at the end of the list. `MarkFrame` covers registration
  and unregistration, which mark every open listing. `SubSeqFull` gives
  `ListingExact` at the end. TLC checked `CountInv` and `ListingPrefix` on
  the `MCProcfs.cfg` instance before they were proved.

### What is only model-checked

The following are only model-checked:

- Liveness (`EventuallyClaimed`, `ConfigDrains`, `EveryFireSignalled`,
  `OpenReturns`).
  TLAPS does not handle fairness or `ENABLED`.
- `LltChainCovers` for lengths that are multiples of
  `PDMA_MAX_LINE_SIZE`. It is false there.
- `NoLeak` without `LeakHyp`. It is false there, and TLC finds the
  counterexamples.
- `NoUseAfterFree` and `NoBadFree` are not proved: they are false, and
  the `pdma_free_race` run and its variants show it.
- `ClockMatchesFreq` is not proved: it holds only for the four
  frequencies with a divider, and a variant of `MCHwTimer.cfg` (see Runs)
  shows it false for the others.

## Not modelled

- `dev_spi.c`: the `RT_USING_DM` probe (`spidev_probe`) is not built for
  the K230 and keeps no state. The QSPI branch of open is the SPI branch
  with another struct, so `OpenAlloc` stands for both.
- `usb_glue_kendryte.c` and `usb_msh.c`: register writes and shell
  parsing. They keep no state a model would explore. Their defects are
  operator precedence and an argv bound, and they are listed as hazards.
- `rt_hw_timer_init`: registration and ISR installation at boot; the
  model starts after it. `kd_timer_get` reads the counter and changes
  nothing. The six channels run the same code, so one is modelled.
- The `sysctl` clock calls are taken to do what their arguments say:
  `sysctl_clk_set_leaf_div(src, 1, d)` divides the 100 MHz source by `d`.
- `k_pdma_resume` and `k_pdma_is_pause`: no descriptor sets pause.
- procfs `stat`, `lookup` and `mount`: they change no procfs state.

## Further work

1. A composition of `Plic` with the PDMA handler, with the PDMA interrupt
   delivered as a PLIC source.
2. A two-process timer model for the stale-signal hazard at
   `drv_timer.c:195`.
3. A PLIC module with two threads toggling IDs of one enable word
   (`plic.c:141`).
