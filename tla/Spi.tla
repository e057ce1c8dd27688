-------------------------------- MODULE Spi ---------------------------------
(***************************************************************************)
(* The SPI bus device glue of components/drivers/spi/dev_spi.c.  Threads   *)
(* open, close and transfer through the bus device; the first open under  *)
(* bus->lock allocates the child rt_spi_device, attaches it (which         *)
(* registers it as "<bus>_dev") and makes it bus->owner; close, without    *)
(* the lock, unregisters and frees it.  Threads may also find the child    *)
(* device and transfer through it.  The device framework (rt_device_open,  *)
(* rt_device_close) is the environment: it calls ops->open on every open   *)
(* (the driver never records the open mode), counts the openers in         *)
(* ref_count and calls ops->close when the count drops to zero.  A failed  *)
(* RT_ASSERT, or a dereference of NULL or of freed memory, stops the       *)
(* system: it is recorded in faults and no step follows it.                *)
(***************************************************************************)
EXTENDS Naturals, FiniteSets

CONSTANTS
  Threads,       \* application threads using the bus
  Devs,          \* heap blocks rt_malloc can hand out for an rt_spi_device
  NULL,          \* RT_NULL
  NoOne,         \* bus->lock is free
  AllocCanFail   \* rt_malloc may return RT_NULL though a block is free

ASSUME SpiAssumption ==
  /\ NULL \notin Devs
  /\ NoOne \notin Threads
  /\ AllocCanFail \in BOOLEAN
  /\ IsFiniteSet(Threads)

FaultKinds == {"null_owner", "use_after_free", "bad_unregister"}

VARIABLES
  lock,        \* holder of bus->lock
  owner,       \* bus->owner
  live,        \* heap blocks allocated and not freed
  registered,  \* the rt_spi_device registered under "<bus>_dev"
  refCount,    \* bus->parent.ref_count (device framework)
  opened,      \* the thread's rt_device_open of the bus has returned
  pc,          \* where the thread is
  newdev,      \* local spi_device of _spi_bus_device_open
  tdev,        \* the device pointer a transfer has read
  stale,       \* that pointer has been freed since it was read
  faults       \* history: the faults the system stopped on

vars == <<lock, owner, live, registered, refCount, opened, pc, newdev,
          tdev, stale, faults>>

Running == faults = {}

(* Stop the system on fault k.                                             *)
Fault(k) ==
  /\ faults' = faults \cup {k}
  /\ UNCHANGED <<lock, owner, live, registered, refCount, opened, pc,
                 newdev, tdev, stale>>

-----------------------------------------------------------------------------
(* rt_spi_bus_device_init has registered the bus: no owner, lock free.     *)
Init ==
  /\ lock = NoOne
  /\ owner = NULL
  /\ live = {}
  /\ registered = {}
  /\ refCount = 0
  /\ opened = [t \in Threads |-> FALSE]
  /\ pc = [t \in Threads |-> "idle"]
  /\ newdev = [t \in Threads |-> NULL]
  /\ tdev = [t \in Threads |-> NULL]
  /\ stale = [t \in Threads |-> FALSE]
  /\ faults = {}

(* rt_device_open of the bus calls _spi_bus_device_open.                  *)
OpenCall(t) ==
  /\ Running
  /\ pc[t] = "idle"
  /\ ~opened[t]
  /\ pc' = [pc EXCEPT ![t] = "lock"]
  /\ UNCHANGED <<lock, owner, live, registered, refCount, opened, newdev,
                 tdev, stale, faults>>

(* rt_mutex_take(&bus->lock, RT_WAITING_FOREVER) blocks until it is free.  *)
OpenLock(t) ==
  /\ Running
  /\ pc[t] = "lock"
  /\ lock = NoOne
  /\ lock' = t
  /\ pc' = [pc EXCEPT ![t] = "check"]
  /\ UNCHANGED <<owner, live, registered, refCount, opened, newdev, tdev,
                 stale, faults>>

(* if (bus->owner == NULL): allocate; otherwise go to exit.                *)
OpenCheck(t) ==
  /\ Running
  /\ pc[t] = "check"
  /\ pc' = [pc EXCEPT ![t] = IF owner = NULL THEN "alloc" ELSE "exit"]
  /\ UNCHANGED <<lock, owner, live, registered, refCount, opened, newdev,
                 tdev, stale, faults>>

(* rt_spi_bus_attach_device -> rt_spidev_device_init -> rt_device_register *)
(* of "<bus>_dev": it fails when the name is already registered.           *)
AttachDevice(d) ==
  IF registered = {}
    THEN /\ registered' = {d}
         /\ live' = live \cup {d}
    ELSE /\ UNCHANGED registered
         /\ UNCHANGED live

(* Seeded fault: the RT_NULL check after rt_malloc is missing.             *)
OpenAllocNoNullCheck(t) ==
  /\ Running
  /\ pc[t] = "alloc"
  /\ \E d \in (Devs \ live) \cup {NULL} :
       /\ AttachDevice(d)
       /\ newdev' = [newdev EXCEPT ![t] = d]
       /\ pc' = [pc EXCEPT ![t] = IF registered = {} THEN "setowner" ELSE "exit"]
  /\ UNCHANGED <<lock, owner, refCount, opened, tdev, stale, faults>>

(* rt_malloc of the (q)spi device: on RT_NULL, goto exit.  Otherwise       *)
(* attach it; when the attach fails, rt_free it and goto exit.             *)
OpenAlloc(t) ==
  /\ Running
  /\ pc[t] = "alloc"
  /\ \/ /\ AllocCanFail \/ Devs \subseteq live
        /\ pc' = [pc EXCEPT ![t] = "exit"]
        /\ UNCHANGED <<live, registered, newdev>>
     \/ \E d \in Devs \ live :
          /\ AttachDevice(d)
          /\ newdev' = [newdev EXCEPT ![t] = d]
          /\ pc' = [pc EXCEPT ![t] = IF registered = {} THEN "setowner" ELSE "exit"]
  /\ UNCHANGED <<lock, owner, refCount, opened, tdev, stale, faults>>

(* bus->owner = spi_device; rt_spi_configure(spi_device, &cfg).            *)
OpenSetOwner(t) ==
  /\ Running
  /\ pc[t] = "setowner"
  /\ owner' = newdev[t]
  /\ pc' = [pc EXCEPT ![t] = "exit"]
  /\ UNCHANGED <<lock, live, registered, refCount, opened, newdev, tdev,
                 stale, faults>>

(* Seeded fault: the failure paths return without releasing bus->lock.    *)
OpenReleaseOnSuccessOnly(t) ==
  /\ Running
  /\ pc[t] = "exit"
  /\ lock' = IF owner = NULL THEN lock ELSE NoOne
  /\ refCount' = refCount + 1
  /\ opened' = [opened EXCEPT ![t] = TRUE]
  /\ pc' = [pc EXCEPT ![t] = "idle"]
  /\ UNCHANGED <<owner, live, registered, newdev, tdev, stale, faults>>

(* exit: rt_mutex_release(&bus->lock); return 0, whatever happened.  The  *)
(* framework then counts the opener (ref_count++).                         *)
OpenRelease(t) ==
  /\ Running
  /\ pc[t] = "exit"
  /\ lock' = NoOne
  /\ refCount' = refCount + 1
  /\ opened' = [opened EXCEPT ![t] = TRUE]
  /\ pc' = [pc EXCEPT ![t] = "idle"]
  /\ UNCHANGED <<owner, live, registered, newdev, tdev, stale, faults>>

(* rt_device_close: ref_count--; only the last closer calls                *)
(* _spi_bus_device_close.                                                  *)
Close(t) ==
  /\ Running
  /\ pc[t] = "idle"
  /\ opened[t]
  /\ refCount' = refCount - 1
  /\ opened' = [opened EXCEPT ![t] = FALSE]
  /\ pc' = [pc EXCEPT ![t] = IF refCount = 1 THEN "unregister" ELSE "idle"]
  /\ UNCHANGED <<lock, owner, live, registered, newdev, tdev, stale, faults>>

(* Seeded fault: the device is freed before it is unregistered.            *)
CloseUnregisterFreeFirst(t) ==
  /\ Running
  /\ pc[t] = "unregister"
  /\ owner \in live
  /\ live' = live \ {owner}
  /\ stale' = [u \in Threads |-> stale[u] \/ tdev[u] = owner]
  /\ pc' = [pc EXCEPT ![t] = "free"]
  /\ UNCHANGED <<lock, owner, registered, refCount, opened, newdev, tdev,
                 faults>>

(* rt_device_unregister(&bus->owner->parent), without bus->lock: through  *)
(* NULL, or on a device no longer registered (its object type is cleared  *)
(* and the RT_ASSERT on it fails), it faults.  bus->owner is never a freed *)
(* block: the only free clears it in the same step.                        *)
CloseUnregister(t) ==
  /\ Running
  /\ pc[t] = "unregister"
  /\ \/ /\ owner = NULL
        /\ Fault("null_owner")
     \/ /\ owner \in live \ registered
        /\ Fault("bad_unregister")
     \/ /\ owner \in registered
        /\ registered' = registered \ {owner}
        /\ pc' = [pc EXCEPT ![t] = "free"]
        /\ UNCHANGED <<lock, owner, live, refCount, opened, newdev, tdev,
                       stale, faults>>

(* Seeded fault: bus->owner is cleared but never freed.                    *)
CloseFreeNoFree(t) ==
  /\ Running
  /\ pc[t] = "free"
  /\ owner' = NULL
  /\ pc' = [pc EXCEPT ![t] = "idle"]
  /\ UNCHANGED <<lock, live, registered, refCount, opened, newdev, tdev,
                 stale, faults>>

(* rt_free(bus->owner); bus->owner = NULL.  rt_free(RT_NULL) does nothing; *)
(* every pointer to the block that a transfer holds becomes stale.         *)
CloseFree(t) ==
  /\ Running
  /\ pc[t] = "free"
  /\ live' = live \ {owner}
  /\ stale' = [u \in Threads |-> stale[u] \/ (owner # NULL /\ tdev[u] = owner)]
  /\ owner' = NULL
  /\ pc' = [pc EXCEPT ![t] = "idle"]
  /\ UNCHANGED <<lock, registered, refCount, opened, newdev, tdev, faults>>

(* _spi_bus_device_read/write/control on an opened bus:                    *)
(* RT_ASSERT(bus->owner != RT_NULL), then the owner pointer is passed on.  *)
BusTransfer(t) ==
  /\ Running
  /\ pc[t] = "idle"
  /\ opened[t]
  /\ \/ /\ owner = NULL
        /\ Fault("null_owner")
     \/ /\ owner # NULL
        /\ tdev' = [tdev EXCEPT ![t] = owner]
        /\ stale' = [stale EXCEPT ![t] = owner \notin live]
        /\ pc' = [pc EXCEPT ![t] = "xfer"]
        /\ UNCHANGED <<lock, owner, live, registered, refCount, opened,
                       newdev, faults>>

(* rt_device_find("<bus>_dev") and _spidev_device_read/write on it: the   *)
(* child device pointer is used without any reference on the bus.          *)
SpidevTransfer(t) ==
  /\ Running
  /\ pc[t] = "idle"
  /\ \E d \in registered :
       /\ tdev' = [tdev EXCEPT ![t] = d]
       /\ stale' = [stale EXCEPT ![t] = FALSE]
  /\ pc' = [pc EXCEPT ![t] = "xfer"]
  /\ UNCHANGED <<lock, owner, live, registered, refCount, opened, newdev,
                 faults>>

(* rt_spi_transfer(device, ...) dereferences the pointer read before.      *)
Transfer(t) ==
  /\ Running
  /\ pc[t] = "xfer"
  /\ \/ /\ stale[t]
        /\ Fault("use_after_free")
     \/ /\ ~stale[t]
        /\ tdev' = [tdev EXCEPT ![t] = NULL]
        /\ pc' = [pc EXCEPT ![t] = "idle"]
        /\ UNCHANGED <<lock, owner, live, registered, refCount, opened,
                       newdev, stale, faults>>

Next ==
  \E t \in Threads :
    \/ OpenCall(t) \/ OpenLock(t) \/ OpenCheck(t) \/ OpenAlloc(t) \/ OpenSetOwner(t)
    \/ OpenRelease(t)
    \/ Close(t) \/ CloseUnregister(t) \/ CloseFree(t)
    \/ BusTransfer(t) \/ SpidevTransfer(t) \/ Transfer(t)

(* rt_mutex_take hands a released mutex to a waiter, and a thread inside  *)
(* the driver runs on: every step of an open in progress is fair.          *)
OpenSteps(t) ==
  OpenCheck(t) \/ OpenAlloc(t) \/ OpenSetOwner(t) \/ OpenRelease(t)

Fairness ==
  \A t \in Threads : /\ SF_vars(OpenLock(t))
                     /\ WF_vars(OpenSteps(t))

Spec == Init /\ [][Next]_vars /\ Fairness

-----------------------------------------------------------------------------
(* Properties.                                                             *)

PcStates == {"idle", "lock", "check", "alloc", "setowner", "exit", "unregister",
             "free", "xfer"}

TypeOK ==
  /\ lock \in Threads \cup {NoOne}
  /\ owner \in Devs \cup {NULL}
  /\ live \subseteq Devs
  /\ registered \subseteq Devs
  /\ refCount \in Nat
  /\ opened \in [Threads -> BOOLEAN]
  /\ pc \in [Threads -> PcStates]
  /\ newdev \in [Threads -> Devs \cup {NULL}]
  /\ tdev \in [Threads -> Devs \cup {NULL}]
  /\ stale \in [Threads -> BOOLEAN]
  /\ faults \subseteq FaultKinds

(* The kernel's device list never holds a freed rt_spi_device: close      *)
(* unregisters "<bus>_dev" before it frees bus->owner, whatever opens,     *)
(* closes and transfers of other threads run in between.                   *)
NoFreedRegistered == registered \subseteq live

(* No rt_spi_device leaks: every allocated block is bus->owner, or the    *)
(* device an open has attached and is about to make the owner.             *)
NoLeak ==
  \A d \in live : d = owner \/ \E t \in Threads : pc[t] = "setowner" /\ newdev[t] = d

(* Every open of the bus returns: bus->lock is released on every path of  *)
(* _spi_bus_device_open, so a thread waiting for it gets it (unless the   *)
(* system has stopped on a fault).                                         *)
OpenReturns ==
  \A t \in Threads : pc[t] = "lock" ~> (pc[t] = "idle" \/ ~Running)

(* No operation of the bus glue dereferences a NULL or freed bus->owner,  *)
(* and no transfer uses a freed child device.                              *)
NoBadOwnerUse == faults = {}

=============================================================================
