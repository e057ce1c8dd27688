------------------------------ MODULE SpiProofs ------------------------------
(***************************************************************************)
(* Proofs about the SPI bus glue model, for every set of threads and of   *)
(* heap blocks that satisfies SpiAssumption.                               *)
(***************************************************************************)
EXTENDS Spi, FiniteSetTheorems, TLAPS

USE SpiAssumption

(* The threads whose rt_device_open of the bus has returned.               *)
Openers == {t \in Threads : opened[t]}

(* The steps of _spi_bus_device_open between the mutex take and release.  *)
Locked == {"check", "alloc", "setowner", "exit"}

(* The strengthening of NoFreedRegistered and NoLeak.  ref_count counts   *)
(* the openers; only the holder of bus->lock is inside open; while an     *)
(* open allocates, bus->owner is NULL and a device it attached is the one  *)
(* registered; a close about to free holds the one owner, already          *)
(* unregistered, and no other close is at that point.                      *)
SpiInv ==
  /\ TypeOK
  /\ refCount = Cardinality(Openers)
  /\ \A t \in Threads : pc[t] \in Locked \cup {"lock"} => ~opened[t]
  /\ \A t \in Threads : pc[t] \in Locked => lock = t
  /\ \A t \in Threads : pc[t] \in {"alloc", "setowner"} => owner = NULL
  /\ \A t \in Threads : pc[t] = "setowner" => newdev[t] \in registered
  /\ \A t \in Threads : pc[t] = "free" => owner \in live \ registered
  /\ \A t, u \in Threads : pc[t] = "free" /\ pc[u] = "free" => t = u
  /\ owner # NULL => owner \in live
  /\ NoFreedRegistered
  /\ NoLeak

(* The openers are a finite set, since the threads are.                    *)
LEMMA OpenersFinite == IsFiniteSet(Openers)
BY FS_Subset DEF Openers

(* rt_spi_bus_device_init leaves no owner, no device and no opener.        *)
LEMMA InitSpiInv == Init => SpiInv
<1> SUFFICES ASSUME Init PROVE SpiInv
  OBVIOUS
<1>1. Openers = {}
  BY DEF Init, Openers
<1>2. refCount = Cardinality(Openers)
  BY <1>1, FS_EmptySet DEF Init
<1>3. QED
  BY <1>2 DEF Init, SpiInv, TypeOK, NoFreedRegistered, NoLeak, Locked, PcStates

(* A step of thread t that leaves opened unchanged keeps the count.        *)
LEMMA CountKept ==
  ASSUME SpiInv, opened' = opened, refCount' = refCount
  PROVE  refCount' = Cardinality(Openers')
BY DEF SpiInv, Openers

(* A step that stops the system on a fault changes nothing else.          *)
LEMMA FaultKeeps ==
  ASSUME SpiInv, NEW k \in FaultKinds, Fault(k)
  PROVE  SpiInv'
<1>1. refCount' = Cardinality(Openers')
  BY CountKept DEF Fault
<1>2. QED
  BY <1>1 DEF Fault, SpiInv, TypeOK, NoFreedRegistered, NoLeak

(* Every step keeps SpiInv.                                                *)
LEMMA SpiInvInductive == SpiInv /\ [Next]_vars => SpiInv'
<1> SUFFICES ASSUME SpiInv, [Next]_vars PROVE SpiInv'
  OBVIOUS
<1>1. ASSUME NEW t \in Threads, OpenCall(t) PROVE SpiInv'
  <2>1. refCount' = Cardinality(Openers')
    BY <1>1, CountKept DEF OpenCall
  <2>2. QED
    BY <1>1, <2>1 DEF OpenCall, SpiInv, TypeOK, NoFreedRegistered, NoLeak, Locked, PcStates
<1>2. ASSUME NEW t \in Threads, OpenLock(t) PROVE SpiInv'
  <2>1. refCount' = Cardinality(Openers')
    BY <1>2, CountKept DEF OpenLock
  <2>2. QED
    BY <1>2, <2>1, SpiAssumption DEF OpenLock, SpiInv, TypeOK, NoFreedRegistered, NoLeak, Locked, PcStates
<1>3. ASSUME NEW t \in Threads, OpenCheck(t) PROVE SpiInv'
  <2>1. refCount' = Cardinality(Openers')
    BY <1>3, CountKept DEF OpenCheck
  <2>2. QED
    BY <1>3, <2>1 DEF OpenCheck, SpiInv, TypeOK, NoFreedRegistered, NoLeak, Locked, PcStates
<1>4. ASSUME NEW t \in Threads, OpenAlloc(t) PROVE SpiInv'
  <2>1. refCount' = Cardinality(Openers')
    BY <1>4, CountKept DEF OpenAlloc
  <2>2. QED
    BY <1>4, <2>1, SpiAssumption DEF OpenAlloc, AttachDevice, SpiInv, TypeOK, NoFreedRegistered, NoLeak, Locked, PcStates
<1>5. ASSUME NEW t \in Threads, OpenSetOwner(t) PROVE SpiInv'
  <2>1. refCount' = Cardinality(Openers')
    BY <1>5, CountKept DEF OpenSetOwner
  <2>2. QED
    BY <1>5, <2>1 DEF OpenSetOwner, SpiInv, TypeOK, NoFreedRegistered, NoLeak, Locked, PcStates
<1>6. ASSUME NEW t \in Threads, OpenRelease(t) PROVE SpiInv'
  <2>1. Openers' = Openers \cup {t} /\ t \notin Openers
    BY <1>6 DEF OpenRelease, SpiInv, TypeOK, Openers, Locked
  <2>2. refCount' = Cardinality(Openers')
    BY <1>6, <2>1, OpenersFinite, FS_AddElement DEF OpenRelease, SpiInv
  <2>3. QED
    BY <1>6, <2>2 DEF OpenRelease, SpiInv, TypeOK, NoFreedRegistered, NoLeak, Locked, PcStates
<1>7. ASSUME NEW t \in Threads, Close(t) PROVE SpiInv'
  <2>1. Openers' = Openers \ {t} /\ t \in Openers
    BY <1>7 DEF Close, SpiInv, TypeOK, Openers
  <2>2. IsFiniteSet(Openers') /\ Cardinality(Openers') = Cardinality(Openers) - 1
    BY <2>1, OpenersFinite, FS_RemoveElement
  <2>3. Cardinality(Openers') \in Nat
    BY <2>2, FS_CardinalityType
  <2>4. refCount' = Cardinality(Openers') /\ refCount' \in Nat
    BY <1>7, <2>2, <2>3 DEF Close, SpiInv
  <2>5. QED
    BY <1>7, <2>4 DEF Close, SpiInv, TypeOK, NoFreedRegistered, NoLeak, Locked, PcStates
<1>8. ASSUME NEW t \in Threads, CloseUnregister(t) PROVE SpiInv'
  <2>1. CASE owner = NULL \/ owner \in live \ registered
    BY <1>8, <2>1, FaultKeeps DEF CloseUnregister, FaultKinds, SpiInv, TypeOK, NoFreedRegistered
  <2>2. CASE owner \in registered
    <3>0. /\ registered' = registered \ {owner}
          /\ pc' = [pc EXCEPT ![t] = "free"]
          /\ UNCHANGED <<lock, owner, live, refCount, opened, newdev, tdev,
                         stale, faults>>
      BY <1>8, <2>2, SpiAssumption DEF CloseUnregister, Fault, SpiInv, TypeOK, NoFreedRegistered
    <3>1. refCount' = Cardinality(Openers')
      BY <3>0, CountKept
    <3>2. TypeOK'
      BY <3>0, <2>2 DEF SpiInv, TypeOK, PcStates
    <3>3. \A u \in Threads : pc'[u] \in Locked \cup {"lock"} => ~opened'[u]
      BY <3>0, <2>2 DEF SpiInv, TypeOK, Locked
    <3>4. \A u \in Threads : pc'[u] \in Locked => lock' = u
      BY <3>0, <2>2 DEF SpiInv, TypeOK, Locked
    <3>5. \A u \in Threads : pc'[u] \in {"alloc", "setowner"} => owner' = NULL
      BY <3>0, <2>2 DEF SpiInv, TypeOK, NoFreedRegistered
    <3>6. \A u \in Threads : pc'[u] = "setowner" => newdev'[u] \in registered'
      BY <3>0, <2>2 DEF SpiInv, TypeOK, NoFreedRegistered
    <3>7. \A u \in Threads : pc'[u] = "free" => owner' \in live' \ registered'
      BY <3>0, <2>2 DEF SpiInv, TypeOK, NoFreedRegistered
    <3>8. \A u, v \in Threads : pc'[u] = "free" /\ pc'[v] = "free" => u = v
      BY <3>0, <2>2 DEF SpiInv, TypeOK, NoFreedRegistered
    <3>9. (owner' # NULL => owner' \in live') /\ NoFreedRegistered' /\ NoLeak'
      BY <3>0, <2>2 DEF SpiInv, TypeOK, NoFreedRegistered, NoLeak
    <3>10. QED
      BY <3>1, <3>2, <3>3, <3>4, <3>5, <3>6, <3>7, <3>8, <3>9 DEF SpiInv
  <2>3. QED
    BY <1>8, <2>1, <2>2 DEF SpiInv, TypeOK, NoFreedRegistered
<1>9. ASSUME NEW t \in Threads, CloseFree(t) PROVE SpiInv'
  <2>1. refCount' = Cardinality(Openers')
    BY <1>9, CountKept DEF CloseFree
  <2>2. QED
    BY <1>9, <2>1 DEF CloseFree, SpiInv, TypeOK, NoFreedRegistered, NoLeak, Locked, PcStates
<1>10. ASSUME NEW t \in Threads, BusTransfer(t) PROVE SpiInv'
  <2>1. CASE owner = NULL
    BY <1>10, <2>1, FaultKeeps DEF BusTransfer, FaultKinds
  <2>2. CASE owner # NULL
    <3>0. /\ tdev' = [tdev EXCEPT ![t] = owner]
          /\ stale' = [stale EXCEPT ![t] = owner \notin live]
          /\ pc' = [pc EXCEPT ![t] = "xfer"]
          /\ UNCHANGED <<lock, owner, live, registered, refCount, opened,
                         newdev, faults>>
      BY <1>10, <2>2 DEF BusTransfer
    <3>1. refCount' = Cardinality(Openers')
      BY <3>0, CountKept
    <3>2. TypeOK'
      BY <3>0, <2>2 DEF SpiInv, TypeOK, PcStates
    <3>3. \A u \in Threads : pc'[u] \in Locked \cup {"lock"} => ~opened'[u]
      BY <3>0, <2>2 DEF SpiInv, TypeOK, Locked
    <3>4. \A u \in Threads : pc'[u] \in Locked => lock' = u
      BY <3>0, <2>2 DEF SpiInv, TypeOK, Locked
    <3>5. \A u \in Threads : pc'[u] \in {"alloc", "setowner"} => owner' = NULL
      BY <3>0, <2>2 DEF SpiInv, TypeOK, NoFreedRegistered
    <3>6. \A u \in Threads : pc'[u] = "setowner" => newdev'[u] \in registered'
      BY <3>0, <2>2 DEF SpiInv, TypeOK, NoFreedRegistered
    <3>7. \A u \in Threads : pc'[u] = "free" => owner' \in live' \ registered'
      BY <3>0, <2>2 DEF SpiInv, TypeOK, NoFreedRegistered
    <3>8. \A u, v \in Threads : pc'[u] = "free" /\ pc'[v] = "free" => u = v
      BY <3>0, <2>2 DEF SpiInv, TypeOK, NoFreedRegistered
    <3>9. (owner' # NULL => owner' \in live') /\ NoFreedRegistered' /\ NoLeak'
      BY <3>0, <2>2 DEF SpiInv, TypeOK, NoFreedRegistered, NoLeak
    <3>10. QED
      BY <3>1, <3>2, <3>3, <3>4, <3>5, <3>6, <3>7, <3>8, <3>9 DEF SpiInv
  <2>3. QED
    BY <1>10, <2>1, <2>2 DEF SpiInv, TypeOK, NoFreedRegistered
<1>11. ASSUME NEW t \in Threads, SpidevTransfer(t) PROVE SpiInv'
  <2>1. refCount' = Cardinality(Openers')
    BY <1>11, CountKept DEF SpidevTransfer
  <2>2. QED
    BY <1>11, <2>1 DEF SpidevTransfer, SpiInv, TypeOK, NoFreedRegistered, NoLeak, Locked, PcStates
<1>12. ASSUME NEW t \in Threads, Transfer(t) PROVE SpiInv'
  <2>1. CASE stale[t]
    BY <1>12, <2>1, FaultKeeps DEF Transfer, FaultKinds
  <2>2. CASE ~stale[t]
    <3>1. refCount' = Cardinality(Openers')
      BY <1>12, <2>2, CountKept DEF Transfer, SpiInv, NoFreedRegistered
    <3>2. QED
      BY <1>12, <2>2, <3>1 DEF Transfer, SpiInv, TypeOK, NoFreedRegistered, NoLeak, Locked, PcStates
  <2>3. QED
    BY <1>12, <2>1, <2>2 DEF Transfer, SpiInv, TypeOK, NoFreedRegistered
<1>13. CASE UNCHANGED vars
  <2>1. refCount' = Cardinality(Openers')
    BY <1>13, CountKept DEF vars
  <2>2. QED
    BY <1>13, <2>1 DEF vars, SpiInv, TypeOK, NoFreedRegistered, NoLeak, Locked
<1>14. QED
  BY <1>1, <1>2, <1>3, <1>4, <1>5, <1>6, <1>7, <1>8, <1>9, <1>10, <1>11,
     <1>12, <1>13 DEF Next

(* SpiInv holds in every state of every behaviour.                        *)
LEMMA SpiInvHolds == Spec => []SpiInv
BY InitSpiInv, SpiInvInductive, PTL DEF Spec

(* The model of open, close and the transfers keeps every variable in its *)
(* type; in particular the framework's ref_count, decremented by every     *)
(* close, never goes below zero, since it counts the threads that opened.  *)
THEOREM TypeCorrect == Spec => []TypeOK
<1>1. SpiInv => TypeOK
  BY DEF SpiInv
<1>2. QED
  BY <1>1, SpiInvHolds, PTL

(* For any number of threads and heap blocks, the kernel's device list    *)
(* never holds a freed rt_spi_device: _spi_bus_device_close unregisters    *)
(* bus->owner before rt_free, and no open or close of another thread       *)
(* registers or frees it in between.                                       *)
THEOREM NoFreedRegisteredHolds == Spec => []NoFreedRegistered
<1>1. SpiInv => NoFreedRegistered
  BY DEF SpiInv
<1>2. QED
  BY <1>1, SpiInvHolds, PTL

(* For any number of threads and heap blocks, every rt_spi_device that    *)
(* _spi_bus_device_open allocated is bus->owner or about to become it:     *)
(* the failure paths of open free or never keep their block, and close     *)
(* frees the owner it clears.                                              *)
THEOREM NoLeakHolds == Spec => []NoLeak
<1>1. SpiInv => NoLeak
  BY DEF SpiInv
<1>2. QED
  BY <1>1, SpiInvHolds, PTL

=============================================================================
