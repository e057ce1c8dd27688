-------------------------- MODULE PdmaMemoryProofs --------------------------
(***************************************************************************)
(* No descriptor chain of the PDMA driver model leaks.  k_pdma_llt_free    *)
(* runs unprotected in the client (read ch_llt_saddr, test                 *)
(* g_pdma_alloc_page, rt_pages_free, clear the flag) and atomically in the *)
(* interrupt handler, so a chain can be freed twice and a block freed      *)
(* under the channel it was handed to next (the pdma_free_race runs).      *)
(* Those frees only return blocks early; what is proved here is that no    *)
(* block stays allocated once no channel will ever free it, for every set  *)
(* of channels, events and lengths and every number of page blocks, in a   *)
(* build where PV_OFFSET is 0 and with clients that free their last chain  *)
(* before they configure their channel again.                              *)
(***************************************************************************)
EXTENDS PdmaProofs

USE PdmaAssumption

(* The conditions of the MCPdma run: physical and virtual addresses agree *)
(* and each client frees its chain before reconfiguring.                  *)
LeakHyp == PvOffset = 0 /\ CarefulClient

(* The steps of k_pdma_config before pdma_llt_cal has returned.            *)
Configuring == {"drain", "lock", "read", "write", "clear", "cal"}

(* The steps of k_pdma_config after the ch_status wait.                    *)
Drained == {"lock", "read", "write", "clear", "cal", "saddr"}

(* The steps of the client's k_pdma_llt_free after llt_list was read.      *)
Freeing == {"fread", "ffree", "fclear"}

(* The chain of channel c: the block pdma_llt_cal returned, until          *)
(* ConfigSaddr stores it in ch_llt_saddr.                                  *)
Chain(c) == IF pc[c] = "saddr" THEN llt[c] ELSE saddr[c]

(* Channel c will still free block b: its flag is set, b is its chain,     *)
(* and its client is not past rt_pages_free with only the flag to clear.  *)
Holds(c, b) == allocPage[c] /\ Chain(c) = b /\ pc[c] # "fclear"

(* Every allocated block is held by some channel.                          *)
HeapHeld == \A b \in Blocks : heap[b] > 0 => \E c \in Channels : Holds(c, b)

(* The strengthening of NoLeak.  A configuring client owes no chain; past *)
(* the ch_status wait its channel is idle, and from its status clear to    *)
(* ch_llt_saddr no done bit of it is pending, so the interrupt handler     *)
(* frees a channel's chain only through ch_llt_saddr; the client's free    *)
(* works on the ch_llt_saddr it read; and every allocated block is held.   *)
LeakInv ==
  /\ TypeOK
  /\ \A c \in Clients : pc[c] \in Configuring => ~allocPage[c]
  /\ \A c \in Clients : pc[c] \in Drained => ~busy[c]
  /\ \A c \in Clients : pc[c] \in {"cal", "saddr"} => <<"done", c>> \notin intStat
  /\ \A c \in Clients : pc[c] \in Freeing => fptr[c] = saddr[c]
  /\ HeapHeld

-----------------------------------------------------------------------------
(* Lemmas.                                                                 *)

(* k_pdma_llt_free for channels none of which owns a chain changes        *)
(* nothing: the free is gated by g_pdma_alloc_page.                        *)
LEMMA LltFreeNoOwner ==
  ASSUME TypeOK, NEW S \in SUBSET Channels, \A c \in S : ~allocPage[c], LltFree(S)
  PROVE  heap' = heap /\ badFree' = badFree /\ allocPage' = allocPage
<1>1. {c \in S : allocPage[c]} = {}
  OBVIOUS
<1>2. heap' = heap /\ allocPage' = allocPage
  BY <1>1 DEF LltFree, TypeOK
<1>3. badFree' = badFree
  BY <1>1, Zenon DEF LltFree, TypeOK
<1>4. QED
  BY <1>2, <1>3

(* The interrupt handler's k_pdma_llt_free of channels none of which is   *)
(* between pdma_llt_cal and ch_llt_saddr keeps every block held: it frees  *)
(* the block at ch_llt_saddr of each channel it clears the flag of.        *)
LEMMA LltFreeKeepsHeld ==
  ASSUME TypeOK, HeapHeld, NEW S \in SUBSET Channels,
         \A c \in S : pc[c] # "saddr", LltFree(S), UNCHANGED <<pc, saddr, llt>>
  PROVE  HeapHeld'
<1> DEFINE owed == {c \in S : allocPage[c]}
<1>1. /\ heap' = [b \in Blocks |-> IF \E c \in owed : saddr[c] = b THEN 0 ELSE heap[b]]
      /\ allocPage' = [c \in Channels |-> IF c \in owed THEN FALSE ELSE allocPage[c]]
  BY DEF LltFree, owed
<1> SUFFICES ASSUME NEW b \in Blocks, heap'[b] > 0
             PROVE  \E c \in Channels : Holds(c, b)'
  BY DEF HeapHeld
<1>2. heap[b] > 0 /\ \A d \in owed : saddr[d] # b
  BY <1>1
<1>3. PICK c \in Channels : Holds(c, b)
  BY <1>2 DEF HeapHeld
<1>4. c \notin owed
  BY <1>2, <1>3 DEF Holds, Chain, owed
<1>5. Holds(c, b)'
  BY <1>1, <1>3, <1>4 DEF Holds, Chain
<1>6. QED
  BY <1>5

(* A step that leaves the heap alone and keeps every holder keeps every   *)
(* block held.                                                             *)
LEMMA HeldFrame ==
  ASSUME HeapHeld, UNCHANGED heap,
         \A c \in Channels, b \in Blocks : Holds(c, b) => Holds(c, b)'
  PROVE  HeapHeld'
BY DEF HeapHeld

(* Before any configuration nothing is allocated and no client runs.       *)
LEMMA InitLeakInv == Init => LeakInv
<1> SUFFICES ASSUME Init PROVE LeakInv
  OBVIOUS
<1>1. TypeOK
  BY InitTypeOK
<1>2. /\ \A c \in Clients : pc[c] = "idle"
      /\ \A b \in Blocks : heap[b] = 0
  BY DEF Init, Clients
<1>3. QED
  BY <1>1, <1>2 DEF LeakInv, HeapHeld, Configuring, Drained, Freeing

(* A step of k_pdma_config from the ch_status wait to the status clear    *)
(* moves only its client's pc and keeps LeakInv.                           *)
LEMMA ConfigFrame ==
  ASSUME LeakInv, TypeOK', NEW t \in Clients, NEW p \in {"lock", "read", "write", "clear"},
         pc[t] \in {"drain", "lock", "read", "write"}, pc' = [pc EXCEPT ![t] = p],
         ~busy[t], UNCHANGED <<intStat, busy, saddr, allocPage, heap, llt, fptr>>
  PROVE  LeakInv'
<1>1. \A c \in Channels, b \in Blocks : Holds(c, b) => Holds(c, b)'
  BY DEF Holds, Chain, LeakInv, TypeOK, Clients
<1>2. HeapHeld'
  BY <1>1, HeldFrame DEF LeakInv
<1>3. QED
  BY <1>2 DEF LeakInv, TypeOK, Configuring, Drained, Freeing

(* Under LeakHyp every step keeps LeakInv.                                 *)
LEMMA LeakInvInductive ==
  ASSUME LeakHyp
  PROVE  LeakInv /\ [Next]_vars => LeakInv'
<1> SUFFICES ASSUME LeakInv, [Next]_vars PROVE LeakInv'
  OBVIOUS
<1>0. TypeOK'
  BY TypeOKInductive DEF LeakInv
<1>1. ASSUME NEW t \in Clients, NEW L \in Lengths, ConfigStop(t, L) PROVE LeakInv'
  <2>1. pc[t] = "idle" /\ ~allocPage[t] /\ pc' = [pc EXCEPT ![t] = "drain"]
        /\ UNCHANGED <<intStat, busy, saddr, allocPage, heap, llt, fptr>>
    BY <1>1 DEF ConfigStop, LeakHyp
  <2>2. \A c \in Channels, b \in Blocks : Holds(c, b) => Holds(c, b)'
    BY <2>1 DEF Holds, Chain, LeakInv, TypeOK, Clients
  <2>3. HeapHeld'
    BY <2>1, <2>2, HeldFrame DEF LeakInv
  <2>4. QED
    BY <1>0, <2>1, <2>3 DEF LeakInv, TypeOK, Configuring, Drained, Freeing
<1>2. ASSUME NEW t \in Clients, ConfigDrain(t) PROVE LeakInv'
  BY <1>0, <1>2, ConfigFrame DEF ConfigDrain
<1>3. ASSUME NEW t \in Clients, EnLock(t) PROVE LeakInv'
  BY <1>0, <1>3, ConfigFrame DEF EnLock, LeakInv, Drained
<1>4. ASSUME NEW t \in Clients, EnRead(t) PROVE LeakInv'
  BY <1>0, <1>4, ConfigFrame DEF EnRead, LeakInv, Drained
<1>5. ASSUME NEW t \in Clients, EnWrite(t) PROVE LeakInv'
  BY <1>0, <1>5, ConfigFrame DEF EnWrite, LeakInv, Drained
<1>6. ASSUME NEW t \in Clients, ConfigClear(t) PROVE LeakInv'
  <2>1. pc[t] = "clear" /\ ~allocPage[t]
    BY <1>6 DEF ConfigClear, LeakInv, Configuring
  <2>2. UNCHANGED <<heap, allocPage>>
    <3>1. CASE Events = {"done"}
      <4>1. {t} \in SUBSET Channels /\ LltFree({t})
        BY <1>6, <3>1 DEF ConfigClear, KPdmaIntClear, Clients
      <4>2. QED
        BY <2>1, <4>1, LltFreeNoOwner DEF LeakInv
    <3>2. CASE Events # {"done"}
      BY <1>6, <3>2 DEF ConfigClear, KPdmaIntClear
    <3>3. QED
      BY <3>1, <3>2
  <2>3. /\ pc' = [pc EXCEPT ![t] = "cal"]
        /\ intStat' = intStat \ (Events \X {t})
        /\ UNCHANGED <<busy, saddr, llt, fptr>>
    BY <1>6 DEF ConfigClear, KPdmaIntClear
  <2>4. \A c \in Channels, b \in Blocks : Holds(c, b) => Holds(c, b)'
    BY <2>1, <2>2, <2>3 DEF Holds, Chain, LeakInv, TypeOK, Clients
  <2>5. HeapHeld'
    BY <2>2, <2>4, HeldFrame DEF LeakInv
  <2>6. <<"done", t>> \notin intStat'
    BY <2>3, PdmaAssumption
  <2>7. QED
    BY <1>0, <2>1, <2>2, <2>3, <2>5, <2>6 DEF LeakInv, TypeOK, Configuring, Drained, Freeing
<1>7. ASSUME NEW t \in Clients, LltCalStep(t) PROVE LeakInv'
  <2>1. pc[t] = "cal" /\ ~allocPage[t] /\ ~busy[t] /\ <<"done", t>> \notin intStat
    BY <1>7 DEF LltCalStep, LeakInv, Configuring, Drained
  <2>2. /\ allocPage' = [allocPage EXCEPT ![t] = TRUE]
        /\ UNCHANGED <<intStat, busy, saddr, fptr>>
    BY <1>7 DEF LltCalStep
  <2>3. CASE \E b \in Blocks : heap[b] = 0
    <3> DEFINE fb == CHOOSE b \in Blocks : heap[b] = 0
    <3>1. fb \in Blocks /\ heap[fb] = 0
      BY <2>3
    <3>2. /\ heap' = [heap EXCEPT ![fb] = NodeCount(req[t])]
          /\ llt' = [llt EXCEPT ![t] = fb + PvOffset]
          /\ pc' = [pc EXCEPT ![t] = "saddr"]
      BY <1>7, <2>3, Zenon DEF LltCalStep
    <3> HIDE DEF fb
    <3>6. fb + PvOffset = fb
      BY <3>1 DEF LeakHyp, Blocks
    <3>3. ASSUME NEW b \in Blocks, b = fb PROVE Holds(t, b)'
      BY <2>2, <3>2, <3>3, <3>6 DEF Holds, Chain, LeakInv, TypeOK, Clients
    <3>4. ASSUME NEW c \in Channels, NEW b \in Blocks, Holds(c, b) PROVE Holds(c, b)'
      <4>1. c # t
        BY <2>1, <3>4 DEF Holds
      <4>2. QED
        BY <2>2, <3>2, <3>6, <3>4, <4>1 DEF Holds, Chain, LeakInv, TypeOK, Clients
    <3>5. HeapHeld'
      <4> SUFFICES ASSUME NEW b \in Blocks, heap'[b] > 0
                   PROVE  \E c \in Channels : Holds(c, b)'
        BY DEF HeapHeld
      <4>1. CASE b = fb
        <5>1. Holds(t, b)'
          BY <3>3, <4>1
        <5>2. QED
          BY <5>1 DEF Clients
      <4>2. CASE b # fb
        <5>1. heap[b] > 0
          BY <3>2, <4>2 DEF LeakInv, TypeOK
        <5>2. PICK c \in Channels : Holds(c, b)
          BY <5>1 DEF LeakInv, HeapHeld
        <5>3. QED
          BY <3>4, <5>2
      <4>3. QED
        BY <4>1, <4>2
    <3>7. QED
      BY <1>0, <2>1, <2>2, <3>2, <3>5 DEF LeakInv, TypeOK, Configuring, Drained, Freeing
  <2>4. CASE ~\E b \in Blocks : heap[b] = 0
    <3>1. /\ pc' = [pc EXCEPT ![t] = "fault"]
          /\ UNCHANGED <<heap, llt>>
      BY <1>7, <2>4 DEF LltCalStep
    <3>2. \A c \in Channels, b \in Blocks : Holds(c, b) => Holds(c, b)'
      BY <2>1, <2>2, <3>1 DEF Holds, Chain, LeakInv, TypeOK, Clients
    <3>3. HeapHeld'
      BY <3>1, <3>2, HeldFrame DEF LeakInv
    <3>4. QED
      BY <1>0, <2>1, <2>2, <3>1, <3>3 DEF LeakInv, TypeOK, Configuring, Drained, Freeing
  <2>5. QED
    BY <2>3, <2>4
<1>8. ASSUME NEW t \in Clients, ConfigSaddr(t) PROVE LeakInv'
  <2>1. /\ pc[t] = "saddr" /\ pc' = [pc EXCEPT ![t] = "idle"]
        /\ saddr' = [saddr EXCEPT ![t] = llt[t]]
        /\ UNCHANGED <<intStat, busy, allocPage, heap, llt, fptr>>
    BY <1>8 DEF ConfigSaddr
  <2>2. \A c \in Channels, b \in Blocks : Holds(c, b) => Holds(c, b)'
    BY <2>1 DEF Holds, Chain, LeakInv, TypeOK, Clients
  <2>3. HeapHeld'
    BY <2>1, <2>2, HeldFrame DEF LeakInv
  <2>4. QED
    BY <1>0, <2>1, <2>3 DEF LeakInv, TypeOK, Configuring, Drained, Freeing
<1>9. ASSUME NEW t \in Clients, KPdmaStart(t) \/ KPdmaStop(t) PROVE LeakInv'
  <2>1. /\ pc[t] = "idle" /\ \A c \in Channels : c # t => busy'[c] = busy[c]
        /\ UNCHANGED <<intStat, pc, saddr, allocPage, heap, llt, fptr>>
    BY <1>9 DEF KPdmaStart, KPdmaStop, LeakInv, TypeOK
  <2>2. HeapHeld'
    BY <2>1, HeldFrame DEF LeakInv, Holds, Chain
  <2>3. QED
    BY <1>0, <2>1, <2>2 DEF LeakInv, TypeOK, Drained, Clients
<1>10. ASSUME NEW t \in Clients, FreeRead(t) PROVE LeakInv'
  <2>1. /\ pc[t] = "idle" /\ pc' = [pc EXCEPT ![t] = "fread"]
        /\ fptr' = [fptr EXCEPT ![t] = saddr[t]]
        /\ UNCHANGED <<intStat, busy, saddr, allocPage, heap, llt>>
    BY <1>10 DEF FreeRead
  <2>2. \A c \in Channels, b \in Blocks : Holds(c, b) => Holds(c, b)'
    BY <2>1 DEF Holds, Chain, LeakInv, TypeOK, Clients
  <2>3. HeapHeld'
    BY <2>1, <2>2, HeldFrame DEF LeakInv
  <2>4. QED
    BY <1>0, <2>1, <2>3 DEF LeakInv, TypeOK, Configuring, Drained, Freeing
<1>11. ASSUME NEW t \in Clients, FreeTest(t) PROVE LeakInv'
  <2>1. /\ pc[t] = "fread" /\ pc' = [pc EXCEPT ![t] = IF allocPage[t] THEN "ffree" ELSE "idle"]
        /\ UNCHANGED <<intStat, busy, saddr, allocPage, heap, llt, fptr>>
    BY <1>11 DEF FreeTest
  <2>2. \A c \in Channels, b \in Blocks : Holds(c, b) => Holds(c, b)'
    BY <2>1 DEF Holds, Chain, LeakInv, TypeOK, Clients
  <2>3. HeapHeld'
    BY <2>1, <2>2, HeldFrame DEF LeakInv
  <2>4. QED
    BY <1>0, <2>1, <2>3 DEF LeakInv, TypeOK, Configuring, Drained, Freeing
<1>12. ASSUME NEW t \in Clients, FreePages(t) PROVE LeakInv'
  <2>1. /\ pc[t] = "ffree" /\ pc' = [pc EXCEPT ![t] = "fclear"]
        /\ heap' = [b \in Blocks |-> IF b = fptr[t] THEN 0 ELSE heap[b]]
        /\ UNCHANGED <<intStat, busy, saddr, allocPage, llt, fptr>>
    BY <1>12 DEF FreePages
  <2>2. fptr[t] = saddr[t] /\ Chain(t) = saddr[t]
    BY <2>1 DEF LeakInv, Freeing, Chain
  <2>3. HeapHeld'
    <3> SUFFICES ASSUME NEW b \in Blocks, heap'[b] > 0
                 PROVE  \E c \in Channels : Holds(c, b)'
      BY DEF HeapHeld
    <3>1. b # fptr[t] /\ heap[b] > 0
      BY <2>1
    <3>2. PICK c \in Channels : Holds(c, b)
      BY <3>1 DEF LeakInv, HeapHeld
    <3>3. c # t
      BY <2>2, <3>1, <3>2 DEF Holds
    <3>4. Holds(c, b)'
      BY <2>1, <3>2, <3>3 DEF Holds, Chain, LeakInv, TypeOK, Clients
    <3>5. QED
      BY <3>4
  <2>4. QED
    BY <1>0, <2>1, <2>3 DEF LeakInv, TypeOK, Configuring, Drained, Freeing
<1>13. ASSUME NEW t \in Clients, FreeClear(t) PROVE LeakInv'
  <2>1. /\ pc[t] = "fclear" /\ pc' = [pc EXCEPT ![t] = "idle"]
        /\ allocPage' = [allocPage EXCEPT ![t] = FALSE]
        /\ UNCHANGED <<intStat, busy, saddr, heap, llt, fptr>>
    BY <1>13 DEF FreeClear
  <2>2. \A c \in Channels, b \in Blocks : Holds(c, b) => Holds(c, b)'
    BY <2>1 DEF Holds, Chain, LeakInv, TypeOK, Clients
  <2>3. HeapHeld'
    BY <2>1, <2>2, HeldFrame DEF LeakInv
  <2>4. QED
    BY <1>0, <2>1, <2>3 DEF LeakInv, TypeOK, Configuring, Drained, Freeing
<1>14. ASSUME NEW clear \in SUBSET (Events \X Channels), KPdmaIntClearAll(clear)
       PROVE LeakInv'
  <2> DEFINE S == {c \in Channels : <<"done", c>> \in intStat}
  <2>1. /\ LltFree(S) /\ intStat' = intStat \ clear
        /\ UNCHANGED <<busy, pc, saddr, llt, fptr>>
    BY <1>14 DEF KPdmaIntClearAll
  <2>2. \A c \in S : pc[c] # "saddr"
    BY DEF LeakInv, Clients
  <2>3. HeapHeld'
    BY <2>1, <2>2, LltFreeKeepsHeld DEF LeakInv
  <2>4. \A c \in Channels : allocPage'[c] => allocPage[c]
    BY <2>1 DEF LltFree, LeakInv, TypeOK
  <2>5. QED
    BY <1>0, <2>1, <2>3, <2>4 DEF LeakInv, TypeOK, Configuring, Drained, Freeing, Clients
<1>15. ASSUME NEW ch \in Channels, IsrIntClear(ch) PROVE LeakInv'
  <2>1. /\ <<"done", ch>> \in intStat /\ LltFree({ch}) /\ intStat' \subseteq intStat
        /\ UNCHANGED <<busy, pc, saddr, llt, fptr>>
    BY <1>15 DEF IsrIntClear, KPdmaIntClear
  <2>2. \A c \in {ch} : pc[c] # "saddr"
    BY <2>1 DEF LeakInv, Clients
  <2>3. HeapHeld'
    BY <2>1, <2>2, LltFreeKeepsHeld DEF LeakInv
  <2>4. \A c \in Channels : allocPage'[c] => allocPage[c]
    BY <2>1 DEF LltFree, LeakInv, TypeOK
  <2>5. QED
    BY <1>0, <2>1, <2>3, <2>4 DEF LeakInv, TypeOK, Configuring, Drained, Freeing, Clients
<1>16. ASSUME NEW c \in Channels, HwDone(c) \/ HwStop(c) PROVE LeakInv'
  <2>1. /\ busy[c] /\ \A d \in Channels : busy'[d] => busy[d]
        /\ intStat' \subseteq intStat \cup (Events \X {c})
        /\ UNCHANGED <<pc, saddr, allocPage, heap, llt, fptr>>
    BY <1>16 DEF HwDone, HwStop, LeakInv, TypeOK
  <2>2. pc[c] \notin {"cal", "saddr"}
    BY <2>1 DEF LeakInv, Drained, Clients
  <2>3. HeapHeld'
    BY <2>1, HeldFrame DEF LeakInv, Holds, Chain
  <2>4. QED
    BY <1>0, <2>1, <2>2, <2>3 DEF LeakInv, TypeOK, Configuring, Drained, Freeing, Clients
<1>17. CASE UNCHANGED vars
  BY <1>17 DEF vars, LeakInv, HeapHeld, Holds, Chain, TypeOK, Configuring, Drained, Freeing
<1>18. QED
  BY <1>1, <1>2, <1>3, <1>4, <1>5, <1>6, <1>7, <1>8, <1>9, <1>10, <1>11, <1>12,
     <1>13, <1>14, <1>15, <1>16, <1>17 DEF Next, ConfigStep, ClientLltFree

-----------------------------------------------------------------------------
(* From the inductive invariant to the property the pdma run checks.       *)

(* A held block is ch_llt_saddr of its channel, or the chain pdma_llt_cal *)
(* has just returned to a client about to store it.                        *)
LEMMA LeakInvNoLeak == LeakInv => NoLeak
<1> SUFFICES ASSUME LeakInv, NEW b \in Blocks, heap[b] > 0
             PROVE \/ \E c \in Channels : allocPage[c] /\ saddr[c] = b
                   \/ \E t \in Clients : pc[t] = "saddr" /\ llt[t] = b
  BY DEF NoLeak
<1>1. PICK c \in Channels : Holds(c, b)
  BY DEF LeakInv, HeapHeld
<1>2. CASE pc[c] = "saddr"
  BY <1>1, <1>2 DEF Holds, Chain, Clients
<1>3. CASE pc[c] # "saddr"
  BY <1>1, <1>3 DEF Holds, Chain
<1>4. QED
  BY <1>2, <1>3

(* With PV_OFFSET 0 and clients that free their chain before they         *)
(* reconfigure, for any number of channels and page blocks, no chain      *)
(* pdma_llt_cal allocates leaks, although the client's k_pdma_llt_free    *)
(* and the interrupt handler's can free the same chain: every allocated   *)
(* block is still owed a free by its channel or is about to be installed. *)
THEOREM NoLeakHolds == ASSUME LeakHyp PROVE Spec => []NoLeak
<1>1. Init => LeakInv
  BY InitLeakInv
<1>2. LeakInv /\ [Next]_vars => LeakInv'
  BY LeakInvInductive
<1>3. LeakInv => NoLeak
  BY LeakInvNoLeak
<1>4. QED
  BY <1>1, <1>2, <1>3, PTL DEF Spec
=============================================================================
