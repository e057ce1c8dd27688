----------------------------- MODULE PdmaProofs -----------------------------
(***************************************************************************)
(* Proofs about the PDMA driver model, for every set of channels, events, *)
(* lengths, line size and number of page blocks that satisfies            *)
(* PdmaAssumption.                                                         *)
(***************************************************************************)
EXTENDS Pdma, TLAPS

USE PdmaAssumption

(* The steps of pdma_ch_enable between the hardlock take and its release. *)
Enabling == {"read", "write"}

(* The strengthening of ChannelStaysEnabled when kd_request_lock          *)
(* succeeded: only the holder of the hardware lock is inside               *)
(* pdma_ch_enable, the lock is held only by such a client, and the value   *)
(* of pdma_ch_en the holder read is still the register's.                  *)
EnableInv ==
  /\ TypeOK
  /\ ChannelStaysEnabled
  /\ \A t \in Clients : pc[t] \in Enabling => lock = t
  /\ \A t \in Clients : pc[t] = "write" => rmw[t] = chEn
  /\ lock # NoOne => pc[lock] \in Enabling

(* NodeCount of a requested length, or of the 0 a client starts with, is  *)
(* a natural number.                                                       *)
LEMMA NodeCountNat ==
  ASSUME NEW L \in Lengths \cup {0}
  PROVE  NodeCount(L) \in Nat
BY DEF NodeCount

(* k_pdma_llt_free keeps the heap, the flags and badFree in their types.  *)
LEMMA LltFreeType ==
  ASSUME TypeOK, NEW S \in SUBSET Channels, LltFree(S)
  PROVE  /\ heap' \in [Blocks -> Nat]
         /\ badFree' \in BOOLEAN
         /\ allocPage' \in [Channels -> BOOLEAN]
BY DEF LltFree, TypeOK

(* k_pdma_int_clear keeps the status, heap and flags in their types.      *)
LEMMA KPdmaIntClearType ==
  ASSUME TypeOK, NEW ch \in Channels, NEW clear \in SUBSET Events,
         KPdmaIntClear(ch, clear)
  PROVE  /\ intStat' \subseteq Events \X Channels
         /\ heap' \in [Blocks -> Nat]
         /\ badFree' \in BOOLEAN
         /\ allocPage' \in [Channels -> BOOLEAN]
<1>1. intStat' \subseteq Events \X Channels
  BY DEF KPdmaIntClear, TypeOK
<1>2. CASE clear = {"done"}
  <2>1. {ch} \in SUBSET Channels /\ LltFree({ch})
    BY <1>2 DEF KPdmaIntClear
  <2>2. QED
    BY <1>1, <2>1, LltFreeType
<1>3. CASE clear # {"done"}
  BY <1>1, <1>3 DEF KPdmaIntClear, TypeOK
<1>4. QED
  BY <1>1, <1>2, <1>3

(* Before any configuration every variable has its type.                  *)
LEMMA InitTypeOK == Init => TypeOK
<1> SUFFICES ASSUME Init PROVE TypeOK
  OBVIOUS
<1>1. /\ busy \in [Channels -> BOOLEAN] /\ stopping \in [Channels -> BOOLEAN]
      /\ allocPage \in [Channels -> BOOLEAN] /\ armed \in [Clients -> BOOLEAN]
      /\ badFree \in BOOLEAN /\ nullWrite \in BOOLEAN
  BY Zenon DEF Init, Clients
<1>2. /\ saddr \in [Channels -> Nat] /\ pageSize \in [Channels -> Nat]
      /\ heap \in [Blocks -> Nat] /\ llt \in [Clients -> Nat]
      /\ req \in [Clients -> Lengths \cup {0}] /\ lock \in Clients \cup {NoOne}
      /\ fptr \in [Clients -> Nat]
  BY DEF Init, Clients, NoOne
<1>3. pc \in [Clients -> PcStates] /\ rmw \in [Clients -> SUBSET Channels]
  BY DEF Init, Clients, PcStates
<1>4. QED
  BY <1>1, <1>2, <1>3 DEF Init, TypeOK

(* Every step keeps every variable in its type.                           *)
LEMMA TypeOKInductive == TypeOK /\ [Next]_vars => TypeOK'
<1> SUFFICES ASSUME TypeOK, [Next]_vars PROVE TypeOK'
  OBVIOUS
<1>1. ASSUME NEW t \in Clients, NEW L \in Lengths, ConfigStop(t, L) PROVE TypeOK'
  BY <1>1 DEF ConfigStop, TypeOK, Clients, PcStates
<1>2. ASSUME NEW t \in Clients, ConfigDrain(t) PROVE TypeOK'
  BY <1>2 DEF ConfigDrain, TypeOK, Clients, PcStates
<1>3. ASSUME NEW t \in Clients, EnLock(t) PROVE TypeOK'
  BY <1>3 DEF EnLock, TypeOK, Clients, PcStates
<1>4. ASSUME NEW t \in Clients, EnRead(t) PROVE TypeOK'
  BY <1>4 DEF EnRead, TypeOK, Clients, PcStates
<1>5. ASSUME NEW t \in Clients, EnWrite(t) PROVE TypeOK'
  BY <1>5 DEF EnWrite, TypeOK, Clients, PcStates, NoOne
<1>6. ASSUME NEW t \in Clients, ConfigClear(t) PROVE TypeOK'
  <2>1. Events \in SUBSET Events
    OBVIOUS
  <2>2. QED
    BY <1>6, <2>1, KPdmaIntClearType DEF ConfigClear, TypeOK, Clients, PcStates
<1>7. ASSUME NEW t \in Clients, LltCalStep(t) PROVE TypeOK'
  <2>1. NodeCount(req[t]) \in Nat
    BY NodeCountNat DEF TypeOK
  <2>2. CASE \E b \in Blocks : heap[b] = 0
    <3> DEFINE b == CHOOSE b \in Blocks : heap[b] = 0
    <3>1. b \in Blocks
      BY <2>2
    <3>2. b + PvOffset \in Nat
      BY <3>1 DEF Blocks
    <3>3. heap' = [heap EXCEPT ![b] = NodeCount(req[t])] /\ llt' = [llt EXCEPT ![t] = b + PvOffset]
          /\ pc' = [pc EXCEPT ![t] = "saddr"] /\ nullWrite' = nullWrite
      BY <1>7, <2>2 DEF LltCalStep
    <3>4. heap' \in [Blocks -> Nat] /\ llt' \in [Clients -> Nat] /\ pc' \in [Clients -> PcStates]
      BY <2>1, <3>1, <3>2, <3>3 DEF TypeOK, PcStates
    <3>5. QED
      BY <1>7, <2>1, <3>3, <3>4 DEF LltCalStep, TypeOK, Clients
  <2>3. CASE ~\E b \in Blocks : heap[b] = 0
    BY <1>7, <2>1, <2>3 DEF LltCalStep, TypeOK, Clients, PcStates
  <2>4. QED
    BY <2>2, <2>3
<1>8. ASSUME NEW t \in Clients, ConfigSaddr(t) PROVE TypeOK'
  BY <1>8 DEF ConfigSaddr, TypeOK, Clients, PcStates
<1>9. ASSUME NEW t \in Clients, KPdmaStart(t) PROVE TypeOK'
  BY <1>9 DEF KPdmaStart, TypeOK, Clients
<1>10. ASSUME NEW t \in Clients, KPdmaStop(t) PROVE TypeOK'
  BY <1>10 DEF KPdmaStop, TypeOK, Clients
<1>11. ASSUME NEW t \in Clients, ClientLltFree(t) PROVE TypeOK'
  <2>1. CASE FreeRead(t)
    BY <2>1 DEF FreeRead, TypeOK, Clients, PcStates
  <2>2. CASE FreeTest(t)
    BY <2>2 DEF FreeTest, TypeOK, Clients, PcStates
  <2>3. CASE FreePages(t)
    BY <2>3 DEF FreePages, TypeOK, Clients, PcStates
  <2>4. CASE FreeClear(t)
    BY <2>4 DEF FreeClear, TypeOK, Clients, PcStates
  <2>5. QED
    BY <1>11, <2>1, <2>2, <2>3, <2>4 DEF ClientLltFree
<1>12. ASSUME NEW clear \in SUBSET (Events \X Channels), KPdmaIntClearAll(clear)
       PROVE TypeOK'
  <2>1. {c \in Channels : <<"done", c>> \in intStat} \in SUBSET Channels
    OBVIOUS
  <2>2. QED
    BY <1>12, <2>1, LltFreeType DEF KPdmaIntClearAll, TypeOK
<1>13. ASSUME NEW c \in Channels, IsrIntClear(c) PROVE TypeOK'
  <2>1. {"done"} \in SUBSET Events
    BY PdmaAssumption
  <2>2. QED
    BY <1>13, <2>1, KPdmaIntClearType DEF IsrIntClear, TypeOK
<1>14. ASSUME NEW c \in Channels, HwDone(c) PROVE TypeOK'
  BY <1>14 DEF HwDone, TypeOK
<1>15. ASSUME NEW c \in Channels, HwStop(c) PROVE TypeOK'
  BY <1>15 DEF HwStop, TypeOK
<1>16. CASE UNCHANGED vars
  BY <1>16 DEF vars, TypeOK
<1>17. QED
  BY <1>1, <1>2, <1>3, <1>4, <1>5, <1>6, <1>7, <1>8, <1>9, <1>10, <1>11,
     <1>12, <1>13, <1>14, <1>15, <1>16 DEF Next, ConfigStep

(* The model of k_pdma_config, the interrupt handler and the engine never *)
(* leaves its types: in particular pdma_llt_cal records a natural page     *)
(* count and a natural address, and every free keeps the heap sizes.       *)
THEOREM TypeCorrect == Spec => []TypeOK
BY InitTypeOK, TypeOKInductive, PTL DEF Spec

-----------------------------------------------------------------------------
(* ChannelStaysEnabled when the hardware lock was obtained.                *)

(* NoOne is no client.                                                     *)
LEMMA NoOneNotClient == NoOne \notin Clients
BY DEF NoOne, Clients

(* Before any configuration no client is enabling and the lock is free.   *)
LEMMA InitEnableInv == Init => EnableInv
<1> SUFFICES ASSUME Init PROVE EnableInv
  OBVIOUS
<1>1. TypeOK
  BY InitTypeOK
<1>2. \A t \in Clients : pc[t] = "idle" /\ ~armed[t]
  BY DEF Init
<1>3. QED
  BY <1>1, <1>2 DEF Init, EnableInv, ChannelStaysEnabled, Enabling

(* A step that changes none of pdma_ch_en, the hardware lock, the pcs,    *)
(* the values read and the armed flags keeps the enable conjuncts.         *)
LEMMA EnableFramesKept ==
  ASSUME EnableInv, TypeOK', UNCHANGED <<chEn, lock, pc, rmw, armed>>
  PROVE  EnableInv'
BY DEF EnableInv, ChannelStaysEnabled

(* With the hardware lock, every step keeps EnableInv.                     *)
LEMMA EnableInvInductive ==
  ASSUME HardlockOk
  PROVE  EnableInv /\ [Next]_vars => EnableInv'
<1> SUFFICES ASSUME EnableInv, [Next]_vars PROVE EnableInv'
  OBVIOUS
<1>0. TypeOK'
  BY TypeOKInductive DEF EnableInv
<1>1. ASSUME NEW t \in Clients, NEW L \in Lengths, ConfigStop(t, L) PROVE EnableInv'
  BY <1>0, <1>1 DEF ConfigStop, EnableInv, ChannelStaysEnabled, Enabling, TypeOK
<1>2. ASSUME NEW t \in Clients, ConfigDrain(t) PROVE EnableInv'
  BY <1>0, <1>2 DEF ConfigDrain, EnableInv, ChannelStaysEnabled, Enabling, TypeOK
<1>3. ASSUME NEW t \in Clients, EnLock(t) PROVE EnableInv'
  <2>1. lock = NoOne /\ lock' = t
    BY <1>3 DEF EnLock
  <2>2. \A u \in Clients : pc[u] \notin Enabling
    BY <2>1, NoOneNotClient DEF EnableInv
  <2>3. QED
    BY <1>0, <1>3, <2>1, <2>2 DEF EnLock, EnableInv, ChannelStaysEnabled, Enabling, TypeOK
<1>4. ASSUME NEW t \in Clients, EnRead(t) PROVE EnableInv'
  BY <1>0, <1>4 DEF EnRead, EnableInv, ChannelStaysEnabled, Enabling, TypeOK
<1>5. ASSUME NEW t \in Clients, EnWrite(t) PROVE EnableInv'
  <2>1. lock = t /\ rmw[t] = chEn /\ lock' = NoOne
    BY <1>5 DEF EnWrite, EnableInv, Enabling
  <2>2. chEn' = chEn \cup {t}
    BY <1>5, <2>1 DEF EnWrite
  <2>3. \A u \in Clients \ {t} : pc[u] \notin Enabling
    BY <2>1 DEF EnableInv
  <2>4. QED
    BY <1>0, <1>5, <2>1, <2>2, <2>3, NoOneNotClient
       DEF EnWrite, EnableInv, ChannelStaysEnabled, Enabling, TypeOK
<1>6. ASSUME NEW t \in Clients, ConfigClear(t) PROVE EnableInv'
  BY <1>0, <1>6 DEF ConfigClear, EnableInv, ChannelStaysEnabled, Enabling, TypeOK
<1>7. ASSUME NEW t \in Clients, LltCalStep(t) PROVE EnableInv'
  <2>1. pc' = [pc EXCEPT ![t] = "saddr"] \/ pc' = [pc EXCEPT ![t] = "fault"]
    <3>1. CASE \E b \in Blocks : heap[b] = 0
      BY <1>7, <3>1 DEF LltCalStep
    <3>2. CASE ~\E b \in Blocks : heap[b] = 0
      BY <1>7, <3>2 DEF LltCalStep
    <3>3. QED
      BY <3>1, <3>2
  <2>2. QED
    BY <1>0, <1>7, <2>1 DEF LltCalStep, EnableInv, ChannelStaysEnabled, Enabling, TypeOK
<1>8. ASSUME NEW t \in Clients, ConfigSaddr(t) PROVE EnableInv'
  BY <1>0, <1>8 DEF ConfigSaddr, EnableInv, ChannelStaysEnabled, Enabling, TypeOK
<1>9. ASSUME NEW t \in Clients, KPdmaStart(t) PROVE EnableInv'
  BY <1>0, <1>9 DEF KPdmaStart, EnableInv, ChannelStaysEnabled, Enabling, TypeOK
<1>10. ASSUME NEW t \in Clients, KPdmaStop(t) PROVE EnableInv'
  BY <1>0, <1>10, EnableFramesKept DEF KPdmaStop
<1>11. ASSUME NEW t \in Clients, ClientLltFree(t) PROVE EnableInv'
  <2>1. /\ pc[t] \in {"idle", "fread", "ffree", "fclear"}
        /\ pc' = [pc EXCEPT ![t] = pc'[t]]
        /\ pc'[t] \in {"idle", "fread", "ffree", "fclear"}
        /\ UNCHANGED <<chEn, lock, rmw, armed>>
    BY <1>11 DEF ClientLltFree, FreeRead, FreeTest, FreePages, FreeClear,
       EnableInv, TypeOK
  <2>2. ASSUME NEW u \in Clients
        PROVE  /\ pc'[u] \in Enabling <=> pc[u] \in Enabling
               /\ pc'[u] = "write" <=> pc[u] = "write"
               /\ pc'[u] \in {"clear", "cal", "saddr"} <=>
                    pc[u] \in {"clear", "cal", "saddr"}
    <3>1. CASE u = t
      <4>1. pc'[u] \in {"idle", "fread", "ffree", "fclear"}
            /\ pc[u] \in {"idle", "fread", "ffree", "fclear"}
        BY <2>1, <3>1
      <4>2. QED
        BY <4>1 DEF Enabling
    <3>2. CASE u # t
      <4>1. pc'[u] = pc[u]
        BY <2>1, <3>2 DEF EnableInv, TypeOK
      <4>2. QED
        BY <4>1
    <3>3. QED
      BY <3>1, <3>2
  <2>3. lock # NoOne => lock \in Clients /\ pc'[lock] \in Enabling
    BY <2>1, <2>2 DEF EnableInv, TypeOK
  <2>4. QED
    BY <1>0, <2>1, <2>2, <2>3 DEF EnableInv, ChannelStaysEnabled
<1>12. ASSUME NEW clear \in SUBSET (Events \X Channels), KPdmaIntClearAll(clear)
       PROVE EnableInv'
  BY <1>0, <1>12, EnableFramesKept DEF KPdmaIntClearAll
<1>13. ASSUME NEW c \in Channels, IsrIntClear(c) PROVE EnableInv'
  BY <1>0, <1>13, EnableFramesKept DEF IsrIntClear
<1>14. ASSUME NEW c \in Channels, HwDone(c) PROVE EnableInv'
  BY <1>0, <1>14, EnableFramesKept DEF HwDone
<1>15. ASSUME NEW c \in Channels, HwStop(c) PROVE EnableInv'
  BY <1>0, <1>15, EnableFramesKept DEF HwStop
<1>16. CASE UNCHANGED vars
  BY <1>0, <1>16, EnableFramesKept DEF vars
<1>17. QED
  BY <1>1, <1>2, <1>3, <1>4, <1>5, <1>6, <1>7, <1>8, <1>9, <1>10, <1>11,
     <1>12, <1>13, <1>14, <1>15, <1>16 DEF Next, ConfigStep

(* When kd_request_lock succeeded, for any number of channels and         *)
(* clients, the read-modify-writes of pdma_ch_en in pdma_ch_enable lose no *)
(* update: a channel whose configuration has passed the enable stays       *)
(* enabled, whatever the other clients and the interrupt handler do.       *)
THEOREM ChannelStaysEnabledHolds ==
  ASSUME HardlockOk
  PROVE  Spec => []ChannelStaysEnabled
<1>1. EnableInv => ChannelStaysEnabled
  BY DEF EnableInv
<1>2. QED
  BY <1>1, InitEnableInv, EnableInvInductive, PTL DEF Spec

-----------------------------------------------------------------------------
(* k_pdma_config installs a chain only after the channel has stopped.     *)

(* A running channel's client is idle or waiting in the ch_status loop.   *)
StopsFirst == \A c \in Channels : busy[c] => pc[c] \in {"idle", "drain"}

(* In the initial state no channel runs.                                   *)
LEMMA InitStopsFirst == Init => StopsFirst
  BY DEF Init, StopsFirst

(* Only KPdmaStart, from idle, makes a channel busy, and only ConfigStop   *)
(* and ConfigDrain leave {"idle", "drain"}, the second for a stopped one. *)
LEMMA StopsFirstInductive == TypeOK /\ StopsFirst /\ [Next]_vars => StopsFirst'
<1> SUFFICES ASSUME TypeOK, StopsFirst, [Next]_vars PROVE StopsFirst'
  OBVIOUS
<1> USE DEF StopsFirst, TypeOK, Clients
<1>1. ASSUME NEW t \in Clients, NEW L \in Lengths, ConfigStop(t, L) PROVE StopsFirst'
  BY <1>1 DEF ConfigStop
<1>2. ASSUME NEW t \in Clients, ConfigDrain(t) PROVE StopsFirst'
  BY <1>2 DEF ConfigDrain
<1>3. ASSUME NEW t \in Clients,
             EnLock(t) \/ EnRead(t) \/ EnWrite(t) \/ ConfigClear(t) \/ ConfigSaddr(t)
      PROVE StopsFirst'
  BY <1>3 DEF EnLock, EnRead, EnWrite, ConfigClear, ConfigSaddr
<1>4. ASSUME NEW t \in Clients, LltCalStep(t) PROVE StopsFirst'
  BY <1>4 DEF LltCalStep
<1>5. ASSUME NEW t \in Clients, KPdmaStart(t) \/ KPdmaStop(t) PROVE StopsFirst'
  BY <1>5 DEF KPdmaStart, KPdmaStop
<1>6. ASSUME NEW t \in Clients, ClientLltFree(t) PROVE StopsFirst'
  BY <1>6 DEF ClientLltFree, FreeRead, FreeTest, FreePages, FreeClear
<1>7. ASSUME NEW clear \in SUBSET (Events \X Channels), KPdmaIntClearAll(clear)
      PROVE StopsFirst'
  BY <1>7 DEF KPdmaIntClearAll
<1>8. ASSUME NEW c \in Channels, IsrIntClear(c) PROVE StopsFirst'
  BY <1>8 DEF IsrIntClear
<1>9. ASSUME NEW c \in Channels, HwDone(c) \/ HwStop(c) PROVE StopsFirst'
  BY <1>9 DEF HwDone, HwStop
<1>10. CASE UNCHANGED vars
  BY <1>10 DEF vars
<1>11. QED
  BY <1>1, <1>2, <1>3, <1>4, <1>5, <1>6, <1>7, <1>8, <1>9, <1>10 DEF Next, ConfigStep

(* For every value of the constants, careful client or not, k_pdma_config *)
(* never rewrites ch_llt_saddr while the engine runs the channel: only     *)
(* ConfigSaddr writes it, and its client is past the drain wait.           *)
THEOREM SaddrStableWhileBusyHolds == Spec => SaddrStableWhileBusy
<1>1. TypeOK /\ StopsFirst /\ [Next]_vars => (TypeOK /\ StopsFirst)'
  BY TypeOKInductive, StopsFirstInductive
<1>2. StopsFirst /\ [Next]_vars =>
        [\A c \in Channels : busy[c] /\ busy'[c] => saddr'[c] = saddr[c]]_vars
  <2> SUFFICES ASSUME StopsFirst, [Next]_vars, NEW c \in Channels, busy[c]
               PROVE saddr'[c] = saddr[c]
    BY DEF vars
  <2>1. CASE \E t \in Clients : ConfigSaddr(t)
    BY <2>1 DEF ConfigSaddr, StopsFirst, Clients
  <2>2. CASE ~\E t \in Clients : ConfigSaddr(t)
    BY <2>2 DEF Next, ConfigStep, vars, ConfigStop, ConfigDrain, EnLock, EnRead,
       EnWrite, ConfigClear, LltCalStep, KPdmaStart, KPdmaStop, ClientLltFree,
       FreeRead, FreeTest, FreePages, FreeClear, KPdmaIntClearAll, IsrIntClear, HwDone, HwStop, LltFree, KPdmaIntClear
  <2>3. QED
    BY <2>1, <2>2
<1>3. QED
  BY <1>1, <1>2, InitTypeOK, InitStopsFirst, PTL DEF Spec, SaddrStableWhileBusy

-----------------------------------------------------------------------------
(* pdma_llt_cal: the descriptor chain covers the transfer.                 *)

(* The identities of \div and % that the chain arithmetic rests on.       *)
LEMMA ModDef ==
  ASSUME NEW M \in Nat \ {0}, NEW L \in Nat
  PROVE  L % M = L - M * (L \div M)
BY Z3

(* Quotient and remainder are unique.                                      *)
LEMMA DivUnique ==
  ASSUME NEW M \in Nat \ {0}, NEW q \in Int, NEW r \in 0..(M - 1),
         NEW x \in Int, x = M * q + r
  PROVE  x \div M = q /\ x % M = r
BY SMT

(* One less than a non-multiple of M has the same quotient.                *)
LEMMA DivPred ==
  ASSUME NEW M \in Nat \ {0}, NEW L \in Nat \ {0}, L % M # 0
  PROVE  (L - 1) \div M = L \div M
<1>1. L = M * (L \div M) + (L % M)
  BY ModDef
<1>2. /\ L \div M \in Int
      /\ (L % M) - 1 \in 0..(M - 1)
  BY SMT
<1>3. L - 1 = M * (L \div M) + ((L % M) - 1)
  BY <1>1
<1> DEFINE q == L \div M
           r == (L % M) - 1
<1>4. q \in Int /\ r \in 0..(M - 1) /\ L - 1 \in Int /\ L - 1 = M * q + r
  BY <1>2, <1>3
<1> HIDE DEF q, r
<1>5. (L - 1) \div M = q
  BY <1>4, DivUnique
<1> QED
  BY <1>5 DEF q

(* Splitting a length that is not a multiple of PDMA_MAX_LINE_SIZE into    *)
(* full lines and a non-empty remainder, and the node count pdma_llt_cal   *)
(* computes for it.                                                        *)
LEMMA DivSplit ==
  ASSUME NEW L \in Nat \ {0}, L % MaxLine # 0
  PROVE  /\ L \div MaxLine \in Nat
         /\ L % MaxLine \in 1..(MaxLine - 1)
         /\ L = MaxLine * (L \div MaxLine) + (L % MaxLine)
         /\ NodeCount(L) = L \div MaxLine + 1
<1>1. /\ L \div MaxLine \in Nat
      /\ L % MaxLine \in 0..(MaxLine - 1)
  BY SMT
<1>2. L = MaxLine * (L \div MaxLine) + (L % MaxLine)
  BY ModDef
<1>3. (L - 1) \div MaxLine = L \div MaxLine
  BY DivPred
<1> QED
  BY <1>1, <1>2, <1>3 DEF NodeCount

(* For a length that is not a multiple of PDMA_MAX_LINE_SIZE, the chain    *)
(* pdma_llt_cal builds moves the bytes in order, in non-empty segments of  *)
(* at most PDMA_MAX_LINE_SIZE, and ends exactly at the end of the buffer.  *)
LEMMA LltCalCovers ==
  ASSUME NEW L \in Nat \ {0}, L % MaxLine # 0
  PROVE  ChainCovers(LltCal(0, 0, L), 0, 0, L)
<1> DEFINE n == NodeCount(L)
           c == LltCal(0, 0, L)
           end(j) == c[j].src_addr + c[j].line_size
<1>1. /\ L \div MaxLine \in Nat
      /\ L % MaxLine \in 1..(MaxLine - 1)
      /\ L = MaxLine * (L \div MaxLine) + (L % MaxLine)
      /\ n = L \div MaxLine + 1
  BY DivSplit
<1>2. n \in Nat \ {0}
  BY <1>1
<1>3. Len(c) = n
  BY <1>2 DEF LltCal
<1>4. \A i \in 1..n :
        c[i] = [src_addr  |-> 0 + MaxLine * (i - 1),
              dst_addr  |-> 0 + MaxLine * (i - 1),
              line_size |-> IF i = n THEN L % MaxLine ELSE MaxLine,
              next_llt  |-> IF i = n THEN 0 ELSE i + 1,
              pause     |-> 0]
  BY DEF LltCal
<1>5. ASSUME NEW k \in 1..n
      PROVE  /\ c[k].line_size \in 1..MaxLine
             /\ c[k].dst_addr - 0 = c[k].src_addr - 0
             /\ c[k].next_llt = IF k = n THEN 0 ELSE k + 1
  <2>1. c[k] = [src_addr  |-> 0 + MaxLine * (k - 1),
              dst_addr  |-> 0 + MaxLine * (k - 1),
              line_size |-> IF k = n THEN L % MaxLine ELSE MaxLine,
              next_llt  |-> IF k = n THEN 0 ELSE k + 1,
              pause     |-> 0]
    BY <1>4, Zenon
  <2> QED
    BY <1>1, <2>1
<1>6. ASSUME NEW k \in 1..(n - 1) PROVE c[k + 1].src_addr = end(k)
  <2>1. k + 1 \in 1..n /\ k \in 1..n /\ k # n
    BY <1>2
  <2>2. c[k + 1] = [src_addr  |-> 0 + MaxLine * ((k + 1) - 1),
              dst_addr  |-> 0 + MaxLine * ((k + 1) - 1),
              line_size |-> IF (k + 1) = n THEN L % MaxLine ELSE MaxLine,
              next_llt  |-> IF (k + 1) = n THEN 0 ELSE (k + 1) + 1,
              pause     |-> 0]
    BY <2>1, <1>4, Zenon
  <2>3. c[k] = [src_addr  |-> 0 + MaxLine * (k - 1),
              dst_addr  |-> 0 + MaxLine * (k - 1),
              line_size |-> IF k = n THEN L % MaxLine ELSE MaxLine,
              next_llt  |-> IF k = n THEN 0 ELSE k + 1,
              pause     |-> 0]
    BY <2>1, <1>4, Zenon
  <2>4. MaxLine * ((k + 1) - 1) = MaxLine * (k - 1) + MaxLine
    BY <2>1, SMT
  <2> QED
    BY <2>1, <2>2, <2>3, <2>4
<1>7. end(n) = L
  <2>1. n \in 1..n
    BY <1>2
  <2>2. c[n] = [src_addr  |-> 0 + MaxLine * (n - 1),
              dst_addr  |-> 0 + MaxLine * (n - 1),
              line_size |-> IF n = n THEN L % MaxLine ELSE MaxLine,
              next_llt  |-> IF n = n THEN 0 ELSE n + 1,
              pause     |-> 0]
    BY <2>1, <1>4, Zenon
  <2>3. n - 1 = L \div MaxLine
    BY <1>1
  <2> QED
    BY <1>1, <2>2, <2>3
<1>8. c[1].src_addr = 0 /\ c[1].dst_addr = 0
  <2>1. 1 \in 1..n
    BY <1>2
  <2>2. c[1] = [src_addr  |-> 0 + MaxLine * (1 - 1),
              dst_addr  |-> 0 + MaxLine * (1 - 1),
              line_size |-> IF 1 = n THEN L % MaxLine ELSE MaxLine,
              next_llt  |-> IF 1 = n THEN 0 ELSE 1 + 1,
              pause     |-> 0]
    BY <2>1, <1>4, Zenon
  <2> QED
    BY <2>2
<1> QED
  BY <1>2, <1>3, <1>5, <1>6, <1>7, <1>8 DEF ChainCovers

(* The lengths clients request are not multiples of PDMA_MAX_LINE_SIZE:    *)
(* for a multiple, pdma_llt_cal gives the last node line_size % MAX = 0.   *)
ExactLengthFree == \A L \in Lengths : L % MaxLine # 0

(* A client that is configuring or has a configuration to start has       *)
(* recorded a requested length: before its first k_pdma_config, req is 0 *)
(* and the client can only run k_pdma_llt_free.                            *)
ReqInv ==
  \A t \in Clients : req[t] = 0 => pc[t] \in {"idle", "fread", "ffree", "fclear"} /\ ~armed[t]

LEMMA InitReqInv == Init => ReqInv
  BY DEF Init, ReqInv

(* Only ConfigStop leaves "idle", and it records a length; only           *)
(* ConfigSaddr arms a channel, and its client is not idle.                 *)
LEMMA ReqInvInductive == TypeOK /\ ReqInv /\ [Next]_vars => ReqInv'
<1> SUFFICES ASSUME TypeOK, ReqInv, [Next]_vars PROVE ReqInv'
  OBVIOUS
<1> USE DEF ReqInv, TypeOK, Clients
<1>1. ASSUME NEW t \in Clients, NEW L \in Lengths, ConfigStop(t, L) PROVE ReqInv'
  BY <1>1 DEF ConfigStop
<1>2. ASSUME NEW t \in Clients, ConfigDrain(t) PROVE ReqInv'
  BY <1>2 DEF ConfigDrain
<1>3. ASSUME NEW t \in Clients,
             EnLock(t) \/ EnRead(t) \/ EnWrite(t) \/ ConfigClear(t)
      PROVE ReqInv'
  BY <1>3 DEF EnLock, EnRead, EnWrite, ConfigClear
<1>4. ASSUME NEW t \in Clients, LltCalStep(t) PROVE ReqInv'
  BY <1>4 DEF LltCalStep
<1>5. ASSUME NEW t \in Clients, ConfigSaddr(t) PROVE ReqInv'
  BY <1>5 DEF ConfigSaddr
<1>6. ASSUME NEW t \in Clients, KPdmaStart(t) \/ KPdmaStop(t) \/ ClientLltFree(t)
      PROVE ReqInv'
  BY <1>6 DEF KPdmaStart, KPdmaStop, ClientLltFree, FreeRead, FreeTest, FreePages, FreeClear
<1>7. ASSUME NEW clear \in SUBSET (Events \X Channels), KPdmaIntClearAll(clear)
      PROVE ReqInv'
  BY <1>7 DEF KPdmaIntClearAll
<1>8. ASSUME NEW c \in Channels, IsrIntClear(c) \/ HwDone(c) \/ HwStop(c)
      PROVE ReqInv'
  BY <1>8 DEF IsrIntClear, HwDone, HwStop
<1>9. CASE UNCHANGED vars
  BY <1>9 DEF vars
<1>10. QED
  BY <1>1, <1>2, <1>3, <1>4, <1>5, <1>6, <1>7, <1>8, <1>9 DEF Next, ConfigStep

(* When no client requests a multiple of PDMA_MAX_LINE_SIZE, for every     *)
(* line size and set of lengths, the chain pdma_llt_cal builds for every   *)
(* configuration in progress or still to be started moves exactly the      *)
(* requested bytes, in order, in segments of 1..PDMA_MAX_LINE_SIZE.        *)
THEOREM LltChainCoversHolds ==
  ASSUME ExactLengthFree
  PROVE  Spec => []LltChainCovers
<1>1. TypeOK /\ ReqInv /\ [Next]_vars => (TypeOK /\ ReqInv)'
  BY TypeOKInductive, ReqInvInductive
<1>2. TypeOK /\ ReqInv => LltChainCovers
  <2> SUFFICES ASSUME TypeOK, ReqInv, NEW t \in Clients, pc[t] = "saddr" \/ armed[t]
               PROVE  ChainCovers(LltCal(0, 0, req[t]), 0, 0, req[t])
    BY DEF LltChainCovers
  <2>1. req[t] \in Lengths
    BY DEF ReqInv, TypeOK
  <2>2. req[t] \in Nat \ {0} /\ req[t] % MaxLine # 0
    BY <2>1 DEF ExactLengthFree
  <2> QED
    BY <2>2, LltCalCovers
<1>3. QED
  BY <1>1, <1>2, InitTypeOK, InitReqInv, PTL DEF Spec

=============================================================================
