---------------------------- MODULE ProcfsProofs ----------------------------
(***************************************************************************)
(* Proofs about the procfs model: the type invariant, with the vnode       *)
(* reference count of the dfs layer, and the exactness of a listing of     *)
(* "/" that no registration overlapped.                                    *)
(***************************************************************************)
EXTENDS Procfs, TLAPS, SequenceTheorems, FiniteSetTheorems, WellFoundedInduction

USE ProcfsAssumption

(* The threads whose per-thread value f[t] is n.                           *)
Holders(f, n) == {u \in Threads : f[u] = n}

(* The threads that have the file of name n open.                          *)
Openers(n) == Holders(fopen, n)

(* vnode->ref_count counts exactly the threads with the file open: the dfs *)
(* layer takes a reference per open and drops it at close, and a failed    *)
(* dfs_proc_fops_open gives its reference back.                            *)
CountInv == \A n \in Names : vref[n] = Cardinality(Openers(n))

(* While no registration changed the list, a listing of "/" has returned  *)
(* the first fpos entries of the list, and it has ended only at the end.   *)
ListingPrefix ==
  \A t \in Threads : dopen[t] /\ ~lchanged[t] =>
     /\ dpos[t] <= Len(list)
     /\ seen[t] = SubSeq(list, 1, dpos[t])
     /\ ldone[t] => dpos[t] = Len(list)

-----------------------------------------------------------------------------
(* Lemmas about the sequence and set operators of the model.               *)

(* A non-empty set of naturals has a least element: < is well-founded.    *)
LEMMA LeastIndex ==
  ASSUME NEW T \in SUBSET Nat, T # {}
  PROVE  \E m \in T : \A k \in T : m <= k
<1>1. PICK x \in T : \A y \in T : ~(<<y, x>> \in OpToRel(<, Nat))
  BY NatLessThanWellFounded, WFMin
<1>2. \A y \in T : ~(y < x)
  BY <1>1 DEF OpToRel
<1>3. QED
  BY <1>2

(* So Min of SequencesExt picks the least index of a non-empty index set.  *)
LEMMA MinOfIndices ==
  ASSUME NEW T \in SUBSET Nat, T # {}
  PROVE  Min(T) \in T /\ \A k \in T : Min(T) <= k
BY LeastIndex DEF Min

(* rt_proc_entry_find returns an entry of the list or RT_NULL.             *)
LEMMA FindType ==
  ASSUME list \in Seq(Entries), NEW n
  PROVE  Find(n) \in Entries \cup {None}
<1>1. CASE \E i \in 1..Len(list) : ename[list[i]] = n
  <2> DEFINE T == {i \in 1..Len(list) : ename[list[i]] = n}
  <2>1. T \in SUBSET Nat /\ T # {}
    BY <1>1 DEF T
  <2>2. PICK m \in T : \A k \in T : m <= k
    BY <2>1, LeastIndex
  <2>3. /\ m \in 1..Len(list)
        /\ ename[list[m]] = n
        /\ \A j \in 1..(m - 1) : ename[list[j]] # n
    BY <2>2 DEF T
  <2>4. \E i \in 1..Len(list) : /\ ename[list[i]] = n
                                /\ \A j \in 1..(i - 1) : ename[list[j]] # n
    BY <2>3
  <2>5. (CHOOSE i \in 1..Len(list) : /\ ename[list[i]] = n
                                     /\ \A j \in 1..(i - 1) : ename[list[j]] # n)
          \in 1..Len(list)
    BY <2>4
  <2>6. QED
    BY <1>1, <2>5 DEF Find
<1>2. CASE ~\E i \in 1..Len(list) : ename[list[i]] = n
  BY <1>2 DEF Find
<1>3. QED
  BY <1>1, <1>2

(* Dropping the element at a position of a sequence keeps it a sequence   *)
(* over the same set.                                                      *)
LEMMA RemoveAtType ==
  ASSUME NEW S, NEW s \in Seq(S), NEW i \in 1..Len(s)
  PROVE  RemoveAt(s, i) \in Seq(S)
<1>1. SubSeq(s, 1, i - 1) \in Seq(S)
  BY SubSeqProperties
<1>2. SubSeq(s, i + 1, Len(s)) \in Seq(S)
  BY SubSeqProperties
<1>3. QED
  BY <1>1, <1>2, ConcatProperties DEF RemoveAt

(* rt_list_remove of an entry keeps the list a list of entries.            *)
LEMMA RemoveFirstType ==
  ASSUME NEW S, NEW s \in Seq(S), NEW e
  PROVE  RemoveFirst(s, e) \in Seq(S)
<1>1. CASE \E i \in 1..Len(s) : s[i] = e
  <2> DEFINE T == {i \in 1..Len(s) : s[i] = e}
  <2>1. T \in SUBSET Nat /\ T # {}
    BY <1>1 DEF T
  <2>2. Min(T) \in 1..Len(s)
    BY <2>1, MinOfIndices DEF T
  <2>3. SelectInSeq(s, LAMBDA v : v = e) = Min(T)
    BY <2>1 DEF SelectInSeq, T
  <2>4. QED
    BY <1>1, <2>2, <2>3, RemoveAtType DEF RemoveFirst
<1>2. CASE ~\E i \in 1..Len(s) : s[i] = e
  BY <1>2 DEF RemoveFirst
<1>3. QED
  BY <1>1, <1>2

(* Min of two naturals is the smaller one.                                  *)
LEMMA MinPair ==
  ASSUME NEW a \in Nat, NEW b \in Nat
  PROVE  Min({a, b}) = IF a <= b THEN a ELSE b
<1>1. Min({a, b}) \in {a, b} /\ Min({a, b}) <= a /\ Min({a, b}) <= b
  BY MinOfIndices
<1>2. QED
  BY <1>1

(* The number of dirents one dfs_proc_fops_getdents call returns: none at *)
(* the end of the list, otherwise between 1 and what is left of it.        *)
DentCount(t) == IF Len(list) > dpos[t] THEN Min({Count, Len(list) - dpos[t]}) ELSE 0

LEMMA DentCountRange ==
  ASSUME list \in Seq(Entries), NEW t \in Threads, dpos[t] \in Nat
  PROVE  /\ DentCount(t) \in Nat
         /\ dpos[t] + DentCount(t) <= Len(list) \/ DentCount(t) = 0
         /\ DentCount(t) = 0 <=> Len(list) <= dpos[t]
<1>1. CASE Len(list) > dpos[t]
  <2>1. Len(list) - dpos[t] \in Nat
    BY <1>1
  <2>2. Min({Count, Len(list) - dpos[t]}) =
          IF Count <= Len(list) - dpos[t] THEN Count ELSE Len(list) - dpos[t]
    BY <2>1, MinPair
  <2>3. QED
    BY <1>1, <2>2 DEF DentCount
<1>2. CASE ~(Len(list) > dpos[t])
  BY <1>2 DEF DentCount
<1>3. QED
  BY <1>1, <1>2

(* The threads with a given value of a per-thread function are finitely   *)
(* many, at most all of them.                                              *)
LEMMA HoldersBound ==
  ASSUME NEW f, NEW n
  PROVE  /\ IsFiniteSet(Holders(f, n))
         /\ Cardinality(Holders(f, n)) \in 0..Cardinality(Threads)
<1>1. Holders(f, n) \subseteq Threads
  BY DEF Holders
<1>2. Cardinality(Threads) \in Nat
  BY FS_CardinalityType
<1>3. QED
  BY <1>1, <1>2, FS_Subset, FS_CardinalityType

(* An open that succeeds adds its thread to the holders of that name and  *)
(* to no other.                                                            *)
LEMMA OpenAddsHolder ==
  ASSUME NEW f \in [Threads -> Names \cup {None}], NEW t \in Threads, f[t] = None,
         NEW m \in Names
  PROVE  /\ Cardinality(Holders([f EXCEPT ![t] = m], m)) = Cardinality(Holders(f, m)) + 1
         /\ \A n \in Names \ {m} : Holders([f EXCEPT ![t] = m], n) = Holders(f, n)
<1>1. IsFiniteSet(Holders(f, m)) /\ t \notin Holders(f, m)
  <2>1. IsFiniteSet(Holders(f, m))
    BY HoldersBound
  <2>2. t \notin Holders(f, m)
    BY ProcfsAssumption DEF Holders
  <2>3. QED
    BY <2>1, <2>2
<1>2. Holders([f EXCEPT ![t] = m], m) = Holders(f, m) \cup {t}
  BY DEF Holders
<1>3. \A n \in Names \ {m} : Holders([f EXCEPT ![t] = m], n) = Holders(f, n)
  BY DEF Holders
<1>4. QED
  BY <1>1, <1>2, <1>3, FS_AddElement

(* A close removes its thread from the holders of its name only.           *)
LEMMA CloseDropsHolder ==
  ASSUME NEW f \in [Threads -> Names \cup {None}], NEW t \in Threads,
         NEW m \in Names, f[t] = m
  PROVE  /\ Cardinality(Holders([f EXCEPT ![t] = None], m)) = Cardinality(Holders(f, m)) - 1
         /\ \A n \in Names \ {m} : Holders([f EXCEPT ![t] = None], n) = Holders(f, n)
<1>1. IsFiniteSet(Holders(f, m)) /\ t \in Holders(f, m)
  <2>1. IsFiniteSet(Holders(f, m))
    BY HoldersBound
  <2>2. t \in Holders(f, m)
    BY DEF Holders
  <2>3. QED
    BY <2>1, <2>2
<1>2. Holders([f EXCEPT ![t] = None], m) = Holders(f, m) \ {t}
  BY ProcfsAssumption DEF Holders
<1>3. \A n \in Names \ {m} : Holders([f EXCEPT ![t] = None], n) = Holders(f, n)
  BY DEF Holders
<1>4. QED
  BY <1>1, <1>2, <1>3, FS_RemoveElement

-----------------------------------------------------------------------------
(* The type invariant.                                                     *)

(* A thread past rt_proc_entry_create works on an entry object.            *)
EntInv == \A t \in Threads : cpc[t] # "none" => ent[t] \in Entries

TypeInv == TypeOK /\ CountInv /\ EntInv

(* The count and the bound on it are one fact: vref is the number of      *)
(* openers, and there are no more openers than threads.                    *)
LEMMA CountGivesBound ==
  ASSUME NEW v \in [Names -> Nat], NEW f,
         \A n \in Names : v[n] = Cardinality(Holders(f, n))
  PROVE  v \in [Names -> 0..Cardinality(Threads)]
<1>1. \A n \in Names : Cardinality(Holders(f, n)) \in 0..Cardinality(Threads)
  BY HoldersBound
<1>2. QED
  BY <1>1

(* A successful open of name n counts its thread once more, in the count   *)
(* of n only, whether it shares the vnode or opens it first; the count     *)
(* stays within the number of threads.                                     *)
LEMMA OpenCount ==
  ASSUME CountInv, vref \in [Names -> Nat], fopen \in [Threads -> Names \cup {None}],
         NEW t \in Threads, fopen[t] = None, NEW n \in Names,
         vref' = [vref EXCEPT ![n] = vref[n] + 1], fopen' = [fopen EXCEPT ![t] = n]
  PROVE  CountInv' /\ vref' \in [Names -> 0..Cardinality(Threads)]
<1> DEFINE g == [fopen EXCEPT ![t] = n]
<1>1. Cardinality(Holders(g, n)) = Cardinality(Holders(fopen, n)) + 1
  BY OpenAddsHolder DEF g
<1>2. \A j \in Names \ {n} : Holders(g, j) = Holders(fopen, j)
  BY OpenAddsHolder DEF g
<1>3. \A k \in Names : vref'[k] = Cardinality(Holders(g, k))
  BY <1>1, <1>2 DEF CountInv, Openers
<1>4. \A k \in Names : Cardinality(Holders(g, k)) \in 0..Cardinality(Threads)
  BY HoldersBound
<1>5. CountInv'
  BY <1>3 DEF CountInv, Openers, Holders, g
<1>6. vref' \in [Names -> 0..Cardinality(Threads)]
  <2>1. DOMAIN vref' = Names
    OBVIOUS
  <2>2. \A k \in Names : vref'[k] \in 0..Cardinality(Threads)
    BY <1>3, <1>4
  <2>3. vref' = [k \in Names |-> vref'[k]]
    BY <2>1
  <2>4. QED
    BY <2>2, <2>3, Zenon
<1>7. QED
  BY <1>5, <1>6

(* The close of the file of name n uncounts its thread, in the count of n *)
(* only.                                                                   *)
LEMMA CloseCount ==
  ASSUME CountInv, vref \in [Names -> Nat], fopen \in [Threads -> Names \cup {None}],
         NEW t \in Threads, NEW n \in Names, fopen[t] = n,
         vref' = [vref EXCEPT ![n] = vref[n] - 1], fopen' = [fopen EXCEPT ![t] = None]
  PROVE  CountInv' /\ vref' \in [Names -> 0..Cardinality(Threads)]
<1> DEFINE g == [fopen EXCEPT ![t] = None]
<1>1. Cardinality(Holders(g, n)) = Cardinality(Holders(fopen, n)) - 1
  BY CloseDropsHolder DEF g
<1>2. \A j \in Names \ {n} : Holders(g, j) = Holders(fopen, j)
  BY CloseDropsHolder DEF g
<1>3. \A k \in Names : vref'[k] = Cardinality(Holders(g, k))
  BY <1>1, <1>2 DEF CountInv, Openers
<1>4. \A k \in Names : Cardinality(Holders(g, k)) \in 0..Cardinality(Threads)
  BY HoldersBound
<1>5. CountInv'
  BY <1>3 DEF CountInv, Openers, Holders, g
<1>6. vref' \in [Names -> 0..Cardinality(Threads)]
  <2>1. DOMAIN vref' = Names
    OBVIOUS
  <2>2. \A k \in Names : vref'[k] \in 0..Cardinality(Threads)
    BY <1>3, <1>4
  <2>3. vref' = [k \in Names |-> vref'[k]]
    BY <2>1
  <2>4. QED
    BY <2>2, <2>3, Zenon
<1>7. QED
  BY <1>5, <1>6

LEMMA InitTypeInv == Init => TypeInv
<1> SUFFICES ASSUME Init PROVE TypeInv
  OBVIOUS
<1>1. \A n \in Names : Openers(n) = {}
  BY ProcfsAssumption DEF Init, Openers, Holders
<1>2. CountInv
  BY <1>1, FS_EmptySet DEF Init, CountInv
<1>3. vref \in [Names -> 0..Cardinality(Threads)]
  BY <1>2, CountGivesBound DEF Init, CountInv, Openers
<1>4. << >> \in Seq(Entries)
  OBVIOUS
<1>5. TypeOK
  BY <1>3, <1>4 DEF Init, TypeOK, CpcStates
<1>6. QED
  BY <1>2, <1>5 DEF Init, TypeInv, EntInv

(* A step that leaves the file state alone keeps the count.               *)
LEMMA CountFrame ==
  ASSUME CountInv, UNCHANGED <<vref, fopen>>
  PROVE  CountInv'
BY DEF CountInv, Openers, Holders

LEMMA TypeInvInductive == TypeInv /\ [Next]_vars => TypeInv'
<1> SUFFICES ASSUME TypeInv, [Next]_vars PROVE TypeInv'
  OBVIOUS
<1> USE DEF TypeInv, TypeOK, EntInv, CpcStates
<1>0. fopen \in [Threads -> Names \cup {None}] /\ vref \in [Names -> Nat]
  OBVIOUS
<1>1. ASSUME NEW t \in Threads, NEW e \in Entries, Create(t, e) PROVE TypeInv'
  BY <1>1, CountFrame DEF Create
<1>2. ASSUME NEW t \in Threads, NEW n \in Names, RegisterFind(t, n) PROVE TypeInv'
  BY <1>2, CountFrame DEF RegisterFind
<1>3. ASSUME NEW t \in Threads, RegisterInsert(t) PROVE TypeInv'
  <2>1. ent[t] \in Entries
    BY <1>3 DEF RegisterInsert
  <2>2. <<ent[t]>> \o list \in Seq(Entries)
    BY <2>1
  <2>3. QED
    BY <1>3, <2>2, CountFrame DEF RegisterInsert, MarkListings
<1>4. ASSUME NEW t \in Threads, Unregister(t) PROVE TypeInv'
  <2>1. RemoveFirst(list, ent[t]) \in Seq(Entries)
    BY RemoveFirstType
  <2>2. QED
    BY <1>4, <2>1, CountFrame DEF Unregister, MarkListings
<1>5. ASSUME NEW t \in Threads, Destroy(t) PROVE TypeInv'
  BY <1>5, CountFrame DEF Destroy
<1>6. ASSUME NEW t \in Threads, NEW n \in Names, Open(t, n) PROVE TypeInv'
  <2>1. fopen[t] = None
    BY <1>6 DEF Open
  <2>2. CASE vref[n] > 0 /\ vref' = [vref EXCEPT ![n] = @ + 1]
             /\ fopen' = [fopen EXCEPT ![t] = n] /\ UNCHANGED vdata
    <3>1. CountInv' /\ vref' \in [Names -> 0..Cardinality(Threads)]
      BY <1>0, <2>1, <2>2, OpenCount
    <3>2. QED
      BY <1>6, <2>2, <3>1 DEF Open
  <2>3. CASE vref[n] = 0 /\ Find(n) # None /\ vref' = [vref EXCEPT ![n] = 1]
             /\ vdata' = [vdata EXCEPT ![n] = Find(n)]
             /\ fopen' = [fopen EXCEPT ![t] = n]
    <3>1. Find(n) \in Entries
      BY <2>3, FindType
    <3>2. vref' = [vref EXCEPT ![n] = vref[n] + 1]
      BY <2>3
    <3>3. CountInv' /\ vref' \in [Names -> 0..Cardinality(Threads)]
      BY <1>0, <2>1, <2>3, <3>2, OpenCount
    <3>4. QED
      BY <1>6, <2>3, <3>1, <3>2, <3>3 DEF Open
  <2>4. CASE vref[n] = 0 /\ Find(n) = None /\ UNCHANGED <<vref, vdata, fopen>>
    BY <1>6, <2>4, CountFrame DEF Open
  <2>5. QED
    BY <1>6, <2>2, <2>3, <2>4 DEF Open
<1>7. ASSUME NEW t \in Threads, Read(t) PROVE TypeInv'
  BY <1>7, CountFrame DEF Read, Deref
<1>8. ASSUME NEW t \in Threads, Close(t) PROVE TypeInv'
  <2> DEFINE n == fopen[t]
  <2>1. n \in Names /\ t \in Openers(n)
    BY <1>8 DEF Close, Openers, Holders
  <2>2. vref[n] \in Nat \ {0}
    <3>1. IsFiniteSet(Openers(n)) /\ Openers(n) # {}
      BY <2>1, HoldersBound DEF Openers
    <3>2. QED
      BY <2>1, <3>1, FS_EmptySet, FS_CardinalityType DEF CountInv
  <2>3. /\ vref' = [vref EXCEPT ![n] = @ - 1]
        /\ fopen' = [fopen EXCEPT ![t] = None]
        /\ vdata' \in [Names -> Entries \cup {None}]
        /\ uaf' \in BOOLEAN
        /\ UNCHANGED <<list, ename, live, cpc, ent, rname, dopen, dpos, seen,
                       ldone, lchanged>>
    BY <1>8 DEF Close, Deref
  <2>4. CountInv' /\ vref' \in [Names -> 0..Cardinality(Threads)]
    BY <1>0, <2>1, <2>3, CloseCount DEF Openers, Holders
  <2>5. QED
    BY <2>3, <2>4
<1>9. ASSUME NEW t \in Threads, OpenDir(t) PROVE TypeInv'
  BY <1>9, CountFrame DEF OpenDir
<1>10. ASSUME NEW t \in Threads, Getdents(t) PROVE TypeInv'
  <2>1. DentCount(t) \in Nat /\ (dpos[t] + DentCount(t) <= Len(list) \/ DentCount(t) = 0)
    BY DentCountRange
  <2>2. SubSeq(list, dpos[t] + 1, dpos[t] + DentCount(t)) \in Seq(Entries)
    <3>1. \A i \in (dpos[t] + 1)..(dpos[t] + DentCount(t)) : list[i] \in Entries
      BY <2>1
    <3>2. QED
      BY <2>1, <3>1, SubSeqProperties
  <2>3. seen[t] \o SubSeq(list, dpos[t] + 1, dpos[t] + DentCount(t)) \in Seq(Entries)
    BY <2>2
  <2>4. /\ seen' = [seen EXCEPT ![t] =
                   seen[t] \o SubSeq(list, dpos[t] + 1, dpos[t] + DentCount(t))]
        /\ dpos' = [dpos EXCEPT ![t] = dpos[t] + DentCount(t)]
        /\ ldone' = [ldone EXCEPT ![t] = (DentCount(t) = 0)]
        /\ UNCHANGED <<list, ename, live, cpc, ent, rname, vref, vdata, fopen,
                       dopen, lchanged, uaf>>
    BY <1>10 DEF Getdents, DentCount
  <2>5. CountInv' /\ EntInv'
    BY <2>4, CountFrame
  <2>6. /\ seen' \in [Threads -> Seq(Entries)]
        /\ dpos' \in [Threads -> Nat]
        /\ ldone' \in [Threads -> BOOLEAN]
    BY <2>1, <2>3, <2>4
  <2>7. QED
    BY <2>4, <2>5, <2>6
<1>11. ASSUME NEW t \in Threads, CloseDir(t) PROVE TypeInv'
  BY <1>11, CountFrame DEF CloseDir
<1>12. CASE UNCHANGED vars
  BY <1>12, CountFrame DEF vars
<1>13. QED
  BY <1>1, <1>2, <1>3, <1>4, <1>5, <1>6, <1>7, <1>8, <1>9, <1>10, <1>11, <1>12
  DEF Next


(* The type, the vnode reference counts and the entry pointers hold in     *)
(* every reachable state: dfs_proc_fops_open and the dfs layer's close     *)
(* keep vnode->ref_count equal to the number of threads holding the vnode *)
(* open, so it never exceeds the number of threads and never underflows.  *)
THEOREM TypeCorrect == Spec => []TypeOK
<1>1. Init => TypeInv
  BY InitTypeInv
<1>2. TypeInv /\ [Next]_vars => TypeInv'
  BY TypeInvInductive
<1>3. TypeInv => TypeOK
  BY DEF TypeInv
<1>4. QED
  BY <1>1, <1>2, <1>3, PTL DEF Spec

-----------------------------------------------------------------------------
(* The listing of "/" as a prefix of the list.                             *)

LEMMA InitListingPrefix == Init => ListingPrefix
BY DEF Init, ListingPrefix

(* A step of one of the actions that leave the list and the listing state *)
(* alone keeps the prefix invariant.                                       *)
LEMMA ListingFrame ==
  ASSUME ListingPrefix,
         UNCHANGED <<list, dopen, dpos, seen, ldone, lchanged>>
  PROVE  ListingPrefix'
BY DEF ListingPrefix

(* rt_list_insert_after and rt_list_remove mark every open listing, so a  *)
(* step that changes the list ends no prefix that is still unmarked.       *)
LEMMA MarkFrame ==
  ASSUME TypeOK, ListingPrefix, MarkListings,
         UNCHANGED <<dopen, dpos, seen, ldone>>
  PROVE  ListingPrefix'
<1> SUFFICES ASSUME NEW t \in Threads, dopen'[t], ~lchanged'[t]
             PROVE  FALSE
  BY DEF ListingPrefix
<1>1. lchanged'[t] = (lchanged[t] \/ dopen[t])
  BY DEF MarkListings
<1> QED
  BY <1>1

(* getdents appends the next slice of the list to what was returned so    *)
(* far, and returns nothing exactly when the position is at the end.       *)
LEMMA GetdentsPrefix ==
  ASSUME TypeOK, ListingPrefix, NEW t \in Threads, Getdents(t)
  PROVE  ListingPrefix'
<1> DEFINE m == DentCount(t)
<1>1. /\ seen' = [seen EXCEPT ![t] = seen[t] \o SubSeq(list, dpos[t] + 1, dpos[t] + m)]
      /\ dpos' = [dpos EXCEPT ![t] = dpos[t] + m]
      /\ ldone' = [ldone EXCEPT ![t] = (m = 0)]
      /\ dopen[t]
      /\ UNCHANGED <<list, dopen, lchanged>>
  BY DEF Getdents, DentCount
<1>2. /\ m \in Nat
      /\ dpos[t] + m <= Len(list) \/ m = 0
      /\ m = 0 <=> Len(list) <= dpos[t]
  BY DentCountRange DEF TypeOK
<1> SUFFICES ASSUME NEW s \in Threads, dopen'[s], ~lchanged'[s]
             PROVE  /\ dpos'[s] <= Len(list')
                    /\ seen'[s] = SubSeq(list', 1, dpos'[s])
                    /\ ldone'[s] => dpos'[s] = Len(list')
  BY DEF ListingPrefix
<1>3. CASE s # t
  BY <1>1, <1>3 DEF ListingPrefix, TypeOK
<1>4. CASE s = t
  <2>1. /\ dpos[t] <= Len(list)
        /\ seen[t] = SubSeq(list, 1, dpos[t])
        /\ dpos[t] \in Nat
        /\ list \in Seq(Entries)
    BY <1>1, <1>4 DEF ListingPrefix, TypeOK
  <2>2. dpos[t] + m <= Len(list)
    BY <1>2, <2>1
  <2>3. SubSeq(list, 1, dpos[t]) \o SubSeq(list, dpos[t] + 1, dpos[t] + m)
          = SubSeq(list, 1, dpos[t] + m)
    <3>1. 1 \in 1 .. Len(list) + 1
      BY <2>1
    <3>2. dpos[t] \in 1 - 1 .. Len(list)
      BY <2>1
    <3>3. dpos[t] + m \in dpos[t] .. Len(list)
      BY <1>2, <2>1, <2>2
    <3>4. QED
      BY <2>1, <3>1, <3>2, <3>3, ConcatAdjacentSubSeq
  <2>4. (m = 0) => dpos[t] + m = Len(list)
    BY <1>2, <2>1
  <2>5. /\ dpos'[t] = dpos[t] + m
        /\ seen'[t] = SubSeq(list, 1, dpos[t]) \o SubSeq(list, dpos[t] + 1, dpos[t] + m)
        /\ ldone'[t] = (m = 0)
    BY <1>1, <2>1 DEF TypeOK
  <2>6. QED
    BY <1>1, <1>4, <2>2, <2>3, <2>4, <2>5
<1> QED
  BY <1>3, <1>4

(* Opening "/" starts a listing at position 0 with nothing returned.       *)
LEMMA OpenDirPrefix ==
  ASSUME TypeOK, ListingPrefix, NEW t \in Threads, OpenDir(t)
  PROVE  ListingPrefix'
<1>1. SubSeq(list, 1, 0) = << >>
  BY SubSeqEmpty
<1> QED
  BY <1>1 DEF OpenDir, ListingPrefix, TypeOK

LEMMA ListingPrefixInductive ==
  TypeOK /\ ListingPrefix /\ [Next]_vars => ListingPrefix'
<1> SUFFICES ASSUME TypeOK, ListingPrefix, [Next]_vars PROVE ListingPrefix'
  OBVIOUS
<1>1. ASSUME NEW t \in Threads, NEW e \in Entries, Create(t, e) PROVE ListingPrefix'
  BY <1>1, ListingFrame DEF Create
<1>2. ASSUME NEW t \in Threads, NEW n \in Names, RegisterFind(t, n) PROVE ListingPrefix'
  BY <1>2, ListingFrame DEF RegisterFind
<1>3. ASSUME NEW t \in Threads, RegisterInsert(t) PROVE ListingPrefix'
  BY <1>3, MarkFrame DEF RegisterInsert
<1>4. ASSUME NEW t \in Threads, Unregister(t) PROVE ListingPrefix'
  BY <1>4, MarkFrame DEF Unregister
<1>5. ASSUME NEW t \in Threads, Destroy(t) PROVE ListingPrefix'
  BY <1>5, ListingFrame DEF Destroy
<1>6. ASSUME NEW t \in Threads, NEW n \in Names, Open(t, n) PROVE ListingPrefix'
  BY <1>6, ListingFrame DEF Open
<1>7. ASSUME NEW t \in Threads, Read(t) PROVE ListingPrefix'
  BY <1>7, ListingFrame DEF Read
<1>8. ASSUME NEW t \in Threads, Close(t) PROVE ListingPrefix'
  BY <1>8, ListingFrame DEF Close
<1>9. ASSUME NEW t \in Threads, OpenDir(t) PROVE ListingPrefix'
  BY <1>9, OpenDirPrefix
<1>10. ASSUME NEW t \in Threads, Getdents(t) PROVE ListingPrefix'
  BY <1>10, GetdentsPrefix
<1>11. ASSUME NEW t \in Threads, CloseDir(t) PROVE ListingPrefix'
  BY <1>11 DEF CloseDir, ListingPrefix, TypeOK
<1>12. CASE UNCHANGED vars
  BY <1>12, ListingFrame DEF vars
<1>13. QED
  BY <1>1, <1>2, <1>3, <1>4, <1>5, <1>6, <1>7, <1>8, <1>9, <1>10, <1>11, <1>12
  DEF Next

(* A listing that ran to its end is the whole list. *)
LEMMA PrefixGivesExact ==
  TypeOK /\ ListingPrefix => ListingExact
<1> SUFFICES ASSUME TypeOK, ListingPrefix, NEW t \in Threads,
                    dopen[t], ldone[t], ~lchanged[t]
             PROVE  seen[t] = list
  BY DEF ListingExact
<1>1. seen[t] = SubSeq(list, 1, Len(list))
  BY DEF ListingPrefix
<1>2. list \in Seq(Entries)
  BY DEF TypeOK
<1> QED
  BY <1>1, <1>2, SubSeqFull

(* dfs_proc_fops_getdents under procfs_lock, with fpos advanced by what   *)
(* each call returned, lists the directory exactly: a listing of "/" that *)
(* ran to the end while no entry was registered or unregistered returned  *)
(* every entry of the list once, in list order.                            *)
THEOREM ListingExactHolds == Spec => []ListingExact
<1>1. Init => TypeInv /\ ListingPrefix
  BY InitTypeInv, InitListingPrefix
<1>2. TypeInv /\ ListingPrefix /\ [Next]_vars => (TypeInv /\ ListingPrefix)'
  BY TypeInvInductive, ListingPrefixInductive DEF TypeInv
<1>3. TypeInv /\ ListingPrefix => ListingExact
  BY PrefixGivesExact DEF TypeInv
<1>4. QED
  BY <1>1, <1>2, <1>3, PTL DEF Spec

=============================================================================
