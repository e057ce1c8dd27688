------------------------------- MODULE Procfs -------------------------------
(***************************************************************************)
(* The procfs entry registry and file operations of                        *)
(* components/dfs/dfs_v2/filesystems/procfs/dfs_procfs.c.  Kernel threads  *)
(* create, register, unregister and destroy rt_proc_entry objects on the   *)
(* list of procfs_root, and open, read, close and list them through the    *)
(* procfs file operations.  Every section the code runs under procfs_lock  *)
(* is one atomic step; a function that takes the lock twice takes two      *)
(* steps.  The vnode reference count belongs to the dfs layer, which      *)
(* counts the opener before fops->open and drops it after fops->close.     *)
(***************************************************************************)
EXTENDS Naturals, Sequences, SequencesExt

CONSTANTS
  Threads,   \* kernel threads using procfs
  Entries,   \* rt_proc_entry objects rt_malloc can hand out
  Names,     \* entry names (RT_NAME_MAX truncation abstracted)
  Count,     \* dirents that fit in the buffer given to getdents
  None       \* RT_NULL

ASSUME ProcfsAssumption ==
  /\ IsFiniteSet(Threads)
  /\ Count \in Nat \ {0}
  /\ None \notin Entries \cup Names

VARIABLES
  list,      \* procfs_root.parent.list, head first
  ename,     \* entry->parent.name
  live,      \* entries allocated and not yet freed
  cpc,       \* where each thread is in an entry's life cycle
  ent,       \* the entry the thread is working on
  rname,     \* the name the thread is registering
  vref,      \* vnode->ref_count of the vnode of each name (dfs layer)
  vdata,     \* vnode->data of that vnode
  fopen,     \* the name of the file the thread has open, or None
  dopen,     \* the thread has the root directory open
  dpos,      \* file->fpos / sizeof(struct dirent) of that directory
  seen,      \* history: the entries its getdents calls have returned
  ldone,     \* history: getdents has returned 0
  lchanged,  \* history: the list changed since the directory was opened
  uaf        \* history: a file operation dereferenced a freed entry

vars == <<list, ename, live, cpc, ent, rname, vref, vdata, fopen, dopen,
          dpos, seen, ldone, lchanged, uaf>>

-----------------------------------------------------------------------------
(* rt_proc_entry_find: under procfs_lock, the first entry of the list      *)
(* with the name, or None.                                                 *)
Find(n) ==
  IF \E i \in 1..Len(list) : ename[list[i]] = n
    THEN list[CHOOSE i \in 1..Len(list) :
                /\ ename[list[i]] = n
                /\ \A j \in 1..(i - 1) : ename[list[j]] # n]
    ELSE None

(* A step that changes the list marks every open directory.              *)
MarkListings ==
  lchanged' = [t \in Threads |-> lchanged[t] \/ dopen[t]]

Init ==
  /\ list = << >>
  /\ ename = [e \in Entries |-> None]
  /\ live = {}
  /\ cpc = [t \in Threads |-> "none"]
  /\ ent = [t \in Threads |-> None]
  /\ rname = [t \in Threads |-> None]
  /\ vref = [n \in Names |-> 0]
  /\ vdata = [n \in Names |-> None]
  /\ fopen = [t \in Threads |-> None]
  /\ dopen = [t \in Threads |-> FALSE]
  /\ dpos = [t \in Threads |-> 0]
  /\ seen = [t \in Threads |-> << >>]
  /\ ldone = [t \in Threads |-> FALSE]
  /\ lchanged = [t \in Threads |-> FALSE]
  /\ uaf = FALSE

-----------------------------------------------------------------------------
(* Entry life cycle, each thread on an entry of its own.                   *)

(* rt_proc_entry_create: rt_malloc a block and zero it (the name with it). *)
Create(t, e) ==
  /\ cpc[t] = "none"
  /\ e \notin live
  /\ live' = live \cup {e}
  /\ ename' = [ename EXCEPT ![e] = None]
  /\ ent' = [ent EXCEPT ![t] = e]
  /\ cpc' = [cpc EXCEPT ![t] = "created"]
  /\ UNCHANGED <<list, rname, vref, vdata, fopen, dopen, dpos, seen, ldone,
                 lchanged, uaf>>

(* rt_proc_entry_register, first lock section: rt_proc_entry_find(name).   *)
(* A name already on the list fails the call with -RT_ERROR.               *)
RegisterFind(t, n) ==
  /\ cpc[t] = "created"
  /\ rname' = [rname EXCEPT ![t] = n]
  /\ cpc' = [cpc EXCEPT ![t] = IF Find(n) # None THEN "failed" ELSE "insert"]
  /\ UNCHANGED <<list, ename, live, ent, vref, vdata, fopen, dopen, dpos,
                 seen, ldone, lchanged, uaf>>

(* Second lock section: copy the name and rt_list_insert_after the root,   *)
(* i.e. at the head of the list.                                           *)
RegisterInsert(t) ==
  /\ cpc[t] = "insert"
  /\ ename' = [ename EXCEPT ![ent[t]] = rname[t]]
  /\ list' = <<ent[t]>> \o list
  /\ cpc' = [cpc EXCEPT ![t] = "registered"]
  /\ MarkListings
  /\ UNCHANGED <<live, ent, rname, vref, vdata, fopen, dopen, dpos, seen,
                 ldone, uaf>>

(* rt_proc_entry_unregister: rt_list_remove under the lock unlinks the     *)
(* entry's own node from the list.                                         *)
Unregister(t) ==
  /\ cpc[t] = "registered"
  /\ list' = RemoveFirst(list, ent[t])
  /\ cpc' = [cpc EXCEPT ![t] = "unregistered"]
  /\ MarkListings
  /\ UNCHANGED <<ename, live, ent, rname, vref, vdata, fopen, dopen, dpos,
                 seen, ldone, uaf>>

(* rt_proc_entry_destory: rt_free, of an entry that is not on the list.    *)
Destroy(t) ==
  /\ cpc[t] \in {"created", "failed", "unregistered"}
  /\ live' = live \ {ent[t]}
  /\ ent' = [ent EXCEPT ![t] = None]
  /\ cpc' = [cpc EXCEPT ![t] = "none"]
  /\ UNCHANGED <<list, ename, rname, vref, vdata, fopen, dopen, dpos, seen,
                 ldone, lchanged, uaf>>

-----------------------------------------------------------------------------
(* File operations, each thread with at most one file or directory open.   *)

(* An entry the vnode points to is dereferenced (entry->fops).             *)
Deref(n) == uaf' = (uaf \/ (vdata[n] # None /\ vdata[n] \notin live))

(* Seeded fault: a failed open keeps the count the dfs layer took.       *)
OpenKeepCountOnError(t, n) ==
  /\ fopen[t] = None /\ ~dopen[t]
  /\ \/ /\ vref[n] > 0
        /\ vref' = [vref EXCEPT ![n] = @ + 1]
        /\ fopen' = [fopen EXCEPT ![t] = n]
        /\ UNCHANGED vdata
     \/ /\ vref[n] = 0
        /\ Find(n) # None
        /\ vref' = [vref EXCEPT ![n] = 1]
        /\ vdata' = [vdata EXCEPT ![n] = Find(n)]
        /\ fopen' = [fopen EXCEPT ![t] = n]
     \/ /\ vref[n] = 0
        /\ Find(n) = None
        /\ vref' = [vref EXCEPT ![n] = @ + 1]
        /\ UNCHANGED <<vdata, fopen>>
  /\ UNCHANGED <<list, ename, live, cpc, ent, rname, dopen, dpos, seen,
                 ldone, lchanged, uaf>>

(* dfs_proc_fops_open on the vnode of name n after the dfs layer counted  *)
(* the opener: a vnode already open is shared as it is; otherwise the      *)
(* entry is looked up and stored in vnode->data, or the open fails with    *)
(* -ENODEV and the dfs layer drops the count again.                        *)
Open(t, n) ==
  /\ fopen[t] = None /\ ~dopen[t]
  /\ \/ /\ vref[n] > 0
        /\ vref' = [vref EXCEPT ![n] = @ + 1]
        /\ fopen' = [fopen EXCEPT ![t] = n]
        /\ UNCHANGED vdata
     \/ /\ vref[n] = 0
        /\ Find(n) # None
        /\ vref' = [vref EXCEPT ![n] = 1]
        /\ vdata' = [vdata EXCEPT ![n] = Find(n)]
        /\ fopen' = [fopen EXCEPT ![t] = n]
     \/ /\ vref[n] = 0
        /\ Find(n) = None
        /\ UNCHANGED <<vref, vdata, fopen>>
  /\ UNCHANGED <<list, ename, live, cpc, ent, rname, dopen, dpos, seen,
                 ldone, lchanged, uaf>>

(* dfs_proc_fops_read: dereferences the entry of vnode->data.              *)
Read(t) ==
  /\ fopen[t] # None
  /\ Deref(fopen[t])
  /\ UNCHANGED <<list, ename, live, cpc, ent, rname, vref, vdata, fopen,
                 dopen, dpos, seen, ldone, lchanged>>

(* dfs_proc_fops_close, then the dfs layer drops the count: only the last *)
(* closer dereferences the entry and clears vnode->data.                   *)
Close(t) ==
  LET n == fopen[t] IN
  /\ n # None
  /\ IF vref[n] > 1
       THEN UNCHANGED <<vdata, uaf>>
       ELSE /\ Deref(n)
            /\ vdata' = [vdata EXCEPT ![n] = None]
  /\ vref' = [vref EXCEPT ![n] = @ - 1]
  /\ fopen' = [fopen EXCEPT ![t] = None]
  /\ UNCHANGED <<list, ename, live, cpc, ent, rname, dopen, dpos, seen,
                 ldone, lchanged>>

(* dfs_proc_fops_open of "/" with O_DIRECTORY: vnode->data = &procfs_root, *)
(* at file position 0.                                                     *)
OpenDir(t) ==
  /\ fopen[t] = None /\ ~dopen[t]
  /\ dopen' = [dopen EXCEPT ![t] = TRUE]
  /\ dpos' = [dpos EXCEPT ![t] = 0]
  /\ seen' = [seen EXCEPT ![t] = << >>]
  /\ ldone' = [ldone EXCEPT ![t] = FALSE]
  /\ lchanged' = [lchanged EXCEPT ![t] = FALSE]
  /\ UNCHANGED <<list, ename, live, cpc, ent, rname, vref, vdata, fopen, uaf>>

(* Seeded fault: the skip loop passes one entry too many.                  *)
GetdentsSkipOne(t) ==
  LET m == IF Len(list) > dpos[t] + 1
             THEN Min({Count, Len(list) - dpos[t] - 1}) ELSE 0
  IN
  /\ dopen[t] /\ ~ldone[t]
  /\ seen' = [seen EXCEPT ![t] = @ \o SubSeq(list, dpos[t] + 2, dpos[t] + 1 + m)]
  /\ dpos' = [dpos EXCEPT ![t] = @ + m]
  /\ ldone' = [ldone EXCEPT ![t] = (m = 0)]
  /\ UNCHANGED <<list, ename, live, cpc, ent, rname, vref, vdata, fopen,
                 dopen, lchanged, uaf>>

(* dfs_proc_fops_getdents under procfs_lock: skip fpos entries of the      *)
(* list, return up to count of the following ones, advance fpos by what    *)
(* was returned.  A call that returns 0 ends the listing.                  *)
Getdents(t) ==
  LET m == IF Len(list) > dpos[t] THEN Min({Count, Len(list) - dpos[t]}) ELSE 0
  IN
  /\ dopen[t] /\ ~ldone[t]
  /\ seen' = [seen EXCEPT ![t] = @ \o SubSeq(list, dpos[t] + 1, dpos[t] + m)]
  /\ dpos' = [dpos EXCEPT ![t] = @ + m]
  /\ ldone' = [ldone EXCEPT ![t] = (m = 0)]
  /\ UNCHANGED <<list, ename, live, cpc, ent, rname, vref, vdata, fopen,
                 dopen, lchanged, uaf>>

(* dfs_proc_fops_close of the root directory.                              *)
CloseDir(t) ==
  /\ dopen[t]
  /\ dopen' = [dopen EXCEPT ![t] = FALSE]
  /\ UNCHANGED <<list, ename, live, cpc, ent, rname, vref, vdata, fopen,
                 dpos, seen, ldone, lchanged, uaf>>

Next ==
  \E t \in Threads :
    \/ \E e \in Entries : Create(t, e)
    \/ \E n \in Names : RegisterFind(t, n)
    \/ RegisterInsert(t) \/ Unregister(t) \/ Destroy(t)
    \/ \E n \in Names : Open(t, n)
    \/ Read(t) \/ Close(t)
    \/ OpenDir(t) \/ Getdents(t) \/ CloseDir(t)

Spec == Init /\ [][Next]_vars

-----------------------------------------------------------------------------
(* Properties.                                                             *)

CpcStates == {"none", "created", "failed", "insert", "registered",
              "unregistered"}

TypeOK ==
  /\ list \in Seq(Entries)
  /\ ename \in [Entries -> Names \cup {None}]
  /\ live \subseteq Entries
  /\ cpc \in [Threads -> CpcStates]
  /\ ent \in [Threads -> Entries \cup {None}]
  /\ rname \in [Threads -> Names \cup {None}]
  /\ vref \in [Names -> 0..Cardinality(Threads)]
  /\ vdata \in [Names -> Entries \cup {None}]
  /\ fopen \in [Threads -> Names \cup {None}]
  /\ dopen \in [Threads -> BOOLEAN]
  /\ dpos \in [Threads -> Nat]
  /\ seen \in [Threads -> Seq(Entries)]
  /\ ldone \in [Threads -> BOOLEAN]
  /\ lchanged \in [Threads -> BOOLEAN]
  /\ uaf \in BOOLEAN

(* getdents lists the directory exactly: a listing of "/" that ran to the *)
(* end while no entry was registered or unregistered has returned every   *)
(* entry of the list once, in list order.                                  *)
ListingExact ==
  \A t \in Threads : dopen[t] /\ ldone[t] /\ ~lchanged[t] => seen[t] = list

(* A listing of "/" never returns the same entry twice, whatever is        *)
(* registered or unregistered meanwhile.                                   *)
EntryListedOnce ==
  \A t \in Threads : IsInjective(seen[t])

(* rt_proc_entry_register refuses a name already registered, so no two    *)
(* entries on the list have the same name.                                 *)
NamesUnique ==
  \A i, j \in 1..Len(list) : i # j => ename[list[i]] # ename[list[j]]

(* The file operations only dereference live entries: the entry an open   *)
(* file's vnode points to is not freed under it.                           *)
NoStaleEntry == ~uaf

=============================================================================
