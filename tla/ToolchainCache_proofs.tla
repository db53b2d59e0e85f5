------------------------- MODULE ToolchainCache_proofs -------------------------
(***************************************************************************)
(* What ToolchainCache promises for any number of agents and of prunes, any   *)
(* supply of directories and any number of faults.                           *)
(***************************************************************************)
EXTENDS ToolchainCache, TLAPS

\* CacheLock: its holder is the one resolve that is past acquire.
LockInv == \A r \in Resolvers : pc[r] \in Held <=> holder = r

\* The directories resolves work on: none before the download, and never the
\* same for two.
DirInv ==
  /\ \A r \in Resolvers :
       /\ pc[r] \in {"look", "lock", "relook", "fetch"} => dir[r] = None
       /\ pc[r] \in Filling => dir[r] \in Dirs
  /\ \A r, s \in Resolvers : r # s /\ dir[r] \in Dirs => dir[r] # dir[s]

\* What is about to be renamed into place has both files, on disk too once it
\* is synced, unless prune took one.
FillInv ==
  \A r \in Resolvers :
    /\ pc[r] = "sync" => dir[r] \in pruned \/ content[dir[r]] = Whole
    /\ pc[r] = "publish" =>
         dir[r] \in pruned \/ (content[dir[r]] = Whole /\ durable[dir[r]] = Whole)

\* An entry nobody pruned is whole, and would be after a power loss.
EntryInv ==
  entry # None =>
    entry \in pruned \/ (content[entry] = Whole /\ durable[entry] = Whole)

\* The resolve that published the entry has made its name durable before it
\* looks at it again.
SettledInv ==
  \A r \in Resolvers :
    pc[r] \in {"confirm", "found"} /\ entry # None /\ dir[r] = entry => settled

IInv ==
  /\ TypeOK
  /\ LockInv
  /\ DirInv
  /\ FillInv
  /\ NothingToReplace
  /\ EntryInv
  /\ SettledInv
  /\ LeftoversOnlyByFaults

-----------------------------------------------------------------------------
(* The initial states                                                        *)

LEMMA InitHolds == Init => IInv
  <1> SUFFICES ASSUME Init PROVE IInv
    OBVIOUS
  <1>1. TypeOK
    BY CacheAssumption DEF Init, TypeOK, Places, Idle
  <1>2. LockInv
    BY CacheAssumption DEF Init, LockInv, Held, Filling
  <1>3. DirInv /\ FillInv /\ NothingToReplace
    BY CacheAssumption DEF Init, DirInv, FillInv, NothingToReplace, Filling
  <1>4. EntryInv /\ SettledInv /\ LeftoversOnlyByFaults
    BY DEF Init, EntryInv, SettledInv, LeftoversOnlyByFaults
  <1> QED  BY <1>1, <1>2, <1>3, <1>4 DEF IInv

-----------------------------------------------------------------------------
(* The steps of resolve                                                      *)

\* The start of a resolve changes nothing that the invariant speaks of but its own place.
LEMMA BeginKeeps ==
  ASSUME IInv, NEW r \in Resolvers, Begin(r)
  PROVE  IInv'
  <1>1. TypeOK'
    BY DEF IInv, Begin, Goes, Made, Forgets, pruner, TypeOK, Places, Idle
  <1>9. PICK p \in {"idle", "look"} : pc' = [pc EXCEPT ![r] = p]
    BY DEF Begin, Goes
  <1>10. /\ pc[r] \in Idle /\ Forgets(r) /\ holder' = holder
         /\ UNCHANGED <<entry, temps, content, durable, settled, pruned, faults>>
    BY DEF Begin, Goes
  <1>2. LockInv'
    BY <1>9, <1>10 DEF IInv, TypeOK, LockInv, Held, Filling, Idle
  <1>3. DirInv'
    BY <1>9, <1>10, CacheAssumption DEF IInv, Forgets, DirInv, TypeOK, Filling
  <1>4. FillInv'
    BY <1>9, <1>10 DEF IInv, Forgets, FillInv, TypeOK
  <1>5. NothingToReplace'
    BY <1>9, <1>10 DEF IInv, TypeOK, NothingToReplace, Filling
  <1>6. EntryInv'
    BY <1>10 DEF IInv, EntryInv
  <1>7. SettledInv'
    BY <1>9, <1>10 DEF IInv, TypeOK, Forgets, SettledInv
  <1>8. LeftoversOnlyByFaults'
    BY <1>9, <1>10 DEF IInv, TypeOK, Forgets, LeftoversOnlyByFaults, Filling, Idle
  <1> QED
    BY <1>1, <1>2, <1>3, <1>4, <1>5, <1>6, <1>7, <1>8 DEF IInv

\* The look without the lock: no directory is in hand yet.
LEMMA LookKeeps ==
  ASSUME IInv, NEW r \in Resolvers, Look(r)
  PROVE  IInv'
  <1>1. TypeOK'
    BY DEF IInv, Look, Serve, Fails, Ends, Goes, Forgets, disk, pruner,
       TypeOK, Places, Idle
  <1>2. LockInv'
    BY DEF IInv, Look, Serve, Fails, Ends, Goes, LockInv, TypeOK, Held,
       Filling
  <1>3. DirInv'
    BY DEF IInv, Look, Serve, Fails, Ends, Goes, Forgets, DirInv, TypeOK,
       Filling
  <1>4. FillInv'
    BY DEF IInv, Look, Serve, Fails, Ends, Goes, Forgets, disk, FillInv,
       TypeOK
  <1>5. NothingToReplace'
    BY DEF IInv, Look, Serve, Fails, Ends, disk, NothingToReplace, TypeOK,
       Filling
  <1>6. EntryInv'
    BY DEF IInv, Look, disk, EntryInv
  <1>7. SettledInv'
    BY DEF IInv, Look, Serve, Fails, Ends, Forgets, disk, SettledInv, DirInv,
       TypeOK
  <1>8. LeftoversOnlyByFaults'
    BY DEF IInv, Look, Serve, Fails, Ends, Goes, Forgets, disk,
       LeftoversOnlyByFaults, TypeOK, Filling
  <1> QED
    BY <1>1, <1>2, <1>3, <1>4, <1>5, <1>6, <1>7, <1>8 DEF IInv

\* The lock was free, so no other resolve holds it.
LEMMA LockKeeps ==
  ASSUME IInv, NEW r \in Resolvers, Lock(r)
  PROVE  IInv'
  <1>1. TypeOK'
    BY DEF IInv, Lock, disk, pruner, TypeOK, Places, Held
  <1>2. LockInv'
    BY CacheAssumption DEF IInv, Lock, LockInv, TypeOK, Held
  <1>3. DirInv'
    BY DEF IInv, Lock, DirInv, Filling
  <1>4. FillInv'
    BY DEF IInv, Lock, disk, FillInv
  <1>5. NothingToReplace'
    BY DEF IInv, Lock, disk, NothingToReplace, Filling
  <1>6. EntryInv'
    BY DEF IInv, Lock, disk, EntryInv
  <1>7. SettledInv'
    BY DEF IInv, Lock, disk, SettledInv
  <1>8. LeftoversOnlyByFaults'
    BY DEF IInv, Lock, disk, LeftoversOnlyByFaults, Filling
  <1> QED
    BY <1>1, <1>2, <1>3, <1>4, <1>5, <1>6, <1>7, <1>8 DEF IInv

\* The resolve did not hold the lock.
LEMMA LockFailsKeeps ==
  ASSUME IInv, NEW r \in Resolvers, LockFails(r)
  PROVE  IInv'
  <1>1. TypeOK'
    BY DEF IInv, LockFails, Fails, Ends, Forgets, disk, pruner, TypeOK,
       Places, Idle
  <1>2. LockInv'
    BY DEF IInv, LockFails, Fails, Ends, LockInv, Held, Filling
  <1>3. DirInv'
    BY DEF IInv, LockFails, Fails, Ends, Forgets, DirInv, Filling
  <1>4. FillInv'
    BY DEF IInv, LockFails, Fails, Ends, Forgets, disk, FillInv
  <1>5. NothingToReplace'
    BY DEF IInv, LockFails, Fails, Ends, disk, NothingToReplace, Filling
  <1>6. EntryInv'
    BY DEF IInv, LockFails, disk, EntryInv
  <1>7. SettledInv'
    BY DEF IInv, LockFails, Fails, Ends, Forgets, disk, SettledInv
  <1>8. LeftoversOnlyByFaults'
    BY DEF IInv, LockFails, Fails, Ends, Forgets, disk,
       LeftoversOnlyByFaults, Filling
  <1> QED
    BY <1>1, <1>2, <1>3, <1>4, <1>5, <1>6, <1>7, <1>8 DEF IInv

\* No entry now means no entry until this resolve publishes one.
LEMMA RelookKeeps ==
  ASSUME IInv, NEW r \in Resolvers, Relook(r)
  PROVE  IInv'
  <1>1. TypeOK'
    BY DEF IInv, Relook, Serve, Fails, Ends, Goes, Forgets, disk, pruner,
       TypeOK, Places, Held, Idle
  <1>2. LockInv'
    BY CacheAssumption DEF IInv, Relook, Serve, Fails, Ends, Goes, LockInv,
       TypeOK, Held, Filling
  <1>3. DirInv'
    BY DEF IInv, Relook, Serve, Fails, Ends, Goes, Forgets, DirInv, TypeOK,
       Filling
  <1>4. FillInv'
    BY DEF IInv, Relook, Serve, Fails, Ends, Goes, Forgets, disk, FillInv,
       TypeOK
  <1>5. NothingToReplace'
    BY DEF IInv, Relook, Serve, Fails, Ends, disk, NothingToReplace, TypeOK,
       Filling
  <1>6. EntryInv'
    BY DEF IInv, Relook, disk, EntryInv
  <1>7. SettledInv'
    BY DEF IInv, Relook, Serve, Fails, Ends, Forgets, disk, SettledInv,
       DirInv, TypeOK
  <1>8. LeftoversOnlyByFaults'
    BY DEF IInv, Relook, Serve, Fails, Ends, Goes, Forgets, disk,
       LeftoversOnlyByFaults, TypeOK, Filling
  <1> QED
    BY <1>1, <1>2, <1>3, <1>4, <1>5, <1>6, <1>7, <1>8 DEF IInv

\* The new directory is nobody else's, and prune has not touched it.
LEMMA FetchKeeps ==
  ASSUME IInv, NEW r \in Resolvers, Fetch(r)
  PROVE  IInv'
  <1>1. TypeOK'
    BY CacheAssumption DEF IInv, Fetch, Free, Creates, Fault, Fails, Ends,
       Goes, Forgets, disk, pruner, TypeOK, Places, Held, Filling, Idle
  <1>2. LockInv'
    BY CacheAssumption DEF IInv, Fetch, Fails, Ends, Goes, LockInv, TypeOK,
       Held, Filling
  <1>3. DirInv'
    BY DEF IInv, Fetch, Free, Fails, Ends, Goes, Forgets, DirInv, TypeOK,
       Filling
  <1>4. FillInv'
    BY DEF IInv, Fetch, Free, Creates, Fails, Ends, Goes, Forgets, disk,
       FillInv, DirInv, TypeOK, Filling
  <1>5. NothingToReplace'
    BY DEF IInv, Fetch, Creates, disk, NothingToReplace
  <1>6. EntryInv'
    BY DEF IInv, Fetch, Creates, disk, EntryInv, NothingToReplace
  <1>7. SettledInv'
    BY DEF IInv, Fetch, Creates, disk, SettledInv, NothingToReplace
  <1>8. LeftoversOnlyByFaults'
    BY DEF IInv, Fetch, Creates, Fault, Fails, Ends, Goes, Forgets, disk,
       LeftoversOnlyByFaults, TypeOK, Filling
  <1> QED
    BY <1>1, <1>2, <1>3, <1>4, <1>5, <1>6, <1>7, <1>8 DEF IInv

\* Only the resolve's own directory changes, and it is not the entry.
LEMMA ExtractKeeps ==
  ASSUME IInv, NEW r \in Resolvers, Extract(r)
  PROVE  IInv'
  <1>1. TypeOK'
    BY CacheAssumption DEF IInv, Extract, Adds, Discard, Fault, Fails, Ends,
       Goes, Forgets, pruner, TypeOK, Places, Held, Filling, Idle, Whole
  <1>2. LockInv'
    BY CacheAssumption DEF IInv, Extract, Adds, Discard, Fails, Ends, Goes,
       LockInv, TypeOK, Held, Filling
  <1>3. DirInv'
    BY CacheAssumption DEF IInv, Extract, Adds, Discard, Fails, Ends, Goes,
       Forgets, DirInv, TypeOK, Filling
  <1>4. FillInv'
    BY DEF IInv, Extract, Adds, Discard, Fails, Ends, Goes, Forgets, FillInv,
       DirInv, TypeOK, Filling
  <1>5. NothingToReplace'
    BY DEF IInv, Extract, Adds, Discard, NothingToReplace, Filling
  <1>6. EntryInv'
    BY DEF IInv, Extract, Adds, Discard, EntryInv, NothingToReplace, Filling
  <1>7. SettledInv'
    BY DEF IInv, Extract, Adds, Discard, Fails, Ends, Goes, Forgets,
       SettledInv, TypeOK
  <1>8. LeftoversOnlyByFaults'
    BY DEF IInv, Extract, Adds, Discard, Fault, Fails, Ends, Goes, Forgets,
       LeftoversOnlyByFaults, TypeOK, Filling
  <1> QED
    BY <1>1, <1>2, <1>3, <1>4, <1>5, <1>6, <1>7, <1>8 DEF IInv

\* Only the resolve's own directory changes, and it is not the entry.
LEMMA CheckKeeps ==
  ASSUME IInv, NEW r \in Resolvers, Check(r)
  PROVE  IInv'
  <1>1. TypeOK'
    BY CacheAssumption DEF IInv, Check, Discard, Fault, Fails, Ends, Goes,
       Forgets, disk, pruner, TypeOK, Places, Held, Filling, Idle
  <1>2. LockInv'
    BY CacheAssumption DEF IInv, Check, Discard, Fails, Ends, Goes, LockInv,
       TypeOK, Held, Filling
  <1>3. DirInv'
    BY CacheAssumption DEF IInv, Check, Discard, Fails, Ends, Goes, Forgets,
       DirInv, TypeOK, Filling
  <1>4. FillInv'
    BY DEF IInv, Check, Discard, Fails, Ends, Goes, Forgets, disk, FillInv,
       DirInv, TypeOK, Filling
  <1>5. NothingToReplace'
    BY DEF IInv, Check, Discard, disk, NothingToReplace, Filling
  <1>6. EntryInv'
    BY DEF IInv, Check, Discard, disk, EntryInv, NothingToReplace, Filling
  <1>7. SettledInv'
    BY DEF IInv, Check, Discard, Fails, Ends, Goes, Forgets, disk,
       SettledInv, TypeOK
  <1>8. LeftoversOnlyByFaults'
    BY DEF IInv, Check, Discard, Fault, Fails, Ends, Goes, Forgets, disk,
       LeftoversOnlyByFaults, TypeOK, Filling
  <1> QED
    BY <1>1, <1>2, <1>3, <1>4, <1>5, <1>6, <1>7, <1>8 DEF IInv

\* With the metadata the directory is whole, unless prune took the binary.
LEMMA LabelKeeps ==
  ASSUME IInv, NEW r \in Resolvers, Label(r)
  PROVE  IInv'
  <1>1. TypeOK'
    BY CacheAssumption DEF IInv, Label, Adds, Discard, Fault, Fails, Ends,
       Goes, Forgets, pruner, TypeOK, Places, Held, Filling, Idle, Whole
  <1>2. LockInv'
    BY CacheAssumption DEF IInv, Label, Adds, Discard, Fails, Ends, Goes,
       LockInv, TypeOK, Held, Filling
  <1>3. DirInv'
    BY CacheAssumption DEF IInv, Label, Adds, Discard, Fails, Ends, Goes,
       Forgets, DirInv, TypeOK, Filling
  <1>4. FillInv'
    BY DEF IInv, Label, Adds, Discard, Fails, Ends, Goes, Forgets, FillInv,
       DirInv, TypeOK, Filling, Whole
  <1>5. NothingToReplace'
    BY DEF IInv, Label, Adds, Discard, NothingToReplace, Filling
  <1>6. EntryInv'
    BY DEF IInv, Label, Adds, Discard, EntryInv, NothingToReplace, Filling
  <1>7. SettledInv'
    BY DEF IInv, Label, Adds, Discard, Fails, Ends, Goes, Forgets,
       SettledInv, TypeOK
  <1>8. LeftoversOnlyByFaults'
    BY DEF IInv, Label, Adds, Discard, Fault, Fails, Ends, Goes, Forgets,
       LeftoversOnlyByFaults, TypeOK, Filling
  <1> QED
    BY <1>1, <1>2, <1>3, <1>4, <1>5, <1>6, <1>7, <1>8 DEF IInv

\* What is whole is now durable.
LEMMA SyncKeeps ==
  ASSUME IInv, NEW r \in Resolvers, Sync(r)
  PROVE  IInv'
  <1>1. TypeOK'
    BY CacheAssumption DEF IInv, Sync, Discard, Fault, Fails, Ends, Goes,
       Forgets, pruner, TypeOK, Places, Held, Filling, Idle
  <1>2. LockInv'
    BY CacheAssumption DEF IInv, Sync, Discard, Fails, Ends, Goes, LockInv,
       TypeOK, Held, Filling
  <1>3. DirInv'
    BY CacheAssumption DEF IInv, Sync, Discard, Fails, Ends, Goes, Forgets,
       DirInv, TypeOK, Filling
  <1>4. FillInv'
    BY DEF IInv, Sync, Discard, Fails, Ends, Goes, Forgets, FillInv, DirInv,
       TypeOK, Filling
  <1>5. NothingToReplace'
    BY DEF IInv, Sync, Discard, NothingToReplace, Filling
  <1>6. EntryInv'
    BY DEF IInv, Sync, Discard, EntryInv, NothingToReplace, Filling
  <1>7. SettledInv'
    BY DEF IInv, Sync, Discard, Fails, Ends, Goes, Forgets, SettledInv,
       TypeOK
  <1>8. LeftoversOnlyByFaults'
    BY DEF IInv, Sync, Discard, Fault, Fails, Ends, Goes, Forgets,
       LeftoversOnlyByFaults, TypeOK, Filling
  <1> QED
    BY <1>1, <1>2, <1>3, <1>4, <1>5, <1>6, <1>7, <1>8 DEF IInv

\* The rename turns FillInv into EntryInv.
LEMMA PublishKeeps ==
  ASSUME IInv, NEW r \in Resolvers, Publish(r)
  PROVE  IInv'
  <1>1. TypeOK'
    <2>1. dir[r] \in Dirs /\ UNCHANGED <<ppc, name, target, pruned>>
      BY DEF IInv, Publish, DirInv, Filling, pruner
    <2>2. CASE Discard(r)
      BY CacheAssumption, <2>1, <2>2
         DEF IInv, Discard, Fault, Fails, Ends, Forgets, TypeOK, Places, Idle
    <2>3. CASE /\ entry' = dir[r]
               /\ temps' = temps \ {dir[r]}
               /\ settled' = FALSE
               /\ Goes(r, "settle")
               /\ UNCHANGED <<dir, content, durable, product, faults>>
      <3>1. pc' \in [Resolvers -> Places] /\ holder' = holder
        BY <2>3 DEF IInv, TypeOK, Goes, Places, Held
      <3>2. temps' \in SUBSET (Dirs \ {entry'})
        BY <2>3 DEF IInv, TypeOK
      <3> QED  BY <2>1, <2>3, <3>1, <3>2 DEF IInv, TypeOK
    <2>4. CASE /\ UNCHANGED faults \/ Fault
               /\ Fails(r)
               /\ UNCHANGED disk
      BY CacheAssumption, <2>1, <2>4
         DEF IInv, Fault, Fails, Ends, Forgets, disk, TypeOK, Places, Idle
    <2> QED  BY <2>2, <2>3, <2>4 DEF Publish
  <1>2. LockInv'
    BY CacheAssumption DEF IInv, Publish, Discard, Fails, Ends, Goes,
       LockInv, TypeOK, Held, Filling
  <1>3. DirInv'
    BY CacheAssumption DEF IInv, Publish, Discard, Fails, Ends, Goes,
       Forgets, DirInv, TypeOK, Filling
  <1>4. FillInv'
    BY DEF IInv, Publish, Discard, Fails, Ends, Goes, Forgets, disk, FillInv,
       DirInv, TypeOK, Filling
  <1>5. NothingToReplace'
    BY DEF IInv, Publish, Fails, Ends, Goes, NothingToReplace, LockInv,
       TypeOK, Held, Filling
  <1>6. EntryInv'
    BY DEF IInv, Publish, disk, EntryInv, FillInv, NothingToReplace, Filling
  <1>7. SettledInv'
    BY DEF IInv, Publish, Discard, Fails, Ends, Goes, Forgets, disk,
       SettledInv, DirInv, TypeOK
  <1>8. LeftoversOnlyByFaults'
    BY DEF IInv, Publish, Discard, Fault, Fails, Ends, Goes, Forgets, disk,
       LeftoversOnlyByFaults, TypeOK
  <1> QED
    BY <1>1, <1>2, <1>3, <1>4, <1>5, <1>6, <1>7, <1>8 DEF IInv

\* The entry's name becomes durable.
LEMMA SettleKeeps ==
  ASSUME IInv, NEW r \in Resolvers, Settle(r)
  PROVE  IInv'
  <1>1. TypeOK'
    BY CacheAssumption
       DEF IInv, Settle, Fails, Ends, Goes, Forgets, pruner, TypeOK, Places,
       Held, Idle
  <1>2. LockInv'
    BY CacheAssumption DEF IInv, Settle, Fails, Ends, Goes, LockInv, TypeOK,
       Held, Filling
  <1>3. DirInv'
    BY CacheAssumption DEF IInv, Settle, Fails, Ends, Goes, Forgets, DirInv,
       TypeOK, Filling
  <1>4. FillInv'
    BY DEF IInv, Settle, Fails, Ends, Goes, Forgets, FillInv, TypeOK
  <1>5. NothingToReplace'
    BY DEF IInv, Settle, Fails, Ends, Goes, NothingToReplace, TypeOK, Filling
  <1>6. EntryInv'
    BY DEF IInv, Settle, EntryInv
  <1>7. SettledInv'
    BY DEF IInv, Settle, Fails, Ends, Forgets, SettledInv, TypeOK
  <1>8. LeftoversOnlyByFaults'
    BY DEF IInv, Settle, Fails, Ends, Goes, Forgets, LeftoversOnlyByFaults,
       TypeOK, Filling
  <1> QED
    BY <1>1, <1>2, <1>3, <1>4, <1>5, <1>6, <1>7, <1>8 DEF IInv

\* The entry's name is durable when resolve returns.
LEMMA ConfirmKeeps ==
  ASSUME IInv, NEW r \in Resolvers, Confirm(r)
  PROVE  IInv'
  <1>1. TypeOK'
    BY DEF IInv, Confirm, Serve, Fails, Ends, Forgets, disk, pruner, TypeOK,
       Places, Idle
  <1>2. LockInv'
    BY CacheAssumption DEF IInv, Confirm, Serve, Fails, Ends, LockInv,
       TypeOK, Held, Filling
  <1>3. DirInv'
    BY CacheAssumption DEF IInv, Confirm, Serve, Fails, Ends, Forgets,
       DirInv, TypeOK, Filling
  <1>4. FillInv'
    BY DEF IInv, Confirm, Serve, Fails, Ends, Forgets, disk, FillInv, TypeOK
  <1>5. NothingToReplace'
    BY DEF IInv, Confirm, Serve, Fails, Ends, disk, NothingToReplace, TypeOK,
       Filling
  <1>6. EntryInv'
    BY DEF IInv, Confirm, disk, EntryInv
  <1>7. SettledInv'
    BY DEF IInv, Confirm, Serve, Fails, Ends, Forgets, disk, SettledInv,
       TypeOK
  <1>8. LeftoversOnlyByFaults'
    BY DEF IInv, Confirm, Serve, Fails, Ends, Forgets, disk,
       LeftoversOnlyByFaults, TypeOK, Filling
  <1> QED
    BY <1>1, <1>2, <1>3, <1>4, <1>5, <1>6, <1>7, <1>8 DEF IInv

\* A drop or crash releases the lock and leaves a directory, by a fault.
LEMMA StopKeeps ==
  ASSUME IInv, NEW r \in Resolvers, Stop(r)
  PROVE  IInv'
  <1>1. TypeOK'
    BY CacheAssumption DEF IInv, Stop, Fault, Fails, Ends, Forgets, disk,
       pruner, TypeOK, Places, Idle
  <1>2. LockInv'
    BY CacheAssumption DEF IInv, Stop, Fails, Ends, LockInv, TypeOK, Held,
       Filling
  <1>3. DirInv'
    BY CacheAssumption DEF IInv, Stop, Fails, Ends, Forgets, DirInv, TypeOK,
       Filling
  <1>4. FillInv'
    BY DEF IInv, Stop, Fails, Ends, Forgets, disk, FillInv, TypeOK
  <1>5. NothingToReplace'
    BY DEF IInv, Stop, Fails, Ends, disk, NothingToReplace, Filling
  <1>6. EntryInv'
    BY DEF IInv, Stop, disk, EntryInv
  <1>7. SettledInv'
    BY DEF IInv, Stop, Fails, Ends, Forgets, disk, SettledInv
  <1>8. LeftoversOnlyByFaults'
    BY DEF IInv, Stop, Fault, LeftoversOnlyByFaults, TypeOK
  <1> QED
    BY <1>1, <1>2, <1>3, <1>4, <1>5, <1>6, <1>7, <1>8 DEF IInv

-----------------------------------------------------------------------------
(* Power losses                                                              *)

\* What is whole and durable stays whole; a durable name stays, or goes with all
\* others.
LEMMA PowerLossKeeps ==
  ASSUME IInv, PowerLoss
  PROVE  IInv'
  <1>1. TypeOK'
    <2>1. /\ entry' \in Dirs \union {None} /\ temps' \in SUBSET (Dirs \ {entry'})
          /\ content' \in [Dirs -> SUBSET Whole] /\ durable' \in [Dirs -> SUBSET Whole]
          /\ product' \in {"absent", "fresh", "kept"}
      <3>1. CASE Reverts
        BY <3>1, CacheAssumption DEF IInv, Reverts, TypeOK
      <3>2. CASE Vanishes
        BY <3>2 DEF Vanishes
      <3> QED  BY <3>1, <3>2 DEF PowerLoss
    <2> QED
      BY <2>1, CacheAssumption DEF IInv, PowerLoss, Fault, TypeOK, Places, Idle
  <1>2. LockInv'
    BY CacheAssumption DEF PowerLoss, LockInv, Held, Filling
  <1>3. DirInv'
    BY CacheAssumption DEF PowerLoss, DirInv, Filling
  <1>4. FillInv'
    BY DEF PowerLoss, FillInv
  <1>5. NothingToReplace'
    BY DEF PowerLoss, NothingToReplace, Filling
  <1>6. EntryInv'
    BY DEF IInv, PowerLoss, Reverts, Vanishes, EntryInv, TypeOK, Whole
  <1>7. SettledInv'
    BY DEF PowerLoss, SettledInv
  <1>8. LeftoversOnlyByFaults'
    BY DEF IInv, PowerLoss, Fault, LeftoversOnlyByFaults, TypeOK
  <1> QED
    BY <1>1, <1>2, <1>3, <1>4, <1>5, <1>6, <1>7, <1>8 DEF IInv

-----------------------------------------------------------------------------
(* The steps of prune                                                        *)

\* A step that leaves the resolvers and the disk alone keeps all but the types.
LEMMA QuietKeeps ==
  ASSUME IInv, TypeOK', UNCHANGED <<resolver, disk, pruned, faults>>
  PROVE  IInv'
  <1>1. LockInv' /\ DirInv' /\ FillInv'
    BY DEF IInv, resolver, disk, LockInv, DirInv, FillInv
  <1>2. NothingToReplace' /\ EntryInv'
    BY DEF IInv, resolver, disk, NothingToReplace, EntryInv
  <1>3. SettledInv' /\ LeftoversOnlyByFaults'
    BY DEF IInv, resolver, disk, SettledInv, LeftoversOnlyByFaults
  <1> QED  BY <1>1, <1>2, <1>3 DEF IInv

LEMMA PruneQuietKeeps ==
  ASSUME IInv, NEW p \in Pruners, PruneFind(p) \/ PruneOpen(p) \/ PruneStop(p)
  PROVE  IInv'
  <1>1. CASE PruneFind(p)
    <2>1. TypeOK'
      BY <1>1 DEF IInv, PruneFind, resolver, disk, TypeOK
    <2> QED  BY <1>1, <2>1, QuietKeeps DEF PruneFind
  <1>2. CASE PruneOpen(p)
    <2>1. TypeOK'
      BY <1>2 DEF IInv, PruneOpen, Named, resolver, disk, TypeOK
    <2> QED  BY <1>2, <2>1, QuietKeeps DEF PruneOpen
  <1>3. CASE PruneStop(p)
    <2>1. TypeOK'
      BY <1>3 DEF IInv, PruneStop, Leaves, resolver, disk, TypeOK
    <2> QED  BY <1>3, <2>1, QuietKeeps DEF PruneStop
  <1> QED  BY <1>1, <1>2, <1>3

\* The directory that loses a file is marked as pruned.
LEMMA PruneUnlinkKeeps ==
  ASSUME IInv, NEW p \in Pruners, PruneUnlink(p)
  PROVE  IInv'
  <1>1. TypeOK'
    BY DEF IInv, PruneUnlink, resolver, pruner, TypeOK
  <1>2. LockInv'
    BY DEF IInv, PruneUnlink, resolver, LockInv
  <1>3. DirInv'
    BY DEF IInv, PruneUnlink, resolver, DirInv
  <1>4. FillInv'
    BY DEF IInv, PruneUnlink, resolver, FillInv
  <1>5. NothingToReplace'
    BY DEF IInv, PruneUnlink, resolver, NothingToReplace
  <1>6. EntryInv'
    BY DEF IInv, PruneUnlink, EntryInv
  <1>7. SettledInv'
    BY DEF IInv, PruneUnlink, resolver, SettledInv
  <1>8. LeftoversOnlyByFaults'
    BY DEF IInv, PruneUnlink, resolver, LeftoversOnlyByFaults
  <1> QED
    BY <1>1, <1>2, <1>3, <1>4, <1>5, <1>6, <1>7, <1>8 DEF IInv

\* An empty directory that matters was pruned before.
LEMMA PruneRemoveKeeps ==
  ASSUME IInv, NEW p \in Pruners, PruneRemove(p)
  PROVE  IInv'
  <1>1. TypeOK'
    BY CacheAssumption DEF IInv, PruneRemove, Named, Leaves, resolver, TypeOK
  <1>2. LockInv'
    BY DEF IInv, PruneRemove, resolver, LockInv
  <1>3. DirInv'
    BY DEF IInv, PruneRemove, resolver, DirInv
  <1>4. FillInv'
    <2>1. \A s \in Resolvers :
             pc[s] \in {"sync", "publish"} /\ dir[s] = Named(p) => dir[s] \in pruned
      BY DEF IInv, PruneRemove, FillInv, Whole
    <2> QED
      BY <2>1 DEF IInv, PruneRemove, resolver, FillInv, DirInv, Filling, TypeOK
  <1>5. NothingToReplace'
    BY DEF IInv, PruneRemove, resolver, NothingToReplace
  <1>6. EntryInv'
    BY DEF IInv, PruneRemove, EntryInv
  <1>7. SettledInv'
    BY DEF IInv, PruneRemove, resolver, SettledInv
  <1>8. LeftoversOnlyByFaults'
    BY DEF IInv, PruneRemove, resolver, LeftoversOnlyByFaults
  <1> QED
    BY <1>1, <1>2, <1>3, <1>4, <1>5, <1>6, <1>7, <1>8 DEF IInv

-----------------------------------------------------------------------------
(* The theorems                                                              *)

LEMMA NextKeeps == IInv /\ [Next]_vars => IInv'
  <1> SUFFICES ASSUME IInv, [Next]_vars PROVE IInv'
    OBVIOUS
  <1>1. CASE UNCHANGED vars
    <2>1. TypeOK'
      BY <1>1 DEF IInv, vars, resolver, disk, pruner, TypeOK
    <2> QED  BY <1>1, <2>1, QuietKeeps DEF vars
  <1>2. ASSUME NEW r \in Resolvers, Resolve(r) PROVE IInv'
    <2>1. CASE Step(r)
      BY <2>1, LookKeeps, RelookKeeps, FetchKeeps, ExtractKeeps, CheckKeeps,
         LabelKeeps, SyncKeeps, PublishKeeps, SettleKeeps, ConfirmKeeps DEF Step
    <2> QED
      BY <1>2, <2>1, BeginKeeps, LockKeeps, LockFailsKeeps, StopKeeps DEF Resolve
  <1>3. ASSUME NEW p \in Pruners, Prune(p) PROVE IInv'
    BY <1>3, PruneQuietKeeps, PruneUnlinkKeeps, PruneRemoveKeeps DEF Prune
  <1> QED  BY <1>1, <1>2, <1>3, PowerLossKeeps DEF Next

\* The inductive invariant holds in every reachable state.
THEOREM CacheInvariant == Spec => []IInv
  BY InitHolds, NextKeeps, PTL DEF Spec

\* Every variable keeps its type; the directory at the entry's name has no
\* temporary name any more (the rename of resolve moves it).
THEOREM CacheTypeCorrect == Spec => []TypeOK
  <1>1. IInv => TypeOK
    BY DEF IInv
  <1> QED  BY <1>1, CacheInvariant, PTL

\* The second look of resolve, under the lock, is enough: no resolve downloads
\* or publishes while there is an entry.
THEOREM NeverReplaced == Spec => []NothingToReplace
  <1>1. IInv => NothingToReplace
    BY DEF IInv
  <1> QED  BY <1>1, CacheInvariant, PTL

\* The syncs and the rename of resolve are enough: only prune makes an entry
\* partial.
THEOREM OnlyPruneHurts == Spec => []PartialOnlyByPrune
  <1>1. IInv => PartialOnlyByPrune
    BY DEF IInv, EntryInv, PartialOnlyByPrune
  <1> QED  BY <1>1, CacheInvariant, PTL

\* Without faults, no error path of resolve leaves a temporary directory.
THEOREM CleansUp == Spec => []LeftoversOnlyByFaults
  <1>1. IInv => LeftoversOnlyByFaults
    BY DEF IInv
  <1> QED  BY <1>1, CacheInvariant, PTL

\* The actions that change the entry's name are the rename, which meets no
\* entry, a power loss before the sync or with the product's directory, and prune.
LEMMA StepLasts ==
  ASSUME IInv, [Next]_vars,
         NEW r \in Resolvers, pc[r] = "found", entry # None, dir[r] = entry,
         entry \notin pruned
  PROVE  entry' = entry \/ (product = "fresh" /\ product' = "absent")
  <1>1. settled /\ content[entry] = Whole
    BY DEF IInv, SettledInv, EntryInv
  <1>2. CASE UNCHANGED vars
    BY <1>2 DEF vars, disk
  <1>3. ASSUME NEW s \in Resolvers, Resolve(s) PROVE entry' = entry
    <2>1. pc[s] \notin {"fetch"} \union Filling
      BY DEF IInv, NothingToReplace
    <2> QED
      BY <1>3, <2>1 DEF Resolve, Step, Begin, Look, Lock, LockFails, Relook, Fetch,
         Extract, Check, Label, Sync, Publish, Settle, Confirm, Stop, Filling, disk
  <1>4. ASSUME NEW p \in Pruners, Prune(p) PROVE entry' = entry
    BY <1>1, <1>4 DEF Prune, PruneFind, PruneOpen, PruneUnlink, PruneRemove,
       PruneStop, Named, Whole, disk
  <1>5. CASE PowerLoss
    BY <1>1, <1>5 DEF PowerLoss, Reverts, Vanishes
  <1> QED  BY <1>2, <1>3, <1>4, <1>5 DEF Next

\* An entry that resolve published and returned keeps its name, through power
\* losses too, until prune removes a file of it or a power loss takes the whole
\* directory of the product, whose own name resolve never makes durable.
THEOREM EntryLasts == Spec => PublishedLasts
  <1> DEFINE Lasts == \A r \in Resolvers :
        pc[r] = "found" /\ entry # None /\ dir[r] = entry /\ entry \notin pruned
          => entry' = entry \/ (product = "fresh" /\ product' = "absent")
  <1>1. IInv /\ [Next]_vars => [Lasts]_vars
    BY StepLasts
  <1> QED  BY <1>1, CacheInvariant, PTL DEF Spec, PublishedLasts
=============================================================================
