---------------------------- MODULE ToolchainCache ----------------------------
(***************************************************************************)
(* The cache of Terraform and OpenTofu binaries: ToolchainResolver::resolve  *)
(* (toolchain.rs) run by several agents that share the cache directory, and  *)
(* the command "cache prune" (diagnostics.rs) run beside them.               *)
(*                                                                         *)
(* One cache entry is modelled: the directory named after the checksum of    *)
(* one release.  Entries of other releases have locks of their own and share *)
(* nothing with it.  A directory has an identity, a name that may change (a  *)
(* temporary name, then the entry's) and contents, because prune looks a     *)
(* name up, opens what it then stands for, and removes files from the open   *)
(* directory whatever its name has become.                                   *)
(*                                                                         *)
(* The lock is flock(2): it goes with the process that holds it.  A resolve  *)
(* that is dropped while it waits leaves a thread that takes the lock and    *)
(* releases it at once; that is a stutter here.                              *)
(***************************************************************************)
EXTENDS Naturals

CONSTANTS
  Resolvers,   \* the agents; each runs one resolve at a time
  Pruners,     \* runs of "cache prune"
  Dirs,        \* bound: directories that exist at the same time
  None,        \* no directory, or no process
  MaxFaults    \* bound: stopped processes, power losses, failing file operations

ASSUME CacheAssumption ==
  None \notin Resolvers /\ None \notin Dirs /\ MaxFaults \in Nat

VARIABLES
  pc,          \* per resolver: where resolve is; "found" when it returned a
               \* binary of the cache, "idle" before it and when it failed
  dir,         \* per resolver: the directory it fills (temp_dir)
  holder,      \* the resolver that holds CacheLock
  entry,       \* the directory at the entry's name (entry_dir)
  temps,       \* the directories that still have their temporary name
  content,     \* per directory: the files in it
  durable,     \* per directory: the files in it that would survive a power loss
  settled,     \* the entry's name would survive a power loss
  product,     \* the product's directory, which holds the entry: "absent", "fresh"
               \* when its own name may not survive a power loss, or "kept"
  ppc,         \* per pruner: where remove_dir_all is
  name,        \* per pruner: the kind of the name it was given
  target,      \* per pruner: the directory it found, then the one it opened
  pruned,      \* history: directories that prune removed a file from
  faults       \* the bound's counter

resolver == <<pc, dir, holder>>
disk == <<entry, temps, content, durable, settled, product>>
pruner == <<ppc, name, target>>
vars == <<resolver, disk, pruner, pruned, faults>>

Whole == {"binary", "metadata"}

\* The steps of resolve from which CacheLock is held, and the ones from which
\* temp_dir exists.
Filling == {"extract", "check", "label", "sync", "publish"}
Held == {"relook", "fetch", "settle", "confirm"} \union Filling
Idle == {"idle", "found"}
Places == {"look", "lock"} \union Held \union Idle

TypeOK ==
  /\ pc \in [Resolvers -> Places]
  /\ dir \in [Resolvers -> Dirs \union {None}]
  /\ holder \in Resolvers \union {None}
  /\ entry \in Dirs \union {None}
  /\ temps \in SUBSET (Dirs \ {entry})
  /\ content \in [Dirs -> SUBSET Whole]
  /\ durable \in [Dirs -> SUBSET Whole]
  /\ settled \in BOOLEAN
  /\ product \in {"absent", "fresh", "kept"}
  /\ ppc \in [Pruners -> {"idle", "found", "open"}]
  /\ name \in [Pruners -> {"entry", "temp"}]
  /\ target \in [Pruners -> Dirs \union {None}]
  /\ \A p \in Pruners : ppc[p] # "idle" => target[p] \in Dirs
  /\ pruned \in SUBSET Dirs
  /\ faults \in 0 .. MaxFaults

Init ==
  /\ pc = [r \in Resolvers |-> "idle"]
  /\ dir = [r \in Resolvers |-> None]
  /\ holder = None
  /\ entry = None
  /\ temps = {}
  /\ content = [d \in Dirs |-> {}]
  /\ durable = [d \in Dirs |-> {}]
  /\ settled = TRUE
  /\ product \in {"absent", "kept"}
  /\ ppc = [p \in Pruners |-> "idle"]
  /\ name = [p \in Pruners |-> "entry"]
  /\ target = [p \in Pruners |-> None]
  /\ pruned = {}
  /\ faults = 0

-----------------------------------------------------------------------------
(* Helpers                                                                   *)

Fault == faults < MaxFaults /\ faults' = faults + 1

Goes(r, p) == pc' = [pc EXCEPT ![r] = p] /\ UNCHANGED holder

\* resolve returns, or is dropped: CacheLock::drop.
Ends(r, p) ==
  /\ pc' = [pc EXCEPT ![r] = p]
  /\ holder' = IF holder = r THEN None ELSE holder

Forgets(r) == dir' = [dir EXCEPT ![r] = None]

\* resolve returns an error.
Fails(r) == Ends(r, "idle") /\ Forgets(r)

\* cached_binary when there is an entry: it is served when both files are
\* there; a partial entry is an error, and so is one that cannot be checked
\* (the binary's version command fails or takes too long).
Serve(r) ==
  /\ entry # None
  /\ \/ content[entry] = Whole /\ Ends(r, "found") /\ UNCHANGED dir
     \/ Fails(r)

\* Mutant of Discard: the temporary directory is left.
DiscardNothing(r) ==
  /\ Fails(r)
  /\ UNCHANGED <<disk, faults>>

\* publish_archive failed, or the entry appeared: the temporary directory is
\* removed, and an error of that is ignored.
Discard(r) ==
  /\ Fails(r)
  /\ \/ /\ temps' = temps \ {dir[r]}
        /\ content' = [content EXCEPT ![dir[r]] = {}]
        /\ durable' = [durable EXCEPT ![dir[r]] = {}]
        /\ UNCHANGED faults
     \/ Fault /\ UNCHANGED <<temps, content, durable>>
  /\ UNCHANGED <<entry, settled, product>>

-----------------------------------------------------------------------------
(* resolve                                                                   *)

\* secure_directory creates the directories of the cache and of the product when
\* they are missing, and syncs neither's parent.
Made == IF product = "absent" THEN "fresh" ELSE product

\* A job asks for the binary.  Either it gets no further than this (an installed
\* one fits, release_details or a check of the directories fails), or the cache
\* is looked at.
Begin(r) ==
  /\ pc[r] \in Idle
  /\ \/ Goes(r, "idle") /\ product' \in {product, Made}
     \/ Goes(r, "look") /\ product' = Made
  /\ Forgets(r)
  /\ UNCHANGED <<entry, temps, content, durable, settled, pruner, pruned, faults>>

\* cached_binary without the lock.
Look(r) ==
  /\ pc[r] = "look"
  /\ Serve(r) \/ (entry = None /\ Goes(r, "lock") /\ UNCHANGED dir)
  /\ UNCHANGED <<disk, pruner, pruned, faults>>

\* Mutant of Lock: the entry is not looked at again.
LockAndFetch(r) ==
  /\ pc[r] = "lock"
  /\ holder = None
  /\ holder' = r
  /\ pc' = [pc EXCEPT ![r] = "fetch"]
  /\ UNCHANGED <<dir, disk, pruner, pruned, faults>>

\* CacheLock::acquire: waits until the lock is free.
Lock(r) ==
  /\ pc[r] = "lock"
  /\ holder = None
  /\ holder' = r
  /\ pc' = [pc EXCEPT ![r] = "relook"]
  /\ UNCHANGED <<dir, disk, pruner, pruned, faults>>

LockFails(r) ==
  /\ pc[r] = "lock"
  /\ Fails(r)
  /\ UNCHANGED <<disk, pruner, pruned, faults>>

\* cached_binary with the lock.
Relook(r) ==
  /\ pc[r] = "relook"
  /\ Serve(r) \/ (entry = None /\ Goes(r, "fetch") /\ UNCHANGED dir)
  /\ UNCHANGED <<disk, pruner, pruned, faults>>

\* Directories nothing refers to.
Free ==
  {d \in Dirs \ temps : /\ d # entry
                        /\ \A r \in Resolvers : dir[r] # d
                        /\ \A p \in Pruners : target[p] # d}

\* temporary_entry_dir gives d a temporary name.
Creates(d) ==
  /\ temps' = temps \union {d}
  /\ content' = [content EXCEPT ![d] = {}]
  /\ durable' = [durable EXCEPT ![d] = {}]
  /\ pruned' = pruned \ {d}
  /\ UNCHANGED <<entry, settled, product>>

\* The download, the comparison of its checksum, and temporary_entry_dir, which
\* leaves the directory behind when it cannot set its permissions.
Fetch(r) ==
  /\ pc[r] = "fetch"
  /\ \/ Fails(r) /\ UNCHANGED <<disk, pruned, faults>>
     \/ \E d \in Free :
          /\ Creates(d)
          /\ \/ /\ Goes(r, "extract")
                /\ dir' = [dir EXCEPT ![r] = d]
                /\ UNCHANGED faults
             \/ Fault /\ Fails(r)
  /\ UNCHANGED pruner

\* A file is created in the temporary directory, which must still be there.
Adds(r, file, p) ==
  /\ dir[r] \in temps
  /\ content' = [content EXCEPT ![dir[r]] = @ \union {file}]
  /\ Goes(r, p)
  /\ UNCHANGED <<dir, entry, temps, durable, settled, product, faults>>

\* extract_executable.
Extract(r) ==
  /\ pc[r] = "extract"
  /\ Adds(r, "binary", "check") \/ Discard(r)
  /\ UNCHANGED <<pruner, pruned>>

\* binary_version runs the new binary, and the versions are compared.
Check(r) ==
  /\ pc[r] = "check"
  /\ \/ /\ dir[r] \in temps /\ "binary" \in content[dir[r]]
        /\ Goes(r, "label")
        /\ UNCHANGED <<dir, disk, faults>>
     \/ Discard(r)
  /\ UNCHANGED <<pruner, pruned>>

\* digest_file and the creation of metadata.json.
Label(r) ==
  /\ pc[r] = "label"
  /\ \/ "binary" \in content[dir[r]] /\ Adds(r, "metadata", "sync")
     \/ Discard(r)
  /\ UNCHANGED <<pruner, pruned>>

\* Mutant of Sync: nothing is made durable before the rename.
SyncNothing(r) ==
  /\ pc[r] = "sync"
  /\ \/ /\ dir[r] \in temps
        /\ Goes(r, "publish")
        /\ UNCHANGED <<dir, disk, faults>>
     \/ Discard(r)
  /\ UNCHANGED <<pruner, pruned>>

\* sync_all of the files and sync_directory of the temporary directory: what
\* is in it now survives a power loss.
Sync(r) ==
  /\ pc[r] = "sync"
  /\ \/ /\ dir[r] \in temps
        /\ durable' = [durable EXCEPT ![dir[r]] = content[dir[r]]]
        /\ Goes(r, "publish")
        /\ UNCHANGED <<dir, entry, temps, content, settled, product, faults>>
     \/ Discard(r)
  /\ UNCHANGED <<pruner, pruned>>

\* Mutant of Publish: the directory is linked at the entry's name and keeps
\* its temporary name.
PublishCopy(r) ==
  /\ pc[r] = "publish"
  /\ entry = None
  /\ dir[r] \in temps
  /\ entry' = dir[r]
  /\ settled' = FALSE
  /\ Goes(r, "settle")
  /\ UNCHANGED <<dir, temps, content, durable, product, pruner, pruned, faults>>

\* The check that the entry did not appear, and the rename.  When the rename
\* fails the temporary directory stays.
Publish(r) ==
  /\ pc[r] = "publish"
  /\ \/ entry # None /\ Discard(r)
     \/ /\ entry = None
        /\ dir[r] \in temps
        /\ entry' = dir[r]
        /\ temps' = temps \ {dir[r]}
        /\ settled' = FALSE
        /\ Goes(r, "settle")
        /\ UNCHANGED <<dir, content, durable, product, faults>>
     \/ /\ entry = None
        /\ (dir[r] \notin temps /\ UNCHANGED faults) \/ Fault
        /\ Fails(r)
        /\ UNCHANGED disk
  /\ UNCHANGED <<pruner, pruned>>

\* Mutant of Settle: the directory of the entry is not synced.
SettleUnsynced(r) ==
  /\ pc[r] = "settle"
  /\ Goes(r, "confirm")
  /\ UNCHANGED <<dir, disk, pruner, pruned, faults>>

\* sync_directory of the product's directory, which may fail.  It makes the entry's
\* name durable in that directory, not the directory's own name.
Settle(r) ==
  /\ pc[r] = "settle"
  /\ \/ settled' = TRUE /\ Goes(r, "confirm") /\ UNCHANGED dir
     \/ Fails(r) /\ UNCHANGED settled
  /\ UNCHANGED <<entry, temps, content, durable, product, pruner, pruned, faults>>

\* cached_binary of what was published.
Confirm(r) ==
  /\ pc[r] = "confirm"
  /\ Serve(r) \/ (entry = None /\ Fails(r))
  /\ UNCHANGED <<disk, pruner, pruned, faults>>

-----------------------------------------------------------------------------
(* What stops a resolve                                                      *)

\* Mutant of Stop: the lock is a file that outlives its owner.
StopKeepingLock(r) ==
  /\ Fault
  /\ pc[r] \notin Idle
  /\ Goes(r, "idle")
  /\ Forgets(r)
  /\ UNCHANGED <<disk, pruner, pruned>>

\* The deadline of the job drops the future (await_deadline), or the process
\* dies: the lock is released and the temporary directory stays.
Stop(r) ==
  /\ Fault
  /\ pc[r] \notin Idle
  /\ Fails(r)
  /\ UNCHANGED <<disk, pruner, pruned>>

\* What was not synced may be lost or, for a removal or a rename, undone.
Reverts ==
  /\ \E after \in [Dirs -> SUBSET Whole] :
       /\ \A d \in Dirs : /\ content[d] \intersect durable[d] \subseteq after[d]
                          /\ after[d] \subseteq content[d] \union durable[d]
       /\ content' = after
       /\ durable' = after
  /\ \/ UNCHANGED <<entry, temps>>
     \/ /\ ~settled /\ entry # None
        /\ entry' = None
        /\ temps' = temps \union {entry}
  /\ product' = IF product = "fresh" THEN "kept" ELSE product

\* The product's directory is gone with all that was in it.
Vanishes ==
  /\ product = "fresh"
  /\ product' = "absent"
  /\ entry' = None /\ temps' = {}
  /\ content' = [d \in Dirs |-> {}]
  /\ durable' = [d \in Dirs |-> {}]

\* Every process stops.
PowerLoss ==
  /\ Fault
  /\ pc' = [r \in Resolvers |-> "idle"]
  /\ dir' = [r \in Resolvers |-> None]
  /\ holder' = None
  /\ ppc' = [p \in Pruners |-> "idle"]
  /\ target' = [p \in Pruners |-> None]
  /\ name' = [p \in Pruners |-> "entry"]
  /\ Reverts \/ Vanishes
  /\ settled' = TRUE
  /\ UNCHANGED pruned

-----------------------------------------------------------------------------
(* cache prune                                                               *)

\* What the pruner's name stands for now.
Named(p) ==
  IF name[p] = "entry" THEN entry
  ELSE IF target[p] \in temps THEN target[p] ELSE None

\* prune_cache finds a directory, an entry or a temporary one, without a
\* binary.
PruneFind(p) ==
  /\ ppc[p] = "idle"
  /\ \E d \in temps \union ({entry} \ {None}) :
       /\ "binary" \notin content[d]
       /\ target' = [target EXCEPT ![p] = d]
       /\ name' = [name EXCEPT ![p] = IF d = entry THEN "entry" ELSE "temp"]
  /\ ppc' = [ppc EXCEPT ![p] = "found"]
  /\ UNCHANGED <<resolver, disk, pruned, faults>>

\* remove_dir_all opens the directory by its name.
PruneOpen(p) ==
  /\ ppc[p] = "found"
  /\ Named(p) # None
  /\ target' = [target EXCEPT ![p] = Named(p)]
  /\ ppc' = [ppc EXCEPT ![p] = "open"]
  /\ UNCHANGED <<resolver, disk, name, pruned, faults>>

\* It removes a file of the open directory.
PruneUnlink(p) ==
  /\ ppc[p] = "open"
  /\ \E file \in content[target[p]] :
       content' = [content EXCEPT ![target[p]] = @ \ {file}]
  /\ pruned' = pruned \union {target[p]}
  /\ UNCHANGED <<resolver, pruner, entry, temps, durable, settled, product, faults>>

Leaves(p) ==
  /\ ppc' = [ppc EXCEPT ![p] = "idle"]
  /\ name' = [name EXCEPT ![p] = "entry"]
  /\ target' = [target EXCEPT ![p] = None]

\* It removes the directory, by name and only if it is empty.
PruneRemove(p) ==
  /\ ppc[p] = "open"
  /\ Named(p) # None
  /\ content[Named(p)] = {}
  /\ entry' = IF name[p] = "entry" THEN None ELSE entry
  /\ temps' = temps \ {Named(p)}
  /\ durable' = [durable EXCEPT ![Named(p)] = {}]
  /\ Leaves(p)
  /\ UNCHANGED <<resolver, content, settled, product, pruned, faults>>

\* It fails (the name is gone, a file appeared, a removal is refused) or its
\* process ends.
PruneStop(p) ==
  /\ ppc[p] # "idle"
  /\ Leaves(p)
  /\ UNCHANGED <<resolver, disk, pruned, faults>>

-----------------------------------------------------------------------------

\* The steps of resolve that wait for nobody.
Step(r) ==
  \/ Look(r) \/ Relook(r) \/ Fetch(r) \/ Extract(r) \/ Check(r) \/ Label(r)
  \/ Sync(r) \/ Publish(r) \/ Settle(r) \/ Confirm(r)

Resolve(r) == Begin(r) \/ Lock(r) \/ LockFails(r) \/ Step(r) \/ Stop(r)

Prune(p) ==
  PruneFind(p) \/ PruneOpen(p) \/ PruneUnlink(p) \/ PruneRemove(p) \/ PruneStop(p)

Next == (\E r \in Resolvers : Resolve(r)) \/ (\E p \in Pruners : Prune(p)) \/ PowerLoss

Spec == Init /\ [][Next]_vars

\* A resolve goes on (its downloads and commands have time limits of their
\* own), and one that waits for the lock gets it when it is free again and
\* again: the kernel queues the waiters of flock.  Nothing is assumed of prune.
Fairness == \A r \in Resolvers : WF_vars(Step(r)) /\ SF_vars(Lock(r))

FairSpec == Spec /\ Fairness

-----------------------------------------------------------------------------
(* Properties                                                                *)

\* While a resolve downloads and fills a directory there is no entry: an entry
\* that is in use is never downloaded again, replaced or hidden, and the error
\* "cache entry appeared while publishing" (resolve) never occurs.
NothingToReplace ==
  \A r \in Resolvers : pc[r] \in {"fetch"} \union Filling => entry = None

\* An entry that lacks a file has lost it to prune: neither a failure or a
\* drop of resolve anywhere, nor another agent, nor a power loss leaves a
\* partial entry, which cached_binary would refuse for ever.
PartialOnlyByPrune ==
  entry # None /\ content[entry] # Whole => entry \in pruned

\* Without a fault, each temporary directory belongs to a resolve that is
\* filling it: every error path of resolve cleans up.
LeftoversOnlyByFaults ==
  faults = 0 => \A d \in temps : \E r \in Resolvers : pc[r] \in Filling /\ dir[r] = d

\* Once the resolve that published an entry has returned it, the entry's name
\* stands for that directory until prune has removed something of it, through
\* power losses too, except one that takes the product's whole directory, created
\* since the last one and never synced by its name (resolve, secure_directory).
PublishedLasts ==
  [][\A r \in Resolvers :
       pc[r] = "found" /\ entry # None /\ dir[r] = entry /\ entry \notin pruned
         => entry' = entry \/ (product = "fresh" /\ product' = "absent")]_vars

\* Every resolve returns, though the agent that holds the lock may stop at any
\* step.
ResolveEnds == \A r \in Resolvers : pc[r] = "look" ~> pc[r] \in Idle
=============================================================================
