---------------------------- MODULE StorageCampaign ----------------------------
(***************************************************************************)
(* qualify:notebook-product-host:storage: after the build, a disk image of *)
(* its own is mounted for every browser and filled until the disk is full. *)
(* product-host-storage.runtime.ts guards the tree's runtime directory with*)
(* a lock file that holds the owner's process id;                          *)
(* product-host-storage.playwright.ts mounts and detaches the images.  The *)
(* lock is the tree's; what `hdiutil info` shows of mounted images is the  *)
(* machine's.                                                              *)
(***************************************************************************)
EXTENDS QualificationCampaign

VARIABLES
  storageLock, (* Who made each tree's target/...-storage.lock.            *)
  roots,       (* The browsers that have a directory in each tree's runtime*)
  mounted      (* The browsers whose image is mounted there.               *)

storageVars == <<storageLock, roots, mounted>>

InitStorage ==
  /\ storageLock = [w \in Worktrees |-> None]
  /\ roots = [w \in Worktrees |-> {}]
  /\ mounted = [w \in Worktrees |-> {}]

\* qualificationVolumeIsMounted: an image of any tree shows.
VolumeIsMounted(volumes) == \E w \in Worktrees : volumes[w] # {}

-----------------------------------------------------------------------------
(* prepareStorageRuntime, Playwright's global setup.                       *)

\* open(..., "wx"): a lock that is there refuses, whether its owner is alive,
\* dead, or has not written its process id yet.
AcquireLock(c) ==
  /\ pc[c] = "acquiring"
  /\ IF storageLock[Home(c)] = None
       THEN /\ storageLock' = [storageLock EXCEPT ![Home(c)] = c]
            /\ Goto(c, "signing")
       ELSE Goto(c, "failed") /\ UNCHANGED storageLock
  /\ UNCHANGED <<plan, at, red, processes, head, moved, wasm, built, output, roots, mounted>>

SignLock(c) ==
  /\ pc[c] = "signing"
  /\ \/ Goto(c, "detaching") /\ UNCHANGED storageLock
     \/ /\ storageLock' = [storageLock EXCEPT ![Home(c)] = None]
        /\ Goto(c, "failed")
  /\ UNCHANGED <<plan, at, red, processes, head, moved, wasm, built, output, roots, mounted>>

\* A forced detach of the tree's images; each may fail.
Detach(c) == \E stuck \in SUBSET mounted[Home(c)] : mounted' = [mounted EXCEPT ![Home(c)] = stuck]

DetachVolumes(c) ==
  /\ pc[c] = "detaching"
  /\ Detach(c)
  /\ ~VolumeIsMounted(mounted')
  /\ Goto(c, "emptying")
  /\ UNCHANGED <<plan, at, red, processes, head, moved, wasm, built, output, storageLock,
                 roots>>

\* An image is still mounted, or hdiutil does not answer, or the directory
\* cannot be removed.  The lock goes if no image shows; if hdiutil does not
\* answer, one is taken to be there.
PrepareFails(c) ==
  /\ pc[c] \in {"detaching", "emptying"}
  /\ IF pc[c] = "detaching" THEN Detach(c) ELSE UNCHANGED mounted
  /\ \/ UNCHANGED storageLock
     \/ /\ ~VolumeIsMounted(mounted')
        /\ storageLock' = [storageLock EXCEPT ![Home(c)] = None]
  /\ Goto(c, "failed")
  /\ UNCHANGED <<plan, at, red, processes, head, moved, wasm, built, output, roots>>

EmptyRuntime(c) ==
  /\ pc[c] = "emptying"
  /\ roots' = [roots EXCEPT ![Home(c)] = {}]
  /\ Goto(c, "rooting")
  /\ UNCHANGED <<plan, at, red, processes, head, moved, wasm, built, output, storageLock,
                 mounted>>

-----------------------------------------------------------------------------
(* product-host-storage.playwright.ts, once for every browser.             *)
Taken(things, c) == [things EXCEPT ![Home(c)] = @ \ {at[c]}]
Added(things, c) == [things EXCEPT ![Home(c)] = @ \cup {at[c]}]

MakeRoot(c) ==
  /\ pc[c] = "rooting"
  /\ at[c] \notin roots[Home(c)]
  /\ roots' = Added(roots, c)
  /\ Goto(c, "mounting")
  /\ UNCHANGED <<plan, at, red, processes, head, moved, wasm, built, output, storageLock,
                 mounted>>

\* The directory is there already, or the host lacks the free space and the
\* directory is removed again.
RootFails(c) ==
  /\ pc[c] = "rooting"
  /\ Mark(c, TRUE)
  /\ NextBrowser(c, "rooting", "cleaning")
  /\ UNCHANGED <<plan, processes, head, moved, wasm, built, output, storageVars>>

\* createBoundedApfsVolume, and the browser with its profile on the image.
Mount(c) ==
  /\ pc[c] = "mounting"
  /\ mounted' = Added(mounted, c)
  /\ processes' = processes \cup {c}
  /\ Goto(c, "filling")
  /\ UNCHANGED <<plan, at, red, head, moved, wasm, built, output, storageLock, roots>>

\* The image is not created or not attached, or it is not the file system
\* asked for and is detached; the directory stays below an image that is not.
MountFails(c) ==
  /\ pc[c] = "mounting"
  /\ \/ roots' = Taken(roots, c) /\ UNCHANGED mounted
     \/ mounted' = Added(mounted, c) /\ UNCHANGED roots
  /\ Mark(c, TRUE)
  /\ NextBrowser(c, "rooting", "cleaning")
  /\ UNCHANGED <<plan, processes, head, moved, wasm, built, output, storageLock>>

\* The disk is filled, the restore refused, the profile opened again.
Fill(c) ==
  /\ pc[c] = "filling"
  /\ \E failed \in BOOLEAN : Mark(c, failed)
  /\ Goto(c, "unmounting")
  /\ UNCHANGED <<plan, at, processes, head, moved, wasm, built, output, storageVars>>

\* detach, forced when the plain one fails; where that fails too the
\* directory stays for the teardown.
Unmount(c) ==
  /\ pc[c] = "unmounting"
  /\ \/ mounted' = Taken(mounted, c) /\ roots' = Taken(roots, c) /\ UNCHANGED red
     \/ Mark(c, TRUE) /\ UNCHANGED <<roots, mounted>>
  /\ NextBrowser(c, "rooting", "cleaning")
  /\ UNCHANGED <<plan, processes, head, moved, wasm, built, output, storageLock>>

-----------------------------------------------------------------------------
(* cleanupStorageRuntime, the global teardown.                             *)

\* Mutant: an image that is not detached does not stop the teardown.
CleanUpAnyway(c) ==
  /\ pc[c] = "cleaning"
  /\ storageLock[Home(c)] = c
  /\ Detach(c)
  /\ Goto(c, "releasing")
  /\ UNCHANGED <<plan, at, red, processes, head, moved, wasm, built, output, storageLock,
                 roots>>

\* Whose lock it is comes first; then the images are detached once more.
CleanUp(c) ==
  /\ pc[c] = "cleaning"
  /\ storageLock[Home(c)] = c
  /\ Detach(c)
  /\ ~VolumeIsMounted(mounted')
  /\ Goto(c, "releasing")
  /\ UNCHANGED <<plan, at, red, processes, head, moved, wasm, built, output, storageLock,
                 roots>>

\* The lock is another's, an image is still mounted, or hdiutil does not
\* answer: the lock stays.
CleanUpFails(c) ==
  /\ pc[c] = "cleaning"
  /\ IF storageLock[Home(c)] = c THEN Detach(c) ELSE UNCHANGED mounted
  /\ Goto(c, "failed")
  /\ UNCHANGED <<plan, at, red, processes, head, moved, wasm, built, output, storageLock,
                 roots>>

Release(c) ==
  /\ pc[c] = "releasing"
  /\ roots' = [roots EXCEPT ![Home(c)] = {}]
  /\ storageLock' = [storageLock EXCEPT ![Home(c)] = None]
  /\ Goto(c, IF red[c] THEN "failed" ELSE "passed")
  /\ UNCHANGED <<plan, at, red, processes, head, moved, wasm, built, output, mounted>>

StorageStep(c) ==
  \/ AcquireLock(c) \/ SignLock(c) \/ DetachVolumes(c) \/ PrepareFails(c) \/ EmptyRuntime(c)
  \/ MakeRoot(c) \/ RootFails(c) \/ Mount(c) \/ MountFails(c) \/ Fill(c) \/ Unmount(c)
  \/ CleanUp(c) \/ CleanUpFails(c) \/ Release(c)

-----------------------------------------------------------------------------
\* A refused campaign says that the lock is stale, and to remove it only
\* after its image is detached; the operator does both when the owner has
\* ended.
OwnerHasEnded(w) == storageLock[w] # None /\ ~Live(storageLock[w])

DetachByHand(w) ==
  /\ OwnerHasEnded(w) /\ mounted[w] # {}
  /\ mounted' = [mounted EXCEPT ![w] = {}]
  /\ UNCHANGED <<campaignVars, storageLock, roots>>

RemoveStorageLock(w) ==
  /\ OwnerHasEnded(w) /\ mounted[w] = {}
  /\ storageLock' = [storageLock EXCEPT ![w] = None]
  /\ UNCHANGED <<campaignVars, roots, mounted>>
=============================================================================
