---------------------------- MODULE ImageExport ----------------------------
(***************************************************************************)
(* utils.ExportContainerImage: one action per system call or command, in   *)
(* program order, each of which may fail, and the two deferred functions   *)
(* in LIFO order (unmount, detach, remove the temporary directory; then    *)
(* remove the file of a failed call).  The output directory outlives the   *)
(* calls: the same ID is exported again by later calls and later runs, and *)
(* a run can be killed at any step, in which case no deferred call runs.   *)
(***************************************************************************)
EXTENDS FiniteSets

CONSTANT Container          \* container IDs; <ID>.raw is the file of ID

VARIABLES
  pc,                       \* the next step of the current call
  cur,                      \* the ID the current (or last) call exports
  success, loopDevice, mounted, unmounted,   \* the locals, as Booleans
  image,                    \* [Container -> ImageState], <ID>.raw
  attached, deferred,       \* this call's loop device; its delayed detach
  live, lingering,          \* this call's mount; its file system, detached
  tempDir,                  \* this call's temporary mount directory
  pinned,                   \* files that earlier calls' file systems are in
  stale,                    \* pinned files that were re-created since
  outcome,                  \* history: result of the last call for each ID
  faults                    \* history: what that call saw fail in passing

locals == <<success, loopDevice, mounted, unmounted>>
kernel == <<attached, deferred, live, lingering, tempDir>>
vars == <<pc, cur, locals, image, kernel, pinned, stale, outcome, faults>>

\* "dirty" is copied but not flushed, "corrupt" is written by two mounts.
ImageState == {"absent", "empty", "sized", "formatted", "partial", "dirty",
               "complete", "corrupt"}
Populated == {"dirty", "complete"}
Outcome == {"idle", "busy", "ok", "error", "killed"}
Fault == {"mkdir", "name", "sync", "umount", "lazy", "detach", "rmdir",
          "rmfile"}
PC == {"idle", "output", "size", "create", "truncate", "close", "mkfs",
       "mktemp", "losetup", "mount", "copy", "sync", "umount", "lazy",
       "detach", "rmdir", "rmfile"}

TypeOK ==
  /\ pc \in PC
  /\ cur \in Container
  /\ success \in BOOLEAN /\ loopDevice \in BOOLEAN
  /\ mounted \in BOOLEAN /\ unmounted \in BOOLEAN
  /\ image \in [Container -> ImageState]
  /\ attached \in BOOLEAN /\ deferred \in BOOLEAN
  /\ live \in BOOLEAN /\ lingering \in BOOLEAN /\ tempDir \in BOOLEAN
  /\ pinned \in SUBSET Container /\ stale \in SUBSET Container
  /\ outcome \in [Container -> Outcome]
  /\ faults \in [Container -> SUBSET Fault]

Init ==
  /\ pc = "idle"
  /\ cur \in Container
  /\ success = FALSE /\ loopDevice = FALSE
  /\ mounted = FALSE /\ unmounted = FALSE
  /\ image = [c \in Container |-> "absent"]
  /\ attached = FALSE /\ deferred = FALSE
  /\ live = FALSE /\ lingering = FALSE /\ tempDir = FALSE
  /\ pinned = {} /\ stale = {}
  /\ outcome = [c \in Container |-> "idle"]
  /\ faults = [c \in Container |-> {}]

-----------------------------------------------------------------------------
Goto(from, to) == pc = from /\ pc' = to
Write(state) == image' = [image EXCEPT ![cur] = state]
Note(fault) == faults' = [faults EXCEPT ![cur] = @ \cup {fault}]

\* Mutant: the result of the call is its last step.
FinishReportingStep(result, gone) ==
  /\ pc' = "idle"
  /\ outcome' = [outcome EXCEPT ![cur] = pc]
  /\ UNCHANGED <<pinned, stale>>

\* The call is over.  A file that is gone is pinned no more: the next one of
\* its name is another inode.
Finish(result, gone) ==
  /\ pc' = "idle"
  /\ outcome' = [outcome EXCEPT ![cur] = result]
  /\ pinned' = IF gone THEN pinned \ {cur} ELSE pinned
  /\ stale' = IF gone THEN stale \ {cur} ELSE stale

\* The image's file system is alive, mounted or detached.
Alive == live \/ lingering

\* The next call: the file system that the last one left pins its file.
Call(c) ==
  /\ Goto("idle", "output")
  /\ cur' = c
  /\ success' = FALSE /\ loopDevice' = FALSE
  /\ mounted' = FALSE /\ unmounted' = FALSE
  /\ attached' = FALSE /\ deferred' = FALSE
  /\ live' = FALSE /\ lingering' = FALSE /\ tempDir' = FALSE
  /\ pinned' = IF Alive /\ image[cur] # "absent" THEN pinned \cup {cur}
               ELSE pinned
  /\ outcome' = [outcome EXCEPT ![c] = "busy"]
  /\ faults' = [faults EXCEPT ![c] = {}]
  /\ UNCHANGED <<image, stale>>

\* os.MkdirAll(outputDir): the only failure that no deferred call follows.
MakeOutputDir ==
  /\ UNCHANGED <<cur, locals, image, kernel>>
  /\ \/ Goto("output", "size") /\ UNCHANGED <<pinned, stale, outcome, faults>>
     \/ pc = "output" /\ Finish("error", FALSE) /\ Note("mkdir")

CalculateSize ==
  /\ Goto("size", "create") \/ Goto("size", "rmfile")
  /\ UNCHANGED <<cur, locals, image, kernel, pinned, stale, outcome, faults>>

\* os.Create truncates a file of that name in place, pinned or not.
CreateFile ==
  /\ \/ /\ Goto("create", "truncate")
        /\ Write("empty")
        /\ stale' = IF cur \in pinned THEN stale \cup {cur} ELSE stale
     \/ Goto("create", "rmfile") /\ UNCHANGED <<image, stale>>
  /\ UNCHANGED <<cur, locals, kernel, pinned, outcome, faults>>

TruncateFile ==
  /\ \/ Goto("truncate", "close") /\ Write("sized")
     \/ Goto("truncate", "rmfile") /\ UNCHANGED image
  /\ UNCHANGED <<cur, locals, kernel, pinned, stale, outcome, faults>>

\* imgFile.Sync only warns; imgFile.Close fails the call.
CloseFile ==
  /\ Goto("close", "mkfs") \/ Goto("close", "rmfile")
  /\ UNCHANGED <<cur, locals, image, kernel, pinned, stale, outcome, faults>>

FormatFile ==
  /\ \/ Goto("mkfs", "mktemp") /\ Write("formatted")
     \/ Goto("mkfs", "rmfile") /\ (UNCHANGED image \/ Write("formatted"))
  /\ UNCHANGED <<cur, locals, kernel, pinned, stale, outcome, faults>>

MakeTempDir ==
  /\ \/ Goto("mktemp", "losetup") /\ tempDir' = TRUE
     \/ Goto("mktemp", "rmfile") /\ UNCHANGED tempDir
  /\ UNCHANGED <<cur, locals, image, attached, deferred, live, lingering,
                 pinned, stale, outcome, faults>>

\* The third case is exit status 0 with an empty output: a device may be
\* attached all the same, and the code does not know its name.
SetupLoopDevice ==
  /\ \/ /\ Goto("losetup", "mount")
        /\ attached' = TRUE /\ loopDevice' = TRUE
        /\ UNCHANGED faults
     \/ Goto("losetup", "umount") /\ UNCHANGED <<attached, loopDevice, faults>>
     \/ /\ Goto("losetup", "umount")
        /\ attached' = TRUE \/ UNCHANGED attached
        /\ UNCHANGED loopDevice
        /\ Note("name")
  /\ UNCHANGED <<cur, success, mounted, unmounted, image, deferred, live,
                 lingering, tempDir, pinned, stale, outcome>>

\* Mutant: success is set as soon as the image is mounted.
MountImageSucceeds ==
  /\ \/ /\ Goto("mount", "copy") /\ live' = TRUE /\ mounted' = TRUE
        /\ success' = TRUE
     \/ Goto("mount", "umount") /\ UNCHANGED <<live, mounted, success>>
  /\ UNCHANGED <<cur, loopDevice, unmounted, image, attached, deferred,
                 lingering, tempDir, pinned, stale, outcome, faults>>

MountImage ==
  /\ \/ Goto("mount", "copy") /\ live' = TRUE /\ mounted' = TRUE
     \/ Goto("mount", "umount") /\ UNCHANGED <<live, mounted>>
  /\ UNCHANGED <<cur, success, loopDevice, unmounted, image, attached,
                 deferred, lingering, tempDir, pinned, stale, outcome, faults>>

\* Mutant: the error of cp is only logged.
CopyContentIgnoresError ==
  /\ Goto("copy", "sync")
  /\ \E state \in {"dirty", "partial"} :
       Write(IF image[cur] = "corrupt" THEN "corrupt" ELSE state)
  /\ UNCHANGED <<cur, locals, kernel, pinned, stale, outcome, faults>>

\* Mutant: the file is removed where cp fails, before the deferred calls.
CopyContentRemovesFile ==
  /\ \/ Goto("copy", "sync") /\ Write(IF image[cur] = "corrupt"
                                      THEN "corrupt" ELSE "dirty")
     \/ Goto("copy", "umount") /\ Write("absent")
  /\ UNCHANGED <<cur, locals, kernel, pinned, stale, outcome, faults>>

\* cp -a; what it writes into a file that two mounts write stays corrupt.
CopyContent ==
  /\ \/ Goto("copy", "sync") /\ Write(IF image[cur] = "corrupt"
                                      THEN "corrupt" ELSE "dirty")
     \/ Goto("copy", "umount") /\ Write(IF image[cur] = "corrupt"
                                        THEN "corrupt" ELSE "partial")
  /\ UNCHANGED <<cur, locals, kernel, pinned, stale, outcome, faults>>

\* What reaching the disk makes of a state.
Flushed(state) == IF state = "dirty" THEN "complete" ELSE state

\* sync -f only warns: success is set either way.
SyncContent ==
  /\ Goto("sync", "umount")
  /\ success' = TRUE
  /\ \/ Write(Flushed(image[cur])) /\ UNCHANGED faults
     \/ UNCHANGED image /\ Note("sync")
  /\ UNCHANGED <<cur, loopDevice, mounted, unmounted, kernel, pinned, stale,
                 outcome>>

-----------------------------------------------------------------------------
\* The deferred functions.

\* A umount that works flushes the image and ends the file system.
Unmount ==
  /\ \/ ~mounted /\ Goto("umount", "detach")
        /\ UNCHANGED <<live, unmounted, image, faults>>
     \/ /\ mounted /\ Goto("umount", "detach")
        /\ live' = FALSE /\ unmounted' = TRUE
        /\ Write(Flushed(image[cur]))
        /\ UNCHANGED faults
     \/ mounted /\ Goto("umount", "lazy") /\ Note("umount")
        /\ UNCHANGED <<live, unmounted, image>>
  /\ UNCHANGED <<cur, success, loopDevice, mounted, attached, deferred,
                 lingering, tempDir, pinned, stale, outcome>>

\* umount -l frees the directory at once, and nothing else: the file system,
\* which somebody uses (umount was refused), lives on unflushed.
Detaches ==
  /\ Goto("lazy", "detach")
  /\ live' = FALSE /\ lingering' = TRUE /\ unmounted' = TRUE
  /\ UNCHANGED faults

\* Mutant: unmounted is set whether or not the lazy umount works.
LazyUnmountAssumed ==
  /\ \/ Detaches
     \/ /\ Goto("lazy", "detach") /\ Note("lazy") /\ unmounted' = TRUE
        /\ UNCHANGED <<live, lingering>>
  /\ UNCHANGED <<cur, success, loopDevice, mounted, image, attached, deferred,
                 tempDir, pinned, stale, outcome>>

\* Mutant: umount is tried again until it works.
LazyUnmountRetries ==
  /\ \/ Detaches
     \/ Goto("lazy", "umount") /\ Note("lazy")
        /\ UNCHANGED <<live, lingering, unmounted>>
  /\ UNCHANGED <<cur, success, loopDevice, mounted, image, attached, deferred,
                 tempDir, pinned, stale, outcome>>

LazyUnmount ==
  /\ \/ Detaches
     \/ Goto("lazy", "detach") /\ Note("lazy")
        /\ UNCHANGED <<live, lingering, unmounted>>
  /\ UNCHANGED <<cur, success, loopDevice, mounted, image, attached, deferred,
                 tempDir, pinned, stale, outcome>>

\* losetup -d of a device with a file system on it returns 0, and the device
\* goes with the file system.
DeviceDetaches ==
  /\ attached' = Alive /\ deferred' = Alive
  /\ UNCHANGED faults

\* Mutant: the device is detached only if the image was mounted.
DetachLoopDeviceIfMounted ==
  /\ Goto("detach", "rmdir")
  /\ \/ ~mounted /\ UNCHANGED <<attached, deferred, faults>>
     \/ mounted /\ DeviceDetaches
     \/ mounted /\ UNCHANGED <<attached, deferred>> /\ Note("detach")
  /\ UNCHANGED <<cur, locals, image, live, lingering, tempDir, pinned, stale,
                 outcome>>

DetachLoopDevice ==
  /\ Goto("detach", "rmdir")
  /\ \/ ~loopDevice /\ UNCHANGED <<attached, deferred, faults>>
     \/ loopDevice /\ DeviceDetaches
     \/ loopDevice /\ UNCHANGED <<attached, deferred>> /\ Note("detach")
  /\ UNCHANGED <<cur, locals, image, live, lingering, tempDir, pinned, stale,
                 outcome>>

\* os.RemoveAll(imageMountDir).  On a live mount it would empty the image.
RemoveTempDir ==
  /\ Goto("rmdir", "rmfile")
  /\ \/ /\ ~mounted \/ unmounted
        /\ \/ /\ live
              /\ Write("partial") /\ Note("rmdir") /\ UNCHANGED tempDir
           \/ ~live /\ tempDir' = FALSE /\ UNCHANGED <<image, faults>>
           \/ ~live /\ Note("rmdir") /\ UNCHANGED <<image, tempDir>>
     \/ mounted /\ ~unmounted /\ UNCHANGED <<image, tempDir, faults>>
  /\ UNCHANGED <<cur, locals, attached, deferred, live, lingering, pinned,
                 stale, outcome>>

\* The first deferred function runs last.
RemoveFile ==
  /\ pc = "rmfile"
  /\ \/ success /\ Finish("ok", FALSE) /\ UNCHANGED <<image, faults>>
     \/ ~success /\ Finish("error", TRUE) /\ Write("absent")
        /\ UNCHANGED faults
     \/ ~success /\ Finish("error", FALSE) /\ Note("rmfile")
        /\ UNCHANGED image
  /\ UNCHANGED <<cur, locals, kernel>>

-----------------------------------------------------------------------------
Step ==
  \/ MakeOutputDir \/ CalculateSize \/ CreateFile \/ TruncateFile
  \/ CloseFile \/ FormatFile \/ MakeTempDir \/ SetupLoopDevice
  \/ MountImage \/ CopyContent \/ SyncContent \/ Unmount \/ LazyUnmount
  \/ DetachLoopDevice \/ RemoveTempDir \/ RemoveFile

\* The process is killed (an interrupt, say: no signal is handled).
Interrupt ==
  /\ pc # "idle"
  /\ Finish("killed", FALSE)
  /\ UNCHANGED <<cur, locals, image, kernel, faults>>

\* A file system is in the file of c.
Held(c) == c \in pinned \/ (c = cur /\ Alive)

\* The kernel writes a file system's dirty pages back when it likes.
WriteBack(c) ==
  /\ Held(c) /\ image[c] = "dirty"
  /\ image' = [image EXCEPT ![c] = "complete"]
  /\ UNCHANGED <<pc, cur, locals, kernel, pinned, stale, outcome, faults>>

\* The last user of the detached file system is gone: it is flushed and
\* ends, and its loop device goes if its detach was asked for.
LastUserGone ==
  /\ lingering /\ lingering' = FALSE
  /\ attached' = (attached /\ ~deferred)
  /\ Write(Flushed(image[cur]))
  /\ UNCHANGED <<pc, cur, locals, deferred, live, tempDir, pinned, stale,
                 outcome, faults>>

\* A file system whose file was re-created under it writes its old metadata.
LateWriteback(c) ==
  /\ c \in stale
  /\ image[c] \notin {"absent", "corrupt"}
  /\ image' = [image EXCEPT ![c] = "corrupt"]
  /\ UNCHANGED <<pc, cur, locals, kernel, pinned, stale, outcome, faults>>

Next ==
  \/ \E c \in Container : Call(c) \/ WriteBack(c) \/ LateWriteback(c)
  \/ LastUserGone
  \/ Step
  \/ Interrupt

\* Every command and system call returns, in success or in failure.
Fairness == WF_vars(Step)

Spec == Init /\ [][Next]_vars
FairSpec == Spec /\ Fairness

-----------------------------------------------------------------------------
\* All of these steps failed in the last call for c.
Failed(c, set) == set \subseteq faults[c]

(***************************************************************************)
(* The deferred os.RemoveAll(imageMountDir) never runs while the image is  *)
(* mounted there: it would delete the copied files from the image that the *)
(* call goes on to report as exported (export.go:139).                     *)
(***************************************************************************)
NeverRemoveThroughMount ==
  pc = "rmdir" /\ live => mounted /\ ~unmounted

(***************************************************************************)
(* An image whose export returned nil holds the container's files, whatever*)
(* the clean-up commands did, unless the file system of an earlier call    *)
(* still writes to it; it is unflushed only when sync and umount both      *)
(* failed, and then its file system lives on, mounted or detached by       *)
(* umount -l, to write it back (export.go:107-147, 187-197).               *)
(***************************************************************************)
OkMeansPopulated ==
  \A c \in Container : outcome[c] = "ok" =>
    /\ image[c] \in Populated \/ c \in stale
    /\ image[c] = "dirty" => Failed(c, {"sync", "umount"}) /\ Held(c)

(***************************************************************************)
(* A call that returned an error left no file of that name, unless the     *)
(* output directory or the unlink was refused (export.go:41-46).           *)
(***************************************************************************)
ErrorMeansAbsent ==
  \A c \in Container : outcome[c] = "error" =>
    image[c] = "absent" \/ "mkdir" \in faults[c] \/ "rmfile" \in faults[c]

(***************************************************************************)
(* What the result says of the file is true, either way.                   *)
(***************************************************************************)
ResultIsTrue == OkMeansPopulated /\ ErrorMeansAbsent

(***************************************************************************)
(* What a finished call leaves in the kernel is explained by the command   *)
(* that should have taken it away: a mount by both umounts, a file system  *)
(* that lives on without one by the first, a loop device by the file       *)
(* system on it, the failed detach or the name losetup did not print, the  *)
(* directory by its removal or the mount (export.go:107-147).              *)
(***************************************************************************)
DeviceExplained(c) ==
  attached => Alive \/ "detach" \in faults[c] \/ "name" \in faults[c]

ResidueExplained ==
  pc = "idle" /\ outcome[cur] \in {"ok", "error"} =>
    /\ live => Failed(cur, {"umount", "lazy"})
    /\ lingering => "umount" \in faults[cur]
    /\ DeviceExplained(cur)
    /\ tempDir => live \/ "rmdir" \in faults[cur]

(***************************************************************************)
(* The file is unlinked only after this call's mount and loop device were  *)
(* taken off it or refused to go: deferred calls run in LIFO order.        *)
(***************************************************************************)
UnlinkComesLast ==
  [][\A c \in Container : image[c] # "absent" /\ image'[c] = "absent" =>
       /\ c = cur
       /\ live => Failed(c, {"umount", "lazy"})
       /\ lingering => "umount" \in faults[c]
       /\ DeviceExplained(c)]_vars

\* Every call returns (or is killed) once its commands return.
EveryCallReturns == pc # "idle" ~> pc = "idle"

(***************************************************************************)
(* The clean-up of a failed call removes only a file that is incomplete:   *)
(* "cleaning up incomplete image file" (export.go:43).                     *)
(***************************************************************************)
OnlyIncompleteImagesRemoved ==
  [][\A c \in Container : image[c] = "complete" => image'[c] # "absent"]_vars

-----------------------------------------------------------------------------
\* The refinement: a call is populated once it has set success.
PromiseFile(state) ==
  CASE state = "absent" -> "absent"
    [] state \in Populated -> "populated"
    [] state = "corrupt" -> "damaged"
    [] OTHER -> "partial"

Promise == INSTANCE ExportPromise WITH
  status <- [c \in Container |-> IF c = cur /\ pc # "idle" /\ success
                                 THEN "populated" ELSE outcome[c]],
  file <- [c \in Container |-> PromiseFile(image[c])],
  held <- stale,
  kept <- {c \in Container : "mkdir" \in faults[c] \/ "rmfile" \in faults[c]}

\* ExportContainerImage keeps the promise.
ImplementsPromise == Promise!Spec
=============================================================================
