-------------------------- MODULE FileExports_proof --------------------------
(***************************************************************************)
(* Proofs about ImageExport and ArchiveExport for every set of containers: *)
(* what a call leaves behind, and that both implement ExportPromise.       *)
(***************************************************************************)
EXTENDS ImageExport, TLAPS

\* The steps at which the image file system can be mounted ...
Mountable == {"copy", "sync", "umount", "lazy", "detach", "rmdir", "rmfile",
              "idle"}
\* ... and those that follow the two attempts to unmount it.
AfterUnmount == {"detach", "rmdir", "rmfile"}
Deferred == {"umount", "lazy"} \cup AfterUnmount

\* The locals that stand for the mount agree with the kernel.
MountInv ==
  /\ live <=> mounted /\ ~unmounted
  /\ mounted => pc \in Mountable
  /\ unmounted => mounted /\ (pc \in AfterUnmount \cup {"idle"})
  /\ pc \in {"copy", "sync", "lazy"} => live

\* A mount or a file system that survives an attempt has seen it fail.
TriedInv ==
  /\ pc = "lazy" => "umount" \in faults[cur]
  /\ pc \in AfterUnmount /\ live => Failed(cur, {"umount", "lazy"})
  /\ lingering => unmounted /\ "umount" \in faults[cur]

\* An unflushed image has a file system in it.
DirtyInv == \A c \in Container : image[c] = "dirty" => Held(c)

OutcomeInv ==
  /\ pc # "idle" => outcome[cur] = "busy"
  /\ \A c \in Container : c # cur \/ pc = "idle" => outcome[c] # "busy"

CorruptInv == \A c \in Container : image[c] = "corrupt" => c \in stale

\* What success promises before the call has returned.
CopyInv ==
  /\ success => pc \in Deferred \cup {"idle"}
  /\ pc = "sync" => image[cur] \in Populated \/ cur \in stale
  /\ success /\ pc # "idle" => image[cur] \in Populated \/ cur \in stale
  /\ success /\ pc # "idle" /\ image[cur] = "dirty" =>
       Alive /\ "sync" \in faults[cur]

AfterDetach == \/ pc \in {"rmdir", "rmfile"}
               \/ pc = "idle" /\ outcome[cur] \in {"ok", "error"}

ResidueInv ==
  /\ pc = "rmdir" \/ pc = "rmfile" => DeviceExplained(cur)
  /\ AfterDetach /\ attached /\ ~deferred =>
       "detach" \in faults[cur] \/ "name" \in faults[cur]
  /\ pc \in {"umount", "lazy", "detach"} /\ attached =>
       loopDevice \/ "name" \in faults[cur]
  /\ pc \in {"output", "size", "create", "truncate", "close", "mkfs", "mktemp",
             "losetup"} => ~attached /\ ~loopDevice
  /\ pc \in {"mount", "copy", "sync"} => loopDevice
  /\ pc \in {"output", "size", "create", "truncate", "close", "mkfs",
             "mktemp"} => ~tempDir
  /\ pc = "rmfile" /\ tempDir => live \/ "rmdir" \in faults[cur]

IInv ==
  /\ TypeOK
  /\ MountInv
  /\ TriedInv
  /\ DirtyInv
  /\ OutcomeInv
  /\ CorruptInv
  /\ CopyInv
  /\ ResidueInv
  /\ OkMeansPopulated
  /\ ErrorMeansAbsent
  /\ ResidueExplained

-----------------------------------------------------------------------------
\* A noted fault is one of Fault: faults keeps its type.
LEMMA NoteTyped ==
  ASSUME faults \in [Container -> SUBSET Fault],
         NEW fault \in Fault, Note(fault)
  PROVE  faults' \in [Container -> SUBSET Fault]
BY DEF Note

\* Every step of Next keeps the variables in their types.
LEMMA TypeStep == TypeOK /\ [Next]_vars => TypeOK'
<1> SUFFICES ASSUME TypeOK, [Next]_vars PROVE TypeOK'
  OBVIOUS
<1> USE DEF TypeOK, PC, ImageState, Outcome, Fault, Goto, Write, Note, Finish,
            Flushed, Detaches, DeviceDetaches, Alive, locals, kernel
<1>1. ASSUME NEW c \in Container, Call(c) PROVE TypeOK'
  BY <1>1 DEF Call
<1>2. CASE MakeOutputDir
  BY <1>2 DEF MakeOutputDir
<1>3. CASE CalculateSize
  BY <1>3 DEF CalculateSize
<1>4. CASE CreateFile
  BY <1>4 DEF CreateFile
<1>5. CASE TruncateFile
  BY <1>5 DEF TruncateFile
<1>6. CASE CloseFile
  BY <1>6 DEF CloseFile
<1>7. CASE FormatFile
  BY <1>7 DEF FormatFile
<1>8. CASE MakeTempDir
  BY <1>8, ZenonT(40) DEF MakeTempDir
<1>9. CASE SetupLoopDevice
  <2>1. faults' \in [Container -> SUBSET Fault]
    <3>1. CASE UNCHANGED faults
      BY <3>1
    <3>2. CASE Note("name")
      BY <3>2, NoteTyped
    <3>3. QED
      BY <1>9, <3>1, <3>2 DEF SetupLoopDevice
  <2>2. /\ pc' \in PC /\ loopDevice' \in BOOLEAN /\ attached' \in BOOLEAN
    BY <1>9 DEF SetupLoopDevice
  <2>3. UNCHANGED <<cur, success, mounted, unmounted, image, deferred, live,
                    lingering, tempDir, pinned, stale, outcome>>
    BY <1>9 DEF SetupLoopDevice
  <2>4. QED
    BY <2>1, <2>2, <2>3
<1>10. CASE MountImage
  BY <1>10, ZenonT(40) DEF MountImage
<1>11. CASE CopyContent
  BY <1>11 DEF CopyContent
<1>12. CASE SyncContent
  BY <1>12 DEF SyncContent
<1>13. CASE Unmount
  <2>1. faults' \in [Container -> SUBSET Fault]
    <3>1. CASE UNCHANGED faults
      BY <3>1
    <3>2. CASE Note("umount")
      BY <3>2, NoteTyped
    <3>3. QED
      BY <1>13, <3>1, <3>2 DEF Unmount
  <2>2. image' \in [Container -> ImageState]
    BY <1>13 DEF Unmount
  <2>3. /\ pc' \in PC /\ live' \in BOOLEAN /\ unmounted' \in BOOLEAN
        /\ UNCHANGED <<cur, success, loopDevice, mounted, attached, deferred,
                       lingering, tempDir, pinned, stale, outcome>>
    BY <1>13 DEF Unmount
  <2>4. QED
    BY <2>1, <2>2, <2>3
<1>14. CASE LazyUnmount
  <2>1. faults' \in [Container -> SUBSET Fault]
    <3>1. CASE UNCHANGED faults
      BY <3>1
    <3>2. CASE Note("lazy")
      BY <3>2, NoteTyped
    <3>3. QED
      BY <1>14, <3>1, <3>2 DEF LazyUnmount
  <2>2. /\ pc' \in PC /\ live' \in BOOLEAN /\ unmounted' \in BOOLEAN
        /\ lingering' \in BOOLEAN
        /\ UNCHANGED <<cur, success, loopDevice, mounted, image, attached,
                       deferred, tempDir, pinned, stale, outcome>>
    BY <1>14 DEF LazyUnmount
  <2>3. QED
    BY <2>1, <2>2
<1>15. CASE DetachLoopDevice
  <2>1. faults' \in [Container -> SUBSET Fault]
    <3>1. CASE UNCHANGED faults
      BY <3>1
    <3>2. CASE Note("detach")
      BY <3>2, NoteTyped
    <3>3. QED
      BY <1>15, <3>1, <3>2 DEF DetachLoopDevice
  <2>2. /\ pc' \in PC /\ attached' \in BOOLEAN /\ deferred' \in BOOLEAN
        /\ UNCHANGED <<cur, locals, image, live, lingering, tempDir, pinned,
                       stale, outcome>>
    BY <1>15 DEF DetachLoopDevice
  <2>3. QED
    BY <2>1, <2>2
<1>16. CASE RemoveTempDir
  <2>1. faults' \in [Container -> SUBSET Fault]
    <3>1. CASE UNCHANGED faults
      BY <3>1
    <3>2. CASE Note("rmdir")
      BY <3>2, NoteTyped
    <3>3. QED
      BY <1>16, <3>1, <3>2 DEF RemoveTempDir
  <2>2. image' \in [Container -> ImageState]
    BY <1>16 DEF RemoveTempDir
  <2>3. /\ pc' \in PC /\ tempDir' \in BOOLEAN
        /\ UNCHANGED <<cur, locals, attached, deferred, live, lingering,
                       pinned, stale, outcome>>
    BY <1>16 DEF RemoveTempDir
  <2>4. QED
    BY <2>1, <2>2, <2>3
<1>17. CASE RemoveFile
  BY <1>17 DEF RemoveFile
<1>18. CASE Interrupt
  BY <1>18 DEF Interrupt
<1>19. ASSUME NEW c \in Container, LateWriteback(c) PROVE TypeOK'
  BY <1>19 DEF LateWriteback
<1>20. ASSUME NEW c \in Container, WriteBack(c) PROVE TypeOK'
  BY <1>20 DEF WriteBack
<1>21. CASE LastUserGone
  BY <1>21, ZenonT(40) DEF LastUserGone
<1>22. CASE UNCHANGED vars
  BY <1>22 DEF vars
<1>23. QED
  BY <1>1, <1>2, <1>3, <1>4, <1>5, <1>6, <1>7, <1>8, <1>9, <1>10, <1>11,
     <1>12, <1>13, <1>14, <1>15, <1>16, <1>17, <1>18, <1>19, <1>20, <1>21,
     <1>22 DEF Next, Step

(***************************************************************************)
(* Every variable keeps its type, whichever command fails and whenever the *)
(* process is killed.                                                      *)
(***************************************************************************)
THEOREM TypeCorrect == Spec => []TypeOK
<1>1. Init => TypeOK
  BY DEF Init, TypeOK, PC, ImageState, Outcome, Fault
<1>2. QED
  BY <1>1, TypeStep, PTL DEF Spec

-----------------------------------------------------------------------------
(***************************************************************************)
(* The strengthened invariant holds initially and every step keeps it.     *)
(***************************************************************************)
LEMMA InitIInv == Init => IInv
  BY DEF Init, IInv, TypeOK, PC, ImageState, Outcome, Fault, MountInv,
         TriedInv, DirtyInv, OutcomeInv, CorruptInv, CopyInv, ResidueInv,
         Mountable, AfterUnmount, Deferred, OkMeansPopulated,
         ErrorMeansAbsent, ResidueExplained, DeviceExplained, AfterDetach,
         Alive, Held, Failed, Populated

\* Every step of Next keeps the strengthened invariant.
LEMMA NextIInv == IInv /\ [Next]_vars => IInv'
<1> SUFFICES ASSUME IInv, [Next]_vars PROVE IInv'
  OBVIOUS
<1>0. TypeOK /\ TypeOK'
  BY TypeStep DEF IInv
<1> USE DEF Goto, Write, Note, Finish, Flushed, Detaches, locals, kernel,
            DeviceDetaches, Alive, Held, Failed, Populated, Mountable,
            AfterDetach, AfterUnmount, Deferred
<1> USE DEF MountInv, TriedInv, DirtyInv, OutcomeInv, CorruptInv, CopyInv,
            ResidueInv, OkMeansPopulated, ErrorMeansAbsent, ResidueExplained,
            DeviceExplained
<1>1. ASSUME NEW c \in Container, Call(c) PROVE IInv'
  BY <1>0, <1>1 DEF Call, IInv, TypeOK
<1>2. CASE MakeOutputDir
  BY <1>0, <1>2 DEF MakeOutputDir, IInv, TypeOK
<1>3. CASE CalculateSize
  BY <1>0, <1>3 DEF CalculateSize, IInv, TypeOK
<1>4. CASE CreateFile
  BY <1>0, <1>4 DEF CreateFile, IInv, TypeOK
<1>5. CASE TruncateFile
  BY <1>0, <1>5 DEF TruncateFile, IInv, TypeOK
<1>6. CASE CloseFile
  BY <1>0, <1>6 DEF CloseFile, IInv, TypeOK
<1>7. CASE FormatFile
  BY <1>0, <1>7 DEF FormatFile, IInv, TypeOK
<1>8. CASE MakeTempDir
  BY <1>0, <1>8 DEF MakeTempDir, IInv, TypeOK
<1>9. CASE SetupLoopDevice
  BY <1>0, <1>9 DEF SetupLoopDevice, IInv, TypeOK
<1>10. CASE MountImage
  BY <1>0, <1>10 DEF MountImage, IInv, TypeOK
<1>11. CASE CopyContent
  BY <1>0, <1>11 DEF CopyContent, IInv, TypeOK
<1>12. CASE SyncContent
  BY <1>0, <1>12 DEF SyncContent, IInv, TypeOK
<1>13. CASE Unmount
  BY <1>0, <1>13 DEF Unmount, IInv, TypeOK
<1>14. CASE LazyUnmount
  BY <1>0, <1>14 DEF LazyUnmount, IInv, TypeOK
<1>15. CASE DetachLoopDevice
  BY <1>0, <1>15 DEF DetachLoopDevice, IInv, TypeOK
<1>16. CASE RemoveTempDir
  BY <1>0, <1>16 DEF RemoveTempDir, IInv, TypeOK
<1>17. CASE RemoveFile
  BY <1>0, <1>17 DEF RemoveFile, IInv, TypeOK
<1>18. CASE Interrupt
  BY <1>0, <1>18 DEF Interrupt, IInv, TypeOK
<1>19. ASSUME NEW c \in Container, LateWriteback(c) PROVE IInv'
  BY <1>0, <1>19 DEF LateWriteback, IInv, TypeOK
<1>20. ASSUME NEW c \in Container, WriteBack(c) PROVE IInv'
  BY <1>0, <1>20 DEF WriteBack, IInv, TypeOK
<1>21. CASE LastUserGone
  BY <1>0, <1>21 DEF LastUserGone, IInv, TypeOK
<1>22. CASE UNCHANGED vars
  BY <1>0, <1>22 DEF vars, IInv, TypeOK
<1>23. QED
  BY <1>0, <1>1, <1>2, <1>3, <1>4, <1>5, <1>6, <1>7, <1>8, <1>9, <1>10, <1>11,
     <1>12, <1>13, <1>14, <1>15, <1>16, <1>17, <1>18, <1>19, <1>20, <1>21,
     <1>22 DEF Next, Step, IInv

\* The strengthened invariant holds in every reachable state.
LEMMA Invariant == Spec => []IInv
<1>1. QED
  BY InitIInv, NextIInv, PTL DEF Spec

-----------------------------------------------------------------------------
(***************************************************************************)
(* RemoveAll of the temporary mount directory never reaches into a mounted *)
(* image (export.go:139).                                                  *)
(***************************************************************************)
THEOREM RemovalIsSafe == Spec => []NeverRemoveThroughMount
<1>1. IInv => NeverRemoveThroughMount
  BY DEF IInv, MountInv, NeverRemoveThroughMount
<1>2. QED
  BY <1>1, Invariant, PTL

(***************************************************************************)
(* The result that ExportContainerImage returns tells the truth about the  *)
(* file: nil means populated, an error means absent; a populated image     *)
(* that is not flushed has seen sync and umount fail, and still has the    *)
(* file system, mounted or lazily detached, that will write it back.       *)
(***************************************************************************)
THEOREM ResultsAreTrue == Spec => []ResultIsTrue
<1>1. IInv => ResultIsTrue
  BY DEF IInv, ResultIsTrue
<1>2. QED
  BY <1>1, Invariant, PTL

(***************************************************************************)
(* What a finished call leaves in the kernel is explained by a command     *)
(* that failed, a loop device also by the file system that umount -l left. *)
(***************************************************************************)
THEOREM LeftoversExplained == Spec => []ResidueExplained
<1>1. IInv => ResidueExplained
  BY DEF IInv
<1>2. QED
  BY <1>1, Invariant, PTL

(***************************************************************************)
(* A file is only ever unlinked as the last deferred step of its own call. *)
(***************************************************************************)
THEOREM UnlinkIsLast == Spec => UnlinkComesLast
<1> DEFINE Unlink ==
      \A c \in Container : image[c] # "absent" /\ image'[c] = "absent" =>
        /\ c = cur
        /\ live => Failed(c, {"umount", "lazy"})
        /\ lingering => "umount" \in faults[c]
        /\ DeviceExplained(c)
<1>1. IInv /\ [Next]_vars => [Unlink]_vars
  <2> SUFFICES ASSUME IInv, Next PROVE Unlink
    BY DEF vars, locals, kernel
  <2> USE DEF IInv, TypeOK
  <2>1. CASE RemoveFile
    BY <2>1 DEF RemoveFile, Write, Failed, TriedInv, AfterUnmount, ResidueInv
  <2>2. CASE ~RemoveFile
    <3>1. \A c \in Container : image'[c] = "absent" => image[c] = "absent"
      BY <2>2 DEF Next, Step, Call, MakeOutputDir, CalculateSize, CreateFile,
         TruncateFile, CloseFile, FormatFile, MakeTempDir, SetupLoopDevice,
         MountImage, CopyContent, SyncContent, Unmount, LazyUnmount, Detaches,
         Flushed, DetachLoopDevice, RemoveTempDir, Interrupt, WriteBack,
         LastUserGone, LateWriteback, Write
    <3>2. QED
      BY <3>1
  <2>3. QED
    BY <2>1, <2>2
<1>2. QED
  BY <1>1, Invariant, PTL DEF Spec, UnlinkComesLast

-----------------------------------------------------------------------------
\* The abstract variables, as the instance substitutes them.
StatusBar == [c \in Container |-> IF c = cur /\ pc # "idle" /\ success
                                 THEN "populated" ELSE outcome[c]]
FileBar == [c \in Container |-> PromiseFile(image[c])]
KeptBar == {c \in Container : "mkdir" \in faults[c] \/ "rmfile" \in faults[c]}
AbstractStutter == /\ StatusBar' = StatusBar /\ FileBar' = FileBar
                   /\ stale' = stale /\ KeptBar' = KeptBar

\* A step inside a call leaves the abstract status alone.
LEMMA StatusKept ==
  ASSUME TypeOK, UNCHANGED <<cur, success, outcome>>, pc # "idle", pc' # "idle"
  PROVE  StatusBar' = StatusBar
BY DEF StatusBar

\* Write replaces the abstract file of the current container only.
LEMMA FileWritten ==
  ASSUME TypeOK, NEW s \in ImageState, Write(s)
  PROVE  FileBar' = [FileBar EXCEPT ![cur] = PromiseFile(s)]
<1>1. \A c \in Container : image'[c] = IF c = cur THEN s ELSE image[c]
  BY DEF TypeOK, Write
<1>2. QED
  BY <1>1 DEF FileBar, TypeOK

\* Flushing and rewriting a file with a state of the same kind is no change.
LEMMA FileFlushed ==
  ASSUME TypeOK, Write(Flushed(image[cur]))
  PROVE  FileBar' = FileBar
<1>1. \A c \in Container : image'[c] = IF c = cur THEN Flushed(image[c])
                                                  ELSE image[c]
  BY DEF TypeOK, Write
<1>2. \A c \in Container : PromiseFile(image'[c]) = PromiseFile(image[c])
  BY <1>1 DEF Flushed, PromiseFile, Populated
<1>3. QED
  BY <1>2 DEF FileBar

\* Noting a fault that withholds no file leaves the abstract kept alone.
LEMMA KeptSame ==
  ASSUME TypeOK, NEW f \in Fault \ {"mkdir", "rmfile"},
         Note(f) \/ UNCHANGED faults
  PROVE  KeptBar' = KeptBar
<1>1. \A c \in Container : faults'[c] \in {faults[c], faults[c] \cup {f}}
  BY DEF TypeOK, Note
<1>2. QED
  BY <1>1 DEF KeptBar

\* Noting a refused directory or unlink adds the current container to kept.
LEMMA KeptNoted ==
  ASSUME TypeOK, NEW f \in {"mkdir", "rmfile"}, Note(f)
  PROVE  KeptBar' = KeptBar \cup {cur}
<1>1. \A c \in Container : faults'[c] = IF c = cur THEN faults[c] \cup {f}
                                                   ELSE faults[c]
  BY DEF TypeOK, Note
<1>2. QED
  BY <1>1 DEF KeptBar, TypeOK

(***************************************************************************)
(* Steps that only the detailed specification can see.                     *)
(***************************************************************************)
LEMMA Stutters ==
  ASSUME IInv,
         CalculateSize \/ CloseFile \/ MakeTempDir \/ SetupLoopDevice
           \/ MountImage \/ Unmount \/ LazyUnmount \/ DetachLoopDevice
           \/ RemoveTempDir
  PROVE  AbstractStutter
<1> USE DEF IInv, Goto
<1>1. TypeOK /\ UNCHANGED <<cur, success, outcome, stale>>
      /\ pc # "idle" /\ pc' # "idle"
  BY DEF CalculateSize, CloseFile, MakeTempDir, SetupLoopDevice, MountImage,
         Unmount, LazyUnmount, Detaches, DetachLoopDevice, RemoveTempDir,
         locals
<1>2. UNCHANGED image \/ Write(Flushed(image[cur]))
  BY DEF CalculateSize, CloseFile, MakeTempDir, SetupLoopDevice, MountImage,
         Unmount, LazyUnmount, Detaches, DetachLoopDevice, RemoveTempDir,
         MountInv
<1>3. FileBar' = FileBar
  BY <1>1, <1>2, FileFlushed DEF FileBar
<1>4. \E f \in Fault \ {"mkdir", "rmfile"} : Note(f) \/ UNCHANGED faults
  <2>1. {"name", "umount", "lazy", "detach", "rmdir"}
          \subseteq Fault \ {"mkdir", "rmfile"}
    BY DEF Fault
  <2>2. \/ UNCHANGED faults
        \/ Note("name") \/ Note("umount") \/ Note("lazy") \/ Note("detach")
        \/ Note("rmdir")
    BY DEF CalculateSize, CloseFile, MakeTempDir, SetupLoopDevice, MountImage,
           Unmount, LazyUnmount, Detaches, DetachLoopDevice, DeviceDetaches,
           RemoveTempDir
  <2>3. QED
    BY <2>1, <2>2
<1>5. KeptBar' = KeptBar
  BY <1>1, <1>4, KeptSame
<1>6. QED
  BY <1>1, <1>3, <1>5, StatusKept DEF AbstractStutter

\* Steps that write the file while the call has not succeeded yet.
LEMMA Writes ==
  ASSUME IInv, CreateFile \/ TruncateFile \/ FormatFile \/ CopyContent
  PROVE  AbstractStutter \/ Promise!Rewrite(cur) \/ Promise!Fill(cur)
<1> USE DEF IInv, Goto
<1>1. /\ TypeOK /\ UNCHANGED <<cur, success, outcome, faults>>
      /\ pc # "idle" /\ pc' # "idle" /\ ~success
      /\ stale' \in {stale, stale \cup {cur}}
  BY DEF CreateFile, TruncateFile, FormatFile, CopyContent, locals, CopyInv,
         Deferred, AfterUnmount, TypeOK
<1>2. StatusBar' = StatusBar /\ KeptBar' = KeptBar
  BY <1>1, StatusKept DEF KeptBar
<1>3. StatusBar[cur] = "busy"
  BY <1>1 DEF StatusBar, OutcomeInv, TypeOK
<1>4. \/ UNCHANGED <<image, stale>>
      \/ \E s \in {"empty", "sized", "formatted", "partial"} : Write(s)
      \/ Write("dirty") /\ UNCHANGED stale
      \/ Write("corrupt") /\ image[cur] = "corrupt" /\ UNCHANGED stale
  BY DEF CreateFile, TruncateFile, FormatFile, CopyContent
<1>5. CASE UNCHANGED <<image, stale>>
  BY <1>1, <1>2, <1>5 DEF AbstractStutter, FileBar
<1>6. ASSUME NEW s \in {"empty", "sized", "formatted", "partial"}, Write(s)
      PROVE  Promise!Rewrite(cur)
  <2>1. FileBar' = [FileBar EXCEPT ![cur] = "partial"]
    <3>1. PromiseFile(s) = "partial" /\ s \in ImageState
      BY <1>6 DEF PromiseFile, Populated, ImageState
    <3>2. QED
      BY <3>1, <1>1, <1>6, FileWritten
  <2>2. QED
    BY <2>1, <1>1, <1>2, <1>3
       DEF Promise!Rewrite, StatusBar, FileBar, KeptBar
<1>7. CASE Write("dirty") /\ UNCHANGED stale
  <2>1. FileBar' = [FileBar EXCEPT ![cur] = "populated"]
    <3>1. PromiseFile("dirty") = "populated" /\ "dirty" \in ImageState
      BY DEF PromiseFile, Populated, ImageState
    <3>2. QED
      BY <3>1, <1>1, <1>7, FileWritten
  <2>2. QED
    BY <2>1, <1>2, <1>3, <1>7 DEF Promise!Fill, StatusBar, FileBar, KeptBar
<1>8. CASE Write("corrupt") /\ image[cur] = "corrupt" /\ UNCHANGED stale
  <2>1. UNCHANGED image
    BY <1>1, <1>8 DEF Write, TypeOK
  <2>2. QED
    BY <2>1, <1>2, <1>8 DEF AbstractStutter, FileBar
<1>9. QED
  BY <1>4, <1>5, <1>6, <1>7, <1>8

\* success := true is the point at which the call can no longer fail.
LEMMA Populates ==
  ASSUME IInv, SyncContent
  PROVE  Promise!Populate(cur)
<1> USE DEF IInv, Goto
<1>1. /\ TypeOK /\ UNCHANGED <<cur, outcome, stale>> /\ ~success /\ success'
      /\ pc # "idle" /\ pc' # "idle"
      /\ image[cur] \in {"dirty", "complete"} \/ cur \in stale
  BY DEF SyncContent, CopyInv, Deferred, AfterUnmount, Populated
<1>2. StatusBar[cur] = "busy"
      /\ StatusBar' = [StatusBar EXCEPT ![cur] = "populated"]
  BY <1>1 DEF StatusBar, OutcomeInv, TypeOK
<1>3. FileBar' = FileBar
  BY <1>1, FileFlushed DEF SyncContent, FileBar
<1>4. KeptBar' = KeptBar
  <2>1. "sync" \in Fault \ {"mkdir", "rmfile"}
    BY DEF Fault
  <2>2. QED
    BY <1>1, <2>1, KeptSame DEF SyncContent
<1>5. FileBar[cur] = "populated" \/ cur \in stale
  BY <1>1 DEF FileBar, PromiseFile, Populated, TypeOK
<1>6. QED
  BY <1>1, <1>2, <1>3, <1>4, <1>5
     DEF Promise!Populate, Promise!Goes, StatusBar, FileBar, KeptBar

\* Each way in which a call ends.
LEMMA Ends ==
  ASSUME IInv, MakeOutputDir \/ RemoveFile \/ Interrupt
  PROVE  \/ AbstractStutter
         \/ Promise!ReturnOk(cur) \/ Promise!Withdraw(cur)
         \/ Promise!Refuse(cur) \/ Promise!Kill(cur)
<1> USE DEF IInv, Goto
<1>1. TypeOK /\ UNCHANGED cur /\ pc # "idle" /\ outcome[cur] = "busy"
  BY DEF MakeOutputDir, RemoveFile, Interrupt, OutcomeInv, locals
<1>2. ASSUME NEW r \in Outcome, pc' = "idle",
             outcome' = [outcome EXCEPT ![cur] = r]
      PROVE  StatusBar' = [StatusBar EXCEPT ![cur] = r]
  BY <1>1, <1>2 DEF StatusBar, TypeOK
<1>3. StatusBar[cur] = IF success THEN "populated" ELSE "busy"
  BY <1>1 DEF StatusBar, TypeOK
<1>4. {"ok", "error", "killed"} \subseteq Outcome
  BY DEF Outcome
<1>5. CASE MakeOutputDir
  <2>1. CASE Goto("output", "size") /\ UNCHANGED <<stale, outcome, faults>>
    BY <1>1, <1>5, <2>1, StatusKept
       DEF MakeOutputDir, AbstractStutter, FileBar, KeptBar, locals
  <2>2. CASE Finish("error", FALSE) /\ Note("mkdir") /\ pc = "output"
    <3>1. StatusBar' = [StatusBar EXCEPT ![cur] = "error"] /\ ~success
      BY <1>2, <1>4, <2>2 DEF Finish, CopyInv, Deferred, AfterUnmount
    <3>2. KeptBar' = KeptBar \cup {cur}
      BY <1>1, <2>2, KeptNoted
    <3>3. UNCHANGED <<image, stale>>
      BY <1>5, <2>2 DEF MakeOutputDir, Finish
    <3>4. QED
      BY <1>3, <3>1, <3>2, <3>3
         DEF Promise!Refuse, Promise!Goes, StatusBar, FileBar, KeptBar
  <2>3. QED
    BY <1>5, <2>1, <2>2 DEF MakeOutputDir
<1>6. CASE RemoveFile
  <2>1. CASE success /\ Finish("ok", FALSE) /\ UNCHANGED <<image, faults>>
    <3>1. StatusBar' = [StatusBar EXCEPT ![cur] = "ok"]
      BY <1>2, <1>4, <2>1 DEF Finish
    <3>2. QED
      BY <1>3, <2>1, <3>1 DEF Finish, Promise!ReturnOk, Promise!Goes,
         StatusBar, FileBar, KeptBar
  <2>2. CASE ~success /\ Finish("error", TRUE) /\ Write("absent")
             /\ UNCHANGED faults
    <3>1. FileBar' = [FileBar EXCEPT ![cur] = "absent"]
      <4>1. PromiseFile("absent") = "absent" /\ "absent" \in ImageState
        BY DEF PromiseFile, ImageState, Populated
      <4>2. QED
        BY <1>1, <2>2, <4>1, FileWritten
    <3>2. StatusBar' = [StatusBar EXCEPT ![cur] = "error"]
      BY <1>2, <1>4, <2>2 DEF Finish
    <3>3. QED
      BY <1>3, <2>2, <3>1, <3>2 DEF Finish, Promise!Withdraw,
         Promise!Goes, StatusBar, FileBar, KeptBar
  <2>3. CASE ~success /\ Finish("error", FALSE) /\ Note("rmfile")
             /\ UNCHANGED image
    <3>1. KeptBar' = KeptBar \cup {cur}
      BY <1>1, <2>3, KeptNoted
    <3>2. StatusBar' = [StatusBar EXCEPT ![cur] = "error"]
      BY <1>2, <1>4, <2>3 DEF Finish
    <3>3. QED
      BY <1>3, <2>3, <3>1, <3>2 DEF Finish, Promise!Refuse,
         Promise!Goes, StatusBar, FileBar, KeptBar
  <2>4. QED
    BY <1>6, <2>1, <2>2, <2>3 DEF RemoveFile
<1>7. CASE Interrupt
  <2>1. StatusBar' = [StatusBar EXCEPT ![cur] = "killed"]
    BY <1>2, <1>4, <1>7 DEF Interrupt, Finish
  <2>2. QED
    BY <1>3, <1>7, <2>1 DEF Interrupt, Finish, Promise!Kill, StatusBar,
       FileBar, KeptBar
<1>8. QED
  BY <1>5, <1>6, <1>7

(***************************************************************************)
(* ExportContainerImage keeps the promise that ContainerExport relies on:  *)
(* each of its steps is a step of ExportPromise or changes nothing there.  *)
(***************************************************************************)
THEOREM Refinement == Spec => ImplementsPromise
<1>1. Init => Promise!Init
  BY DEF Init, Promise!Init, PromiseFile, Populated
<1>2. IInv /\ [Next]_vars => [Promise!Next]_Promise!vars
  <2> SUFFICES ASSUME IInv, [Next]_vars
               PROVE Promise!Next \/ AbstractStutter
    BY DEF Promise!vars, AbstractStutter, StatusBar, FileBar, KeptBar
  <2> USE DEF IInv, TypeOK
  <2>1. ASSUME NEW c \in Container, Call(c) PROVE Promise!Begin(c)
    <3>1. StatusBar' = [StatusBar EXCEPT ![c] = "busy"]
      BY <2>1 DEF Call, Goto, StatusBar
    <3>2. KeptBar' = KeptBar \ {c}
      BY <2>1 DEF Call, KeptBar
    <3>3. Promise!Idle
      BY <2>1 DEF Call, Goto, Promise!Idle, OutcomeInv, Outcome
    <3>4. QED
      BY <2>1, <3>1, <3>2, <3>3
         DEF Call, Promise!Begin, StatusBar, FileBar, KeptBar
  <2>2. ASSUME NEW c \in Container, LateWriteback(c) PROVE Promise!Damage(c)
    <3>1. FileBar' = [FileBar EXCEPT ![c] = "damaged"]
      BY <2>2 DEF LateWriteback, FileBar, PromiseFile, Populated
    <3>2. FileBar[c] # "absent"
      BY <2>2 DEF LateWriteback, FileBar, PromiseFile, Populated
    <3>3. QED
      BY <2>2, <3>1, <3>2 DEF LateWriteback, Promise!Damage, StatusBar,
         FileBar, KeptBar, locals
  <2>3. Promise!Rewrite(cur) \/ Promise!Fill(cur) \/ Promise!Populate(cur)
          \/ Promise!ReturnOk(cur) \/ Promise!Withdraw(cur)
          \/ Promise!Refuse(cur) \/ Promise!Kill(cur) => Promise!Next
    <3>0. PICK c \in Container : c = cur
      OBVIOUS
    <3>1. Promise!Rewrite(cur) => Promise!Rewrite(c)
      BY <3>0 DEF Promise!Rewrite
    <3>2. Promise!Fill(cur) => Promise!Fill(c)
      BY <3>0 DEF Promise!Fill
    <3>3. Promise!Populate(cur) => Promise!Populate(c)
      BY <3>0 DEF Promise!Populate, Promise!Goes
    <3>4. Promise!ReturnOk(cur) => Promise!ReturnOk(c)
      BY <3>0 DEF Promise!ReturnOk, Promise!Goes
    <3>5. Promise!Withdraw(cur) => Promise!Withdraw(c)
      BY <3>0 DEF Promise!Withdraw, Promise!Goes
    <3>6. Promise!Refuse(cur) => Promise!Refuse(c)
      BY <3>0 DEF Promise!Refuse, Promise!Goes
    <3>7. Promise!Kill(cur) => Promise!Kill(c)
      BY <3>0 DEF Promise!Kill
    <3>8. QED
      BY <3>1, <3>2, <3>3, <3>4, <3>5, <3>6, <3>7 DEF Promise!Next
  <2>4. ASSUME NEW c \in Container, WriteBack(c) \/ LastUserGone
        PROVE  AbstractStutter
    <3>1. FileBar' = FileBar
      <4>1. CASE WriteBack(c)
        BY <4>1 DEF WriteBack, FileBar, PromiseFile, Populated
      <4>2. CASE LastUserGone
        BY <4>2, FileFlushed DEF LastUserGone
      <4>3. QED
        BY <2>4, <4>1, <4>2
    <3>2. UNCHANGED <<pc, cur, success, outcome, stale, faults>>
      BY <2>4 DEF WriteBack, LastUserGone, locals
    <3>3. QED
      BY <3>1, <3>2 DEF AbstractStutter, StatusBar, KeptBar
  <2>5. CASE Step \/ Interrupt
    <3>1. CASE CreateFile \/ TruncateFile \/ FormatFile \/ CopyContent
      BY <2>3, <3>1, Writes
    <3>2. CASE SyncContent
      BY <2>3, <3>2, Populates
    <3>3. CASE MakeOutputDir \/ RemoveFile \/ Interrupt
      BY <2>3, <3>3, Ends
    <3>4. CASE CalculateSize \/ CloseFile \/ MakeTempDir \/ SetupLoopDevice
               \/ MountImage \/ Unmount \/ LazyUnmount \/ DetachLoopDevice
               \/ RemoveTempDir
      BY <3>4, Stutters
    <3>5. QED
      BY <2>5, <3>1, <3>2, <3>3, <3>4 DEF Step
  <2>6. CASE UNCHANGED vars
    BY <2>6 DEF vars, locals, AbstractStutter, StatusBar, FileBar, KeptBar
  <2>7. QED
    BY <2>1, <2>2, <2>4, <2>5, <2>6 DEF Next, Promise!Next
<1>3. QED
  BY <1>1, <1>2, Invariant, PTL DEF Spec, ImplementsPromise, Promise!Spec

-----------------------------------------------------------------------------
\* Archives, whose calls have variables of their own

VARIABLES archivePc, archiveCur, archiveSuccess, archive, archiveOutcome,
          refused

Archive == INSTANCE ArchiveExport WITH
  pc <- archivePc, cur <- archiveCur, success <- archiveSuccess,
  outcome <- archiveOutcome

\* The call in progress, and no other, is busy; its success is set last.
ArchiveBusyInv ==
  /\ archivePc # "idle" => archiveOutcome[archiveCur] = "busy"
  /\ \A c \in Container :
       c # archiveCur \/ archivePc = "idle" => archiveOutcome[c] # "busy"
  /\ archivePc # "idle" /\ archiveSuccess =>
       archivePc = "rmfile" /\ archive[archiveCur] = "complete"

ArchiveInv == Archive!TypeOK /\ ArchiveBusyInv

\* The two state functions of the refinement mapping.
ArchiveStatusBar ==
  [c \in Container |->
    IF c = archiveCur /\ archivePc # "idle" /\ archiveSuccess
    THEN "populated" ELSE archiveOutcome[c]]
ArchiveFileBar ==
  [c \in Container |->
    IF archive[c] = "complete" THEN "populated" ELSE archive[c]]

LEMMA InitArchiveInv == Archive!Init => ArchiveInv
BY DEF Archive!Init, ArchiveInv, Archive!TypeOK, Archive!PC,
       Archive!ArchiveState, ArchiveBusyInv

\* Every step keeps the types and the one call in progress.
LEMMA NextArchiveInv ==
  ArchiveInv /\ [Archive!Next]_Archive!vars => ArchiveInv'
<1> SUFFICES ASSUME ArchiveInv, [Archive!Next]_Archive!vars PROVE ArchiveInv'
  OBVIOUS
<1> USE DEF ArchiveInv, Archive!TypeOK, Archive!PC, Archive!ArchiveState,
            ArchiveBusyInv, Archive!Goto, Archive!Write, Archive!Finish
<1>1. ASSUME NEW c \in Container, Archive!Call(c) PROVE ArchiveInv'
  BY <1>1 DEF Archive!Call
<1>2. CASE Archive!MakeOutputDir
  BY <1>2 DEF Archive!MakeOutputDir
<1>3. CASE Archive!StartTar
  BY <1>3 DEF Archive!StartTar
<1>4. CASE Archive!FinishTar
  <2>1. CASE archiveSuccess'
    BY <1>4, <2>1 DEF Archive!FinishTar
  <2>2. CASE ~archiveSuccess'
    <3>1. UNCHANGED <<archive, archiveSuccess>>
      BY <1>4, <2>2 DEF Archive!FinishTar
    <3>2. QED
      BY <1>4, <3>1 DEF Archive!FinishTar
  <2>3. QED
    BY <2>1, <2>2
<1>5. CASE Archive!RemoveFile
  BY <1>5 DEF Archive!RemoveFile
<1>6. CASE Archive!Interrupt
  BY <1>6 DEF Archive!Interrupt
<1>7. CASE UNCHANGED Archive!vars
  BY <1>7 DEF Archive!vars
<1>8. QED
  BY <1>1, <1>2, <1>3, <1>4, <1>5, <1>6, <1>7 DEF Archive!Next, Archive!Step

\* The inductive invariant of ExportContainerArchive's model.
THEOREM ArchiveInvariant == Archive!Spec => []ArchiveInv
BY InitArchiveInv, NextArchiveInv, PTL DEF Archive!Spec

\* Every variable keeps its type, whatever the set of containers.
THEOREM ArchiveTypeCorrect == Archive!Spec => []Archive!TypeOK
<1>1. ArchiveInv => Archive!TypeOK
  BY DEF ArchiveInv
<1>2. QED
  BY <1>1, ArchiveInvariant, PTL

-----------------------------------------------------------------------------
\* A step of the call in progress is one of the promise for its container.
LEMMA OfArchive ==
  ASSUME ArchiveInv,
         \/ Archive!Promise!Rewrite(archiveCur)
         \/ Archive!Promise!Fill(archiveCur)
         \/ Archive!Promise!Populate(archiveCur)
         \/ Archive!Promise!ReturnOk(archiveCur)
         \/ Archive!Promise!Withdraw(archiveCur)
         \/ Archive!Promise!Refuse(archiveCur)
         \/ Archive!Promise!Kill(archiveCur)
  PROVE  Archive!Promise!Next
<1>1. PICK c \in Container : c = archiveCur
  BY DEF ArchiveInv, Archive!TypeOK
<1>2. Archive!Promise!Rewrite(archiveCur) => Archive!Promise!Rewrite(c)
  BY <1>1 DEF Archive!Promise!Rewrite
<1>3. Archive!Promise!Fill(archiveCur) => Archive!Promise!Fill(c)
  BY <1>1 DEF Archive!Promise!Fill
<1>4. Archive!Promise!Populate(archiveCur) => Archive!Promise!Populate(c)
  BY <1>1 DEF Archive!Promise!Populate, Archive!Promise!Goes
<1>5. Archive!Promise!ReturnOk(archiveCur) => Archive!Promise!ReturnOk(c)
  BY <1>1 DEF Archive!Promise!ReturnOk, Archive!Promise!Goes
<1>6. Archive!Promise!Withdraw(archiveCur) => Archive!Promise!Withdraw(c)
  BY <1>1 DEF Archive!Promise!Withdraw, Archive!Promise!Goes
<1>7. Archive!Promise!Refuse(archiveCur) => Archive!Promise!Refuse(c)
  BY <1>1 DEF Archive!Promise!Refuse, Archive!Promise!Goes
<1>8. Archive!Promise!Kill(archiveCur) => Archive!Promise!Kill(c)
  BY <1>1 DEF Archive!Promise!Kill
<1>9. QED
  BY <1>2, <1>3, <1>4, <1>5, <1>6, <1>7, <1>8 DEF Archive!Promise!Next

\* ExportContainerArchive implements ExportPromise: a partial archive survives
\* its call only if the process was killed or the unlink was refused, and a
\* call that has set archiveSuccess returns ok with the archive untouched.
THEOREM ArchiveRefinement == Archive!Spec => Archive!ImplementsPromise
<1>1. Archive!Init => Archive!Promise!Init
  BY DEF Archive!Init, Archive!Promise!Init
<1>2. ArchiveInv /\ [Archive!Next]_Archive!vars
        => [Archive!Promise!Next]_Archive!Promise!vars
  <2> SUFFICES ASSUME ArchiveInv, [Archive!Next]_Archive!vars
               PROVE  \/ Archive!Promise!Next
                      \/ UNCHANGED <<ArchiveStatusBar, ArchiveFileBar,
                         refused>>
    BY DEF Archive!Promise!vars, ArchiveStatusBar, ArchiveFileBar
  <2> USE DEF ArchiveInv, Archive!TypeOK, ArchiveBusyInv, Archive!Goto,
              Archive!Write, Archive!Finish
  <2>1. ASSUME NEW c \in Container, Archive!Call(c)
        PROVE  Archive!Promise!Begin(c)
    <3>1. ArchiveStatusBar' = [ArchiveStatusBar EXCEPT ![c] = "busy"]
      BY <2>1 DEF Archive!Call, ArchiveStatusBar
    <3>2. Archive!Promise!Idle
      BY <2>1 DEF Archive!Call, Archive!Promise!Idle
    <3>3. QED
      BY <2>1, <3>1, <3>2
         DEF Archive!Call, Archive!Promise!Begin, ArchiveStatusBar,
             ArchiveFileBar
  <2>2. CASE Archive!MakeOutputDir
    <3>1. CASE archivePc' = "tar"
      BY <2>2, <3>1 DEF Archive!MakeOutputDir, ArchiveStatusBar, ArchiveFileBar
    <3>2. CASE archivePc' # "tar"
      <4>1. ArchiveStatusBar' =
              [ArchiveStatusBar EXCEPT ![archiveCur] = "error"]
        BY <2>2, <3>2 DEF Archive!MakeOutputDir, ArchiveStatusBar
      <4>2. ArchiveStatusBar[archiveCur] = "busy"
        BY <2>2 DEF Archive!MakeOutputDir, ArchiveStatusBar
      <4>3. Archive!Promise!Refuse(archiveCur)
        BY <2>2, <3>2, <4>1, <4>2
           DEF Archive!MakeOutputDir, Archive!Promise!Refuse,
               Archive!Promise!Goes, ArchiveStatusBar, ArchiveFileBar
      <4>4. QED
        BY <4>3, OfArchive
    <3>3. QED
      BY <3>1, <3>2
  <2>3. CASE Archive!StartTar
    <3>1. UNCHANGED ArchiveStatusBar /\ ArchiveStatusBar[archiveCur] = "busy"
      BY <2>3 DEF Archive!StartTar, ArchiveStatusBar
    <3>2. CASE UNCHANGED archive
      BY <2>3, <3>1, <3>2 DEF Archive!StartTar, ArchiveFileBar
    <3>3. CASE ~UNCHANGED archive
      <4>1. ArchiveFileBar' = [ArchiveFileBar EXCEPT ![archiveCur] = "partial"]
        BY <2>3, <3>3 DEF Archive!StartTar, ArchiveFileBar
      <4>2. Archive!Promise!Rewrite(archiveCur)
        BY <2>3, <3>1, <4>1
           DEF Archive!StartTar, Archive!Promise!Rewrite, ArchiveStatusBar,
               ArchiveFileBar
      <4>3. QED
        BY <4>2, OfArchive
    <3>4. QED
      BY <3>2, <3>3
  <2>4. CASE Archive!FinishTar
    <3>1. ArchiveStatusBar[archiveCur] = "busy"
      BY <2>4 DEF Archive!FinishTar, ArchiveStatusBar
    <3>2. CASE archiveSuccess'
      <4>1. ArchiveStatusBar' =
              [ArchiveStatusBar EXCEPT ![archiveCur] = "populated"]
        BY <2>4, <3>2 DEF Archive!FinishTar, ArchiveStatusBar
      <4>2. ArchiveFileBar' =
              [ArchiveFileBar EXCEPT ![archiveCur] = "populated"]
        BY <2>4, <3>2 DEF Archive!FinishTar, ArchiveFileBar
      <4>3. Archive!Promise!Populate(archiveCur)
        BY <2>4, <3>1, <4>1, <4>2
           DEF Archive!FinishTar, Archive!Promise!Populate,
               Archive!Promise!Goes, ArchiveStatusBar, ArchiveFileBar
      <4>4. QED
        BY <4>3, OfArchive
    <3>3. CASE ~archiveSuccess'
      BY <2>4, <3>3 DEF Archive!FinishTar, ArchiveStatusBar, ArchiveFileBar
    <3>4. QED
      BY <3>2, <3>3
  <2>5. CASE Archive!RemoveFile
    <3>1. CASE archiveSuccess
      <4>1. ArchiveStatusBar' = [ArchiveStatusBar EXCEPT ![archiveCur] = "ok"]
        BY <2>5, <3>1 DEF Archive!RemoveFile, ArchiveStatusBar
      <4>2. Archive!Promise!ReturnOk(archiveCur)
        BY <2>5, <3>1, <4>1
           DEF Archive!RemoveFile, Archive!Promise!ReturnOk,
               Archive!Promise!Goes, ArchiveStatusBar, ArchiveFileBar
      <4>3. QED
        BY <4>2, OfArchive
    <3>2. CASE ~archiveSuccess
      <4>1. ArchiveStatusBar' =
              [ArchiveStatusBar EXCEPT ![archiveCur] = "error"]
        BY <2>5, <3>2 DEF Archive!RemoveFile, ArchiveStatusBar
      <4>2. ArchiveStatusBar[archiveCur] = "busy"
        BY <2>5, <3>2 DEF Archive!RemoveFile, ArchiveStatusBar
      <4>3. CASE UNCHANGED archive /\ refused' = refused \cup {archiveCur}
        <5>1. Archive!Promise!Refuse(archiveCur)
          BY <4>1, <4>2, <4>3
             DEF Archive!Promise!Refuse, Archive!Promise!Goes,
                 ArchiveStatusBar, ArchiveFileBar
        <5>2. QED
          BY <5>1, OfArchive
      <4>4. CASE Archive!Write("absent") /\ UNCHANGED refused
        <5>1. ArchiveFileBar' =
                [ArchiveFileBar EXCEPT ![archiveCur] = "absent"]
          BY <4>4 DEF ArchiveFileBar
        <5>2. Archive!Promise!Withdraw(archiveCur)
          BY <4>1, <4>2, <4>4, <5>1
             DEF Archive!Promise!Withdraw, Archive!Promise!Goes,
                 ArchiveStatusBar, ArchiveFileBar
        <5>3. QED
          BY <5>2, OfArchive
      <4>5. QED
        BY <2>5, <3>2, <4>3, <4>4 DEF Archive!RemoveFile
    <3>3. QED
      BY <3>1, <3>2
  <2>6. CASE Archive!Interrupt
    <3>1. ArchiveStatusBar' =
            [ArchiveStatusBar EXCEPT ![archiveCur] = "killed"]
      BY <2>6 DEF Archive!Interrupt, ArchiveStatusBar
    <3>2. ArchiveStatusBar[archiveCur] \in {"busy", "populated"}
      BY <2>6 DEF Archive!Interrupt, ArchiveStatusBar
    <3>3. Archive!Promise!Kill(archiveCur)
      BY <2>6, <3>1, <3>2
         DEF Archive!Interrupt, Archive!Promise!Kill, ArchiveStatusBar,
             ArchiveFileBar
    <3>4. QED
      BY <3>3, OfArchive
  <2>7. CASE UNCHANGED Archive!vars
    BY <2>7 DEF Archive!vars, ArchiveStatusBar, ArchiveFileBar
  <2>8. QED
    BY <2>1, <2>2, <2>3, <2>4, <2>5, <2>6, <2>7
       DEF Archive!Next, Archive!Step, Archive!Promise!Next
<1>3. QED
  BY <1>1, <1>2, ArchiveInvariant, PTL
     DEF Archive!Spec, Archive!ImplementsPromise, Archive!Promise!Spec
=============================================================================
