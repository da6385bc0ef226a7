--------------------------- MODULE ExportPromise ---------------------------
(***************************************************************************)
(* What one file export (a raw image or an archive) promises the explorer  *)
(* that asked for it, whatever commands run underneath:                    *)
(*   - a call that has populated the file returns ok and leaves the file   *)
(*     alone from then on;                                                 *)
(*   - a call that fails withdraws the file, unless the file system        *)
(*     refused (the file is then in kept);                                 *)
(*   - only a file that an earlier call's file system still writes to (it  *)
(*     is in held) may be damaged behind the exporter's back.              *)
(* ImageExport and ArchiveExport implement this specification, and         *)
(* ContainerExport is built on it.                                         *)
(***************************************************************************)
CONSTANT Container      \* container IDs: the file is named after the ID

VARIABLES
  status,               \* [Container -> Status], the last call for each ID
  file,                 \* [Container -> FileState], the file in outputDir
  held,                 \* files re-created under an earlier call's mount
  kept                  \* files a failed call could not withdraw

vars == <<status, file, held, kept>>

Status == {"idle", "busy", "populated", "ok", "error", "killed"}
FileState == {"absent", "partial", "populated", "damaged"}

Idle == \A c \in Container : status[c] \notin {"busy", "populated"}

Goes(c, from, to) ==
  /\ status[c] = from
  /\ status' = [status EXCEPT ![c] = to]

Init ==
  /\ status = [c \in Container |-> "idle"]
  /\ file = [c \in Container |-> "absent"]
  /\ held = {}
  /\ kept = {}

Begin(c) ==
  /\ Idle
  /\ status' = [status EXCEPT ![c] = "busy"]
  /\ kept' = kept \ {c}
  /\ UNCHANGED <<file, held>>

\* The file is created anew or partly written.
Rewrite(c) ==
  /\ status[c] = "busy"
  /\ file' = [file EXCEPT ![c] = "partial"]
  /\ held' \in {held, held \cup {c}}
  /\ UNCHANGED <<status, kept>>

\* The copy has filled the file, but the call has not reached its success.
Fill(c) ==
  /\ status[c] = "busy"
  /\ file' = [file EXCEPT ![c] = "populated"]
  /\ UNCHANGED <<status, held, kept>>

\* From here on the call succeeds and no longer touches the file.
Populate(c) ==
  /\ Goes(c, "busy", "populated")
  /\ \/ file' = [file EXCEPT ![c] = "populated"]
     \/ c \in held /\ UNCHANGED file
  /\ UNCHANGED <<held, kept>>

ReturnOk(c) ==
  /\ Goes(c, "populated", "ok")
  /\ UNCHANGED <<file, held, kept>>

\* A failed call withdraws the file or records that it could not.
Withdraw(c) ==
  /\ Goes(c, "busy", "error")
  /\ file' = [file EXCEPT ![c] = "absent"]
  /\ held' = held \ {c}
  /\ UNCHANGED kept

Refuse(c) ==
  /\ Goes(c, "busy", "error")
  /\ kept' = kept \cup {c}
  /\ UNCHANGED <<file, held>>

\* The process is killed: nothing is cleaned up.
Kill(c) ==
  /\ status[c] \in {"busy", "populated"}
  /\ status' = [status EXCEPT ![c] = "killed"]
  /\ UNCHANGED <<file, held, kept>>

\* An earlier call's file system writes into the re-created file.
Damage(c) ==
  /\ c \in held
  /\ file[c] # "absent"
  /\ file' = [file EXCEPT ![c] = "damaged"]
  /\ UNCHANGED <<status, held, kept>>

Next ==
  \E c \in Container :
    \/ Begin(c) \/ Rewrite(c) \/ Fill(c) \/ Populate(c) \/ ReturnOk(c)
    \/ Withdraw(c) \/ Refuse(c) \/ Kill(c) \/ Damage(c)

Spec == Init /\ [][Next]_vars
=============================================================================
