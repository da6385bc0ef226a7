--------------------------- MODULE ArchiveExport ---------------------------
(***************************************************************************)
(* utils.ExportContainerArchive: make the output directory, run one tar    *)
(* command, and in the deferred function remove the archive of a failed    *)
(* call.  tar truncates an archive of that name when it opens it, so a     *)
(* failure before or after that moment leaves different files behind.      *)
(***************************************************************************)
CONSTANT Container          \* container IDs; <ID>.tar.gz is the file of ID

VARIABLES
  pc,                       \* the next step of the current call
  cur,                      \* the ID the current (or last) call archives
  success,                  \* the local of that name
  archive,                  \* [Container -> ArchiveState]
  outcome,                  \* history: result of the last call for each ID
  refused                   \* history: files whose call could not clean up

vars == <<pc, cur, success, archive, outcome, refused>>

ArchiveState == {"absent", "partial", "complete"}
PC == {"idle", "output", "tar", "writing", "rmfile"}

TypeOK ==
  /\ pc \in PC /\ cur \in Container /\ success \in BOOLEAN
  /\ archive \in [Container -> ArchiveState]
  /\ outcome \in [Container -> {"idle", "busy", "ok", "error", "killed"}]
  /\ refused \in SUBSET Container

Init ==
  /\ pc = "idle" /\ cur \in Container /\ success = FALSE
  /\ archive = [c \in Container |-> "absent"]
  /\ outcome = [c \in Container |-> "idle"]
  /\ refused = {}

Goto(from, to) == pc = from /\ pc' = to
Write(state) == archive' = [archive EXCEPT ![cur] = state]

\* Mutant: the result of the call is its last step.
FinishReportingStep(result) ==
  pc' = "idle" /\ outcome' = [outcome EXCEPT ![cur] = pc]

Finish(result) == pc' = "idle" /\ outcome' = [outcome EXCEPT ![cur] = result]

Call(c) ==
  /\ Goto("idle", "output")
  /\ cur' = c /\ success' = FALSE
  /\ outcome' = [outcome EXCEPT ![c] = "busy"]
  /\ refused' = refused \ {c}
  /\ UNCHANGED archive

MakeOutputDir ==
  /\ \/ Goto("output", "tar") /\ UNCHANGED <<outcome, refused>>
     \/ /\ pc = "output" /\ Finish("error")
        /\ refused' = refused \cup {cur}
  /\ UNCHANGED <<cur, success, archive>>

\* tar -czf opens the archive, or cannot be run.
StartTar ==
  /\ \/ Goto("tar", "writing") /\ Write("partial")
     \/ Goto("tar", "rmfile") /\ UNCHANGED archive
  /\ UNCHANGED <<cur, success, outcome, refused>>

\* tar exits; success is set only on exit status 0.
FinishTar ==
  /\ Goto("writing", "rmfile")
  /\ \/ Write("complete") /\ success' = TRUE
     \/ UNCHANGED <<archive, success>>
  /\ UNCHANGED <<cur, outcome, refused>>

\* Mutant: the archive of a failed call is not removed.
RemoveFileNever ==
  /\ pc = "rmfile"
  /\ (success /\ Finish("ok")) \/ (~success /\ Finish("error"))
  /\ UNCHANGED <<cur, success, archive, refused>>

\* The deferred function.
RemoveFile ==
  /\ pc = "rmfile"
  /\ \/ success /\ Finish("ok") /\ UNCHANGED <<archive, refused>>
     \/ ~success /\ Finish("error") /\ Write("absent") /\ UNCHANGED refused
     \/ ~success /\ Finish("error") /\ refused' = refused \cup {cur}
        /\ UNCHANGED archive
  /\ UNCHANGED <<cur, success>>

Interrupt ==
  /\ pc # "idle"
  /\ Finish("killed")
  /\ UNCHANGED <<cur, success, archive, refused>>

Step == MakeOutputDir \/ StartTar \/ FinishTar \/ RemoveFile

Next == (\E c \in Container : Call(c)) \/ Step \/ Interrupt

Spec == Init /\ [][Next]_vars

(***************************************************************************)
(* ExportContainerArchive keeps the same promise as the image export: the  *)
(* call is populated once success is set, and a partial archive survives   *)
(* its call only if the process was killed or the unlink was refused; no   *)
(* mount ever writes the file.                                             *)
(***************************************************************************)
Promise == INSTANCE ExportPromise WITH
  status <- [c \in Container |-> IF c = cur /\ pc # "idle" /\ success
                                 THEN "populated" ELSE outcome[c]],
  file <- [c \in Container |-> IF archive[c] = "complete" THEN "populated"
                                                          ELSE archive[c]],
  held <- {},
  kept <- refused

ImplementsPromise == Promise!Spec
=============================================================================
