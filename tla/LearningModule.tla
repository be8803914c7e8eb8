---------------------------- MODULE LearningModule ----------------------------
(***************************************************************************)
(* The feedback history of LearningModule and its LearningPersistence      *)
(* (src/src/learning), across the awaits of loading, saving and exporting  *)
(* and across a crash of the process. A history is the set of the feedback *)
(* in it; the patterns derived from it are left out.                       *)
(***************************************************************************)
EXTENDS Integers, Sequences, Functions

CONSTANTS
  Feedback,                \* the feedback that may be recorded
  Keep,                    \* backups kept, 5 in the code
  Exporters,               \* calls of exportToCSV
  MaxSaves, MaxFailures, MaxCrashes,   \* bounds on the saves, the writes that fail, the crashes
  Nothing, Broken          \* no file, and one that cannot be parsed

VARIABLES
  arrays,     \* the history arrays made so far
  history,    \* feedbackHistory: the array the module uses
  timer,      \* autoSaveInterval is set
  loading,    \* initialize awaits the load
  save,       \* the save each saver has in progress
  original,   \* originalHistory of each export in progress, or 0
  file, backups,
  exported,   \* the exports that have begun
  saves, failures, crashes,
  recorded,   \* history: feedback recorded since the process started
  exposed,    \* history: what was recorded during the load or an export
  saved,      \* history: what the last save wrote, or the load read
  overlapped  \* history: two saves have been in progress at once

memory == <<arrays, history, timer, loading, original>>

vars == <<memory, save, file, backups, exported, saves, failures, crashes, recorded, exposed, saved, overlapped>>

Savers == {"auto", "destroy"} \cup Exporters

Idle == [pc |-> "idle", array |-> 0, content |-> {}]

-----------------------------------------------------------------------------
RecordFeedback(f) ==
  /\ f \notin recorded
  /\ arrays' = [arrays EXCEPT ![history] = @ \cup {f}]
  /\ recorded' = recorded \cup {f}
  /\ exposed' = IF loading \/ \E x \in Exporters : original[x] # 0 THEN exposed \cup {f} ELSE exposed
  /\ UNCHANGED <<history, timer, loading, save, original, file, backups, exported, saves, failures, crashes,
                 saved, overlapped>>

(* The load ends: the history is replaced by the file's, or kept when      *)
(* there is none to read; then the autosave is set up.                     *)
LoadFromPersistence ==
  /\ loading /\ loading' = FALSE /\ timer' = TRUE
  /\ IF file \in {Nothing, Broken}
     THEN UNCHANGED <<arrays, history>> /\ saved' = Nothing
     ELSE /\ arrays' = Append(arrays, file) /\ history' = Len(arrays')
          /\ saved' = file
  /\ UNCHANGED <<save, original, file, backups, exported, saves, failures, crashes, recorded, exposed, overlapped>>

(* saveToPersistence: the array is captured, not copied. *)
SaveToPersistence(s, array) ==
  /\ save[s] = Idle /\ saves < MaxSaves /\ saves' = saves + 1
  /\ save' = [save EXCEPT ![s] = [pc |-> "backup", array |-> array, content |-> {}]]
  /\ overlapped' = (overlapped \/ \E r \in Savers : save[r] # Idle)

AutoSave ==
  /\ timer /\ SaveToPersistence("auto", history)
  /\ UNCHANGED <<memory, file, backups, exported, failures, crashes, recorded, exposed, saved>>

Destroy ==
  /\ timer' = FALSE /\ SaveToPersistence("destroy", history)
  /\ UNCHANGED <<arrays, history, loading, original, file, backups, exported, failures, crashes,
                 recorded, exposed, saved>>

Newest(all) == SubSeq(all, IF Len(all) > Keep THEN Len(all) - Keep + 1 ELSE 1, Len(all))

(* createBackup and cleanOldBackups *)
Backup == IF file = Nothing THEN backups ELSE Newest(Append(backups, file))

CreateBackup(s) ==
  /\ save[s].pc = "backup"
  /\ save' = [save EXCEPT ![s].pc = "write"]
  /\ backups' = Backup
  /\ UNCHANGED <<memory, file, exported, saves, failures, crashes, recorded, exposed, saved,
                 overlapped>>

(* writeFile empties the file first. *)
WriteBegins(s) ==
  /\ save[s].pc = "write"
  /\ save' = [save EXCEPT ![s].pc = "writing", ![s].content = arrays[save[s].array]]
  /\ file' = Broken
  /\ UNCHANGED <<memory, backups, exported, saves, failures, crashes, recorded, exposed, saved, overlapped>>

AfterSave(s) == IF s \in Exporters THEN [Idle EXCEPT !.pc = "csv"] ELSE Idle

(* Two writes at once may leave a mixture of both. *)
WriteEnds(s) ==
  /\ save[s].pc = "writing"
  /\ file' \in {save[s].content}
               \cup (IF \E r \in Savers \ {s} : save[r].pc = "writing" THEN {Broken} ELSE {})
  /\ saved' = save[s].content
  /\ save' = [save EXCEPT ![s] = AfterSave(s)]
  /\ UNCHANGED <<memory, backups, exported, saves, failures, crashes, recorded, exposed, overlapped>>

(* A write that fails leaves the file broken; an export is abandoned with  *)
(* its own array as the history.                                           *)
WriteFails(s) ==
  /\ failures < MaxFailures /\ failures' = failures + 1
  /\ save[s].pc = "writing"
  /\ save' = [save EXCEPT ![s] = Idle]
  /\ original' = [x \in Exporters |-> IF x = s THEN 0 ELSE original[x]]
  /\ UNCHANGED <<arrays, history, timer, loading, file, backups, exported, saves, crashes, recorded,
                 exposed, saved, overlapped>>

(* exportToCSV: the history is a copy while the export is in progress. *)
ExportToCSV(x) ==
  /\ x \notin exported /\ exported' = exported \cup {x}
  /\ arrays' = Append(arrays, arrays[history])
  /\ history' = Len(arrays')
  /\ original' = [original EXCEPT ![x] = history]
  /\ SaveToPersistence(x, history')
  /\ UNCHANGED <<timer, loading, file, backups, failures, crashes, recorded, exposed, saved>>

(* Mutant: the array of the start is put back. *)
ExportEnds_First(x) ==
  /\ save[x].pc = "csv"
  /\ save' = [save EXCEPT ![x] = Idle]
  /\ history' = IF file \in {Nothing, Broken} THEN history ELSE 1
  /\ original' = [original EXCEPT ![x] = 0]
  /\ UNCHANGED <<arrays, timer, loading, file, backups, exported, saves, failures, crashes, recorded,
                 exposed, saved, overlapped>>

(* The file is read back for the CSV; if that fails nothing is put back. *)
ExportEnds(x) ==
  /\ save[x].pc = "csv"
  /\ save' = [save EXCEPT ![x] = Idle]
  /\ history' = IF file \in {Nothing, Broken} THEN history ELSE original[x]
  /\ original' = [original EXCEPT ![x] = 0]
  /\ UNCHANGED <<arrays, timer, loading, file, backups, exported, saves, failures, crashes, recorded,
                 exposed, saved, overlapped>>

(* The process ends at any point, and starts again. *)
Crash ==
  /\ crashes < MaxCrashes /\ crashes' = crashes + 1
  /\ arrays' = <<{}>> /\ history' = 1 /\ timer' = FALSE /\ loading' = TRUE /\ original' = [x \in Exporters |-> 0]
  /\ save' = [s \in Savers |-> Idle]
  /\ recorded' = {} /\ exposed' = {} /\ saved' = Nothing /\ overlapped' = FALSE
  /\ UNCHANGED <<file, backups, exported, saves, failures>>

Init ==
  /\ arrays = <<{}>> /\ history = 1 /\ timer = FALSE /\ loading = TRUE /\ original = [x \in Exporters |-> 0]
  /\ save = [s \in Savers |-> Idle]
  /\ file = Nothing /\ backups = <<>> /\ exported = {} /\ saves = 0 /\ failures = 0 /\ crashes = 0
  /\ recorded = {} /\ exposed = {} /\ saved = Nothing /\ overlapped = FALSE

Next ==
  \/ \E f \in Feedback : RecordFeedback(f)
  \/ \E s \in Savers : CreateBackup(s) \/ WriteBegins(s) \/ WriteEnds(s) \/ WriteFails(s)
  \/ \E x \in Exporters : ExportToCSV(x) \/ ExportEnds(x)
  \/ LoadFromPersistence \/ AutoSave \/ Destroy \/ Crash

Spec == Init /\ [][Next]_vars

-----------------------------------------------------------------------------
(* Properties. *)

(* No feedback leaves the history, except what was recorded while the load *)
(* or an export was in progress; and what the last save wrote, or the load *)
(* read, is in the file or in a backup at every point, also when the       *)
(* process ends in the middle of a write or a write fails, as long as no   *)
(* two saves overlap and fewer writes than there are backups fail.         *)
FeedbackKept ==
  /\ recorded \ arrays[history] \subseteq exposed
  /\ saved # Nothing /\ ~overlapped => saved \in {file} \cup Range(backups)

=============================================================================
