----------------------------- MODULE RecoverableJson -----------------------------
(***************************************************************************)
(* A JSON file that a crash cannot lose                                    *)
(* (apps/server/src/recoverable-json.ts): a write goes to a temporary file *)
(* that replaces the file, which is first moved to a backup; a read that   *)
(* finds no valid file restores it from the backup. The journals of        *)
(* queues, creations, schedules and settings are such files, each with one *)
(* writer at a time.                                                       *)
(***************************************************************************)

CONSTANTS
  Values,
  Missing, Torn,  \* no file, and one that does not parse
  UndoFails       \* TRUE: moving the backup back may fail too

ASSUME ContentsAssumption == Missing \notin Values /\ Torn \notin Values

VARIABLES
  primary, backup, temporary,   \* the files
  step,      \* where the writer or reader is
  moved,     \* backedUp
  value,     \* the value that is written or restored
  last       \* what the program last read or was told is written, or Missing

files == <<primary, backup, temporary>>
vars == <<files, step, moved, value, last>>

Init ==
  /\ primary = Missing /\ backup = Missing /\ temporary = Missing
  /\ step = "down" /\ moved = FALSE /\ value = Missing /\ last = Missing

\* readCandidate of both files
Readable ==
  IF primary \in Values THEN primary ELSE IF backup \in Values THEN backup ELSE Missing

-----------------------------------------------------------------------------
(* readRecoverableJson *)

Open ==
  /\ step = "down"
  /\ last' = Readable /\ value' = Readable
  /\ step' = IF primary \notin Values /\ backup \in Values THEN "restore" ELSE "idle"
  /\ UNCHANGED <<files, moved>>

\* restorePrimary
RestoreTemporary ==
  /\ step = "restore" /\ step' = "restore-remove"
  /\ temporary' = value
  /\ UNCHANGED <<primary, backup, moved, value, last>>
RestoreRemove ==
  /\ step = "restore-remove" /\ step' = "restore-rename"
  /\ primary' = Missing
  /\ UNCHANGED <<backup, temporary, moved, value, last>>
RestoreRename ==
  /\ step = "restore-rename" /\ step' = "idle"
  /\ primary' = temporary /\ temporary' = Missing
  /\ UNCHANGED <<backup, moved, value, last>>

-----------------------------------------------------------------------------
(* writeRecoverableJson *)

Write(v) ==
  /\ step = "idle" /\ step' = "write"
  /\ value' = v /\ moved' = FALSE
  /\ UNCHANGED <<files, last>>

WriteTemporary ==
  /\ step = "write" /\ step' = "remove"
  /\ temporary' = value
  /\ UNCHANGED <<primary, backup, moved, value, last>>

RemoveBackup ==
  /\ step = "remove" /\ step' = "move"
  /\ backup' = Missing
  /\ UNCHANGED <<primary, temporary, moved, value, last>>

\* Mutant: the file is removed, where the code moves it.
MoveNowhere ==
  /\ step = "move" /\ step' = "install"
  /\ primary' = Missing /\ moved' = FALSE /\ UNCHANGED <<backup, temporary, value, last>>

\* The file, if there is one, becomes the backup.
Move ==
  /\ step = "move" /\ step' = "install"
  /\ IF primary = Missing THEN UNCHANGED <<primary, backup, moved>>
     ELSE backup' = primary /\ primary' = Missing /\ moved' = TRUE
  /\ UNCHANGED <<temporary, value, last>>

Install ==
  /\ step = "install" /\ step' = "idle"
  /\ primary' = temporary /\ temporary' = Missing /\ last' = value
  /\ UNCHANGED <<backup, moved, value>>

\* A step before the last fails: the write rejects and leaves the files.
Fails ==
  /\ step \in {"write", "remove", "move"} /\ step' = "idle"
  /\ temporary' \in IF step = "write" THEN {temporary, Torn} ELSE {temporary}
  /\ UNCHANGED <<primary, backup, moved, value, last>>

\* The last one fails: the backup is moved back, which may fail too.
InstallFails ==
  /\ step = "install" /\ step' = "idle"
  /\ \/ moved /\ primary' = backup /\ backup' = Missing
     \/ (moved => UndoFails) /\ UNCHANGED <<primary, backup>>
  /\ temporary' \in {temporary, Missing}
  /\ UNCHANGED <<moved, value, last>>

\* The process ends; a file it was writing is cut off.
Crash ==
  /\ step # "down" /\ step' = "down"
  /\ temporary' \in IF step \in {"write", "restore"} THEN {temporary, Torn} ELSE {temporary}
  /\ UNCHANGED <<primary, backup, moved, value, last>>

Next ==
  \/ Open \/ RestoreTemporary \/ RestoreRemove \/ RestoreRename
  \/ \E v \in Values : Write(v)
  \/ WriteTemporary \/ RemoveBackup \/ Move \/ Install
  \/ Fails \/ InstallFails \/ Crash

Spec == Init /\ [][Next]_vars

-----------------------------------------------------------------------------
(* Properties *)

Writing == step \in {"write", "remove", "move", "install"}

TypeOK ==
  /\ \A f \in {primary, backup, temporary} : f \in Values \cup {Missing, Torn}
  /\ moved \in BOOLEAN /\ value \in Values \cup {Missing} /\ last \in Values \cup {Missing}
  /\ step \in {"down", "idle", "restore", "restore-remove", "restore-rename",
               "write", "remove", "move", "install"}

\* Wherever the program stops, it reads again what it was last told is written:
\* a write takes place in the one step that replaces the file, or not at all; with
\* UndoFails the old file may stay in the backup, and then a failed write may still
\* take effect.
NeverLost == Readable = last
=============================================================================
