------------------------------- MODULE NvPrefs -------------------------------
(***************************************************************************)
(* The NVIDIA driver setting that Sunshine changes while it runs           *)
(* (platform/windows/nvprefs): the value to go back to is written to an    *)
(* undo file before the driver is changed, and the file is deleted after   *)
(* the driver is restored, so that a program that died is repaired by the  *)
(* next start or by `sunshine --restore-nvprefs-undo`. The file is opened  *)
(* without sharing: who owns it locks it. The driver (NvAPI) and the user, *)
(* who changes the setting in the control panel, are external.             *)
(***************************************************************************)
EXTENDS Naturals

CONSTANTS MaxChange, \* bound on changes by the user
          MaxStart,  \* bound on program starts and stream starts
          None

Values == {"none", "off", "on"}  \* "none": the profile has no such setting

VARIABLES
  driver,    \* the setting, saved
  session,   \* the setting in the loaded DRS session
  user,      \* what the user last chose
  ours,      \* the saved value was put there by the program
  file,      \* the undo file: None, "empty", or the value to undo to
  handle,    \* undo_file: "no", "open", or "null" once its file was deleted
  undo,      \* undo_data in memory: None or a value
  step,      \* where the program is: "off", "running", or a step of a procedure
  leaving,   \* the procedure is the one at exit
  power,     \* the application profile asks for high power
  raced,     \* the user changed the setting while a session was loaded
  gaveUp,    \* an undo file was deleted although the driver was not restored
  changes, starts

nvVars == <<driver, session, user, ours, file, handle, undo, step, leaving, power, raced, gaveUp, changes, starts>>

Init ==
  /\ driver = "none" /\ session = "none" /\ user = "none" /\ ours = FALSE /\ file = None
  /\ handle = "no" /\ undo = None /\ step = "off" /\ leaving = FALSE /\ power = FALSE
  /\ raced = FALSE /\ gaveUp = FALSE /\ changes = 0 /\ starts = 0

Settings == <<driver, session, user, ours>>
Undo == <<file, handle, undo>>
Ghosts == <<raced, gaveUp, changes>>

\* The user changes the setting; an unsaved session does not see it.
UserChange(v) ==
  /\ changes < MaxChange /\ v # driver /\ changes' = changes + 1
  /\ driver' = v /\ user' = v /\ ours' = FALSE
  /\ raced' = (raced \/ step \notin {"off", "running"})
  /\ UNCHANGED <<session, step, leaving, power, gaveUp, starts>> /\ UNCHANGED Undo

\* load: main at start, streaming_will_start, and main at exit.
Load ==
  /\ \/ /\ step \in {"off", "running"} /\ starts < MaxStart /\ starts' = starts + 1
        /\ step' = (IF handle = "no" THEN "recover" ELSE "profile") /\ leaving' = FALSE
     \/ /\ step = "running" /\ handle # "no" /\ step' = "restore" /\ leaving' = TRUE
        /\ UNCHANGED starts
  /\ session' = driver
  /\ UNCHANGED <<driver, user, ours, power>> /\ UNCHANGED Undo /\ UNCHANGED Ghosts

\* The program ends having nothing to restore.
Exit ==
  /\ step = "running" /\ handle = "no" /\ step' = "off"
  /\ UNCHANGED <<leaving, power, starts>> /\ UNCHANGED Settings /\ UNCHANGED Undo /\ UNCHANGED Ghosts

\* Any step may be the last one; the system closes the file.
Crash ==
  /\ step # "off" /\ step' = "off" /\ handle' = "no" /\ undo' = None
  /\ UNCHANGED <<file, leaving, power, starts>> /\ UNCHANGED Settings /\ UNCHANGED Ghosts

(***************************************************************************)
(* Going back                                                              *)
(***************************************************************************)

\* restore_global_profile_to_undo: only our own value is undone.
Restored(to) == IF session = "on" THEN to ELSE session

\* ... and save_settings, which may fail
SaveRestored(to) ==
  \/ /\ session' = Restored(to) /\ driver' = IF session' = session THEN driver ELSE session'
     /\ ours' = (ours /\ session' = session) /\ UNCHANGED <<user, gaveUp>>
  \/ session' = Restored(to) /\ gaveUp' = (gaveUp \/ ours) /\ UNCHANGED <<driver, user, ours>>

\* restore_from_and_delete_undo_file_if_exists: an unreadable file restores nothing.
Recover ==
  /\ step = "recover"
  /\ IF file = None THEN step' = "profile" /\ UNCHANGED Settings /\ UNCHANGED gaveUp
     ELSE /\ step' = "recovered"
          /\ IF file = "empty" THEN UNCHANGED Settings /\ UNCHANGED gaveUp ELSE SaveRestored(file)
  /\ UNCHANGED <<leaving, power, raced, changes, starts>> /\ UNCHANGED Undo

\* ... the file is deleted in any case.
RecoverDelete ==
  /\ step = "recovered" /\ step' = "profile"
  /\ file' \in {None, file}
  /\ UNCHANGED <<handle, undo, leaving, power, starts>> /\ UNCHANGED Settings /\ UNCHANGED Ghosts

\* Mutant of Restore: the file is deleted before the driver is restored.
RestoreDeletesFirst ==
  /\ step = "restore" /\ handle = "open" /\ undo # None /\ step' = "restored" /\ file' = None
  /\ UNCHANGED <<handle, undo, leaving, power, starts>> /\ UNCHANGED Settings /\ UNCHANGED Ghosts

\* restore_global_profile
Restore ==
  /\ step = "restore"
  /\ \/ /\ undo # None
        /\ session' = Restored(undo) /\ driver' = (IF session' = session THEN driver ELSE session')
        /\ ours' = (ours /\ session' = session)
        /\ step' = "restored" /\ UNCHANGED user
     \/ step' = "off" /\ UNCHANGED Settings   \* nothing to undo, or it failed
  /\ handle' = (IF step' = "off" THEN "no" ELSE handle)
  /\ undo' = (IF step' = "off" THEN None ELSE undo)
  /\ UNCHANGED <<file, leaving, power, starts>> /\ UNCHANGED Ghosts

RestoreDelete ==
  /\ step = "restored" /\ step' = "off" /\ handle' = "no" /\ undo' = None
  /\ file' \in (IF handle = "open" THEN {None, file} ELSE {file})
  /\ UNCHANGED <<leaving, power, starts>> /\ UNCHANGED Settings /\ UNCHANGED Ghosts

\* `sunshine --restore-nvprefs-undo` in another process: the lock keeps it out.
RestoreTool ==
  /\ file # None /\ handle # "open" /\ step \in {"off", "running"}
  /\ session' = session /\ driver' = (IF driver = "on" /\ file \in Values THEN file ELSE driver)
  /\ ours' = (ours /\ driver' = driver) /\ file' = None
  /\ UNCHANGED <<user, handle, undo, step, leaving, power, starts>> /\ UNCHANGED Ghosts

(***************************************************************************)
(* Changing the setting                                                    *)
(***************************************************************************)

\* modify_application_profile
Profile ==
  /\ step = "profile" /\ step' = "modify" /\ power' \in {power, TRUE}
  /\ UNCHANGED <<leaving, starts>> /\ UNCHANGED Settings /\ UNCHANGED Undo /\ UNCHANGED Ghosts

\* check_and_modify_global_profile, and the creation of the undo file: a file that
\* is still there, or one that was deleted under its handle, ends it.
Modify ==
  /\ step = "modify"
  /\ IF session = "on" THEN step' = "running" /\ UNCHANGED <<file, handle>>
     ELSE IF handle = "no" /\ file = None THEN step' = "write" /\ handle' = "open" /\ file' = "empty"
     ELSE step' = (IF handle = "open" THEN "write" ELSE "running") /\ UNCHANGED <<file, handle>>
  /\ UNCHANGED <<undo, leaving, power, starts>> /\ UNCHANGED Settings /\ UNCHANGED Ghosts

\* undo_data_t::merge: the later value to undo to is taken.
Merged(old, new) == new

\* write_undo_data empties the file first ...
WriteClear ==
  /\ step = "write" /\ step' = "write2"
  /\ undo' = Merged(undo, session) /\ file' = "empty"
  /\ UNCHANGED <<handle, leaving, power, starts>> /\ UNCHANGED Settings /\ UNCHANGED Ghosts

\* ... and then writes; when that fails the file is deleted.
Write ==
  /\ step = "write2"
  /\ \/ file' = undo /\ step' = "save" /\ UNCHANGED handle
     \/ step' = "running" /\ file' = None /\ handle' = "null"
  /\ UNCHANGED <<undo, leaving, power, starts>> /\ UNCHANGED Settings /\ UNCHANGED Ghosts

\* save_settings, or the session is loaded again without the change.
Save ==
  /\ step = "save" /\ step' = "running"
  /\ \/ driver' = "on" /\ session' = "on" /\ ours' = TRUE /\ UNCHANGED user
     \/ UNCHANGED Settings
  /\ UNCHANGED <<leaving, power, starts>> /\ UNCHANGED Undo /\ UNCHANGED Ghosts

Next ==
  \/ Load \/ Exit \/ Crash \/ Recover \/ RecoverDelete \/ Restore \/ RestoreDelete \/ RestoreTool
  \/ Profile \/ Modify \/ WriteClear \/ Write \/ Save
  \/ \E v \in Values : UserChange(v)

Spec == Init /\ [][Next]_nvVars

(***************************************************************************)
(* Properties                                                              *)
(***************************************************************************)

\* While the driver holds the program's value, the undo file holds the user's: at
\* no point does a crash lose it. Excepted are a change by the user under a
\* loaded session and a restore that failed and dropped its file.
UndoIsOnDisk == ours /\ ~raced /\ ~gaveUp /\ user # "on" => file = user

\* A value the user chose since is never undone, neither at exit nor after a
\* crash: going back compares with the program's own value. (A user who chose the
\* very value of the program cannot be told apart, and is undone.)
UserValueKept == ~raced /\ ~gaveUp /\ ~ours /\ user # "on" => driver = user

\* The inductive invariant behind both. Unless the user interfered or a restore
\* failed: the program's value in the driver is backed by the file and by what is
\* in memory; the loaded session is the driver's; a file is emptied, written or
\* deleted only while the driver holds the user's value.
Procedure == step \notin {"off", "running"}
UndoInv ==
  /\ user \in Values /\ (ours => driver = "on")
  /\ ~raced /\ ~gaveUp /\ user # "on" =>
       /\ IF ours THEN file = user /\ undo \in {None, user} ELSE driver = user
       /\ Procedure => session = driver
       /\ step \in {"recovered", "restored", "write", "write2", "save"} => ~ours
       /\ step \in {"write2", "save"} => undo = session
       /\ step = "save" => file = undo
=============================================================================
