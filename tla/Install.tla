------------------------------- MODULE Install -------------------------------
(***************************************************************************)
(* deploy/install.py: the token file that the service and its clients      *)
(* read.  Runs of the installer may overlap and may die at any statement;   *)
(* a name of Installers may run any number of times.  A token is the name   *)
(* of the run that drew it.                                                *)
(***************************************************************************)
CONSTANT Installers

VARIABLES file,   \* secrets/kripa_api_token: "absent", "empty" or a token
          pc      \* next statement of each installer

installVars == <<file, pc>>

InstallInit ==
  /\ file = "absent"
  /\ pc = [i \in Installers |-> "idle"]

Goto(i, label) == pc' = [pc EXCEPT ![i] = label]

\* Does the file exist?  (line 20)
Look(i) ==
  /\ pc[i] = "idle"
  /\ Goto(i, IF file = "absent" THEN "create" ELSE "up")
  /\ UNCHANGED file

\* Mutant: open without O_EXCL truncates.
CreateTruncating(i) ==
  /\ pc[i] = "create"
  /\ file' = "empty" /\ Goto(i, "write")

\* os.open with O_EXCL: the run ends if the file exists by now.
Create(i) ==
  /\ pc[i] = "create"
  /\ IF file = "absent"
     THEN file' = "empty" /\ Goto(i, "write")
     ELSE UNCHANGED file /\ Goto(i, "idle")

\* The token reaches the file when it is closed (lines 23-25).
Write(i) ==
  /\ pc[i] = "write"
  /\ file' = i /\ Goto(i, "up")

\* The installer dies, or one of its docker commands fails.
Crash(i) ==
  /\ pc[i] # "idle"
  /\ Goto(i, "idle")
  /\ UNCHANGED file
=============================================================================
