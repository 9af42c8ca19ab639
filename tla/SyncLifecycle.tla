----------------------------- MODULE SyncLifecycle -----------------------------
(***************************************************************************)
(* What a synchronisation promises to the application, without threads,    *)
(* tasks and messages: the status derlRemoteClient shows and the launcher's *)
(* files.                                                                  *)
(***************************************************************************)
CONSTANTS
    ServerDir,   \* the files below the server's data directory
    ClientDirs   \* the files the launcher may have at the beginning

VARIABLES
    status,      \* pSynchronizeStatus
    files        \* the files below the launcher's data directory

vars == <<status, files>>

Init ==
    /\ status = "pending"
    /\ files \in ClientDirs

\* Synchronize() does nothing during a synchronisation, and may repeat any other.
Begin ==
    /\ status # "processing"
    /\ status' = "processing"
    /\ UNCHANGED files

\* Files the server has not can only go, others come to stay.
Replaces(old, new) ==
    /\ \A p \in DOMAIN new \ DOMAIN ServerDir : p \in DOMAIN old /\ new[p] = old[p]
    /\ DOMAIN old \cap DOMAIN ServerDir \subseteq DOMAIN new

\* Requests on their way when a synchronisation fails are still carried out.
Work ==
    /\ status \in {"processing", "failed"}
    /\ Replaces(files, files')
    /\ UNCHANGED status

Succeed ==
    /\ status = "processing"
    /\ files = ServerDir
    /\ status' = "ready"
    /\ UNCHANGED files

Fail ==
    /\ status = "processing"
    /\ status' = "failed"
    /\ UNCHANGED files

Next == Begin \/ Work \/ Succeed \/ Fail

Spec == Init /\ [][Next]_vars
===============================================================================
