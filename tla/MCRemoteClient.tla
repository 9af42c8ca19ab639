---------------------------- MODULE MCRemoteClient ----------------------------
(* Small instances of RemoteClient: see the configurations MCRemoteClient*.cfg. *)
EXTENDS RemoteClient, TLC

CONSTANTS f1, f2, f3, a, b, c

\* A file of three blocks, one more than may be in progress, and an empty one.
MCServerDir == f1 :> <<a, b, c>> @@ f2 :> <<>>

\* A launcher without files, one with a file to delete and another version of
\* the first file: shorter, hence sent in full, or with the same size.
NoFiles == <<>>
OldFiles == f1 :> <<a>> @@ f3 :> <<a>>
SameSize == f1 :> <<a, c, b>> @@ f3 :> <<a>>

EmptyOrOld == {NoFiles, OldFiles}
SameOrOld == {SameSize, OldFiles}
AllDirs == {NoFiles, OldFiles, SameSize}
OnlySame == {SameSize}

AllFaults == {"build", "read", "launcher"}
LauncherFaults == {"launcher"}
ServerFaults == {"build"}
NoFaults == {}
===============================================================================
