---------------------------- MODULE MCLauncherClient ----------------------------
(* Small instances of LauncherClient: see the configurations MCLauncherClient*.cfg. *)
EXTENDS LauncherClient, TLC

CONSTANTS f1, f2, d1, d2

\* The server's files.
TwoBlocks == f1 :> <<d1, d2>>

\* The launcher's: the file in another size or with another content, and a file
\* to delete; or none.
Longer == f1 :> <<d2, d2, d2>> @@ f2 :> <<d1>>
SameLength == f1 :> <<d2, d2>> @@ f2 :> <<d1>>
NoFiles == <<>>
Sames == {SameLength}
AllDisks == {NoFiles, Longer, SameLength}

NoneThere == {NoFiles}
Longers == {Longer}
Once == <<TwoBlocks>>
Twice == <<TwoBlocks, TwoBlocks>>
===============================================================================
