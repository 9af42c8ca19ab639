------------------------------- MODULE MCSession -------------------------------
(* Small instances of Session: see the configurations MCSession*.cfg. *)
EXTENDS Session, TLC

CONSTANTS f1, f2, f3, d1, d2

\* One file of two blocks, one without content.
MCServerDir == f1 :> <<d1, d2>> @@ f2 :> <<>>
OneFile == f1 :> <<d1, d2>>
EmptyFile == f2 :> <<>>

\* The launcher's: nothing, another size with a file to delete, the same size, or
\* all right but a file to delete.
NoFiles == <<>>
Longer == f1 :> <<d2, d2, d2>> @@ f3 :> <<d1>>
SameSize == f1 :> <<d2, d2>> @@ f3 :> <<d1>>
OneTooMany == f1 :> <<d1, d2>> @@ f3 :> <<d1>>

AllDirs == {NoFiles, Longer, SameSize, OneTooMany}
OneToDelete == {f3 :> <<d1>>}

NoFaults == {}
ServerFaults == {"build", "read"}
DiskFaults == {"disk"}
===============================================================================
