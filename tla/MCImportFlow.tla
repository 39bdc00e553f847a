--------------------------- MODULE MCImportFlow ----------------------------
(* A small instance of ImportFlow: one folder of two files.                 *)
EXTENDS ImportFlow, TLC

OneFolder == {Files}
FilesOnly == {{x} : x \in Files}
=============================================================================
