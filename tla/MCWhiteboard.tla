---------------------------- MODULE MCWhiteboard ----------------------------
(* Small instances of Whiteboard: all nodes are functions of one file.      *)
EXTENDS Whiteboard, TLC

OneFile == [n \in Loaded \cup NewCards |-> "file"]
=============================================================================
