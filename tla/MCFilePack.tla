------------------------------ MODULE MCFilePack -------------------------------
(***************************************************************************)
(* Instances of FilePack for TLC.                                          *)
(***************************************************************************)
EXTENDS FilePack

Demands == INSTANCE MCPackCalls

FileCalls == Demands!SmallCalls
===============================================================================
