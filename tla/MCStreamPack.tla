------------------------------ MODULE MCStreamPack ------------------------------
(***************************************************************************)
(* Instances of StreamPack for TLC.                                        *)
(***************************************************************************)
EXTENDS StreamPack

Demands == INSTANCE MCPackCalls

StreamCalls == Demands!SmallCalls
===============================================================================
