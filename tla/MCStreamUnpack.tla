----------------------------- MODULE MCStreamUnpack -----------------------------
(***************************************************************************)
(* Instances of StreamUnpack for TLC.                                        *)
(***************************************************************************)
EXTENDS StreamUnpack

Input == INSTANCE MCUnpackFiles

AllFiles == Input!WholeFiles \cup Input!CutFiles
===============================================================================
