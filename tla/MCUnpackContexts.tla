---------------------------- MODULE MCUnpackContexts ----------------------------
(***************************************************************************)
(* Instances of FileUnpack and StreamUnpack for TLC: a client uses a       *)
(* context of one kind or the other.  Its stream ends with an item; its    *)
(* file ends anywhere.                                                     *)
(***************************************************************************)
EXTENDS FileUnpack, StreamUnpack

Input == INSTANCE MCUnpackFiles

WholeFiles == Input!WholeFiles
AllFiles   == Input!WholeFiles \cup Input!CutFiles

\* No item of the streams is cut off; some of the files end within one.
ASSUME WholeFilesEndWithItem == \A f \in WholeFiles : EndsWithItem(f)
ASSUME SomeFilesDoNot == \E f \in Input!CutFiles : ~EndsWithItem(f)

VARIABLE used  \* the kind of context the client uses

UsedInit == Init /\ used \in {"file", "stream"}

FileUsed(action)   == used = "file" /\ action /\ UNCHANGED used
StreamUsed(action) == used = "stream" /\ action /\ UNCHANGED used

UsedNext ==
    \/ FileUsed(FileNext)
    \/ StreamUsed(StreamNext /\ file' \in WholeFiles)

\* The fairness of FileSpec and StreamSpec.
UsedSpec ==
    /\ UsedInit /\ [][UsedNext]_<<vars, used>>
    /\ WF_<<vars, used>>(FileUsed(FileRoutine))
    /\ WF_<<vars, used>>(StreamUsed(StreamRoutine))
===============================================================================
