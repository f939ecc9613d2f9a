---------------------------- MODULE MCDeltaSync ----------------------------
\* A folder that may be renamed or deleted, and a file that appears in it.
EXTENDS DeltaSync

CONSTANTS folder, file, oldName, newName

At(p, n) == [parent |-> p, name |-> n]
FolderAndFile == [i \in {folder, file} |-> IF i = folder THEN {At(Root, newName)} ELSE {At(folder, oldName)}]
FolderOnly == [i \in {folder, file} |-> IF i = folder THEN At(Root, oldName) ELSE Absent]
OneOfEach == [s \in {"s1", "s2"} |-> IF s = "s1" THEN "file" ELSE "upload"]
=============================================================================
