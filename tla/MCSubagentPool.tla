--------------------------- MODULE MCSubagentPool ---------------------------
EXTENDS SubagentPool, TLC

(* A workspace w with a file a.                                            *)
MCNames == {"w", "a"}
MCWorkspace == <<"w">>
FileA == <<"w", "a">>
MCPaths == {MCWorkspace, FileA}

(* Writers of the file and of all the workspace, a worker without tools.   *)
MCAccesses == {[mode |-> "write", roots |-> {FileA}],
               [mode |-> "write", roots |-> {MCWorkspace}],
               ToolFreeAccess}
ToolFree == {ToolFreeAccess}

(* One path only, for the runs that are about records.                     *)
OnePath == {MCWorkspace}

Symmetry == Permutations(Runs) \cup Permutations(Children)
=============================================================================
