------------------------------ MODULE PathScope ------------------------------
(***************************************************************************)
(* The path scopes of delegated runs (src/tool/delegation.rs) and the path *)
(* locks the subagent pool derives from them (src/subagent/pool.rs).       *)
(*                                                                         *)
(* A path is a canonical absolute path: the sequence of its components.    *)
(* The code resolves a requested root once, when the scope is built, and   *)
(* compares canonical paths from then on, so resolution is not modelled.   *)
(* Lists of roots are compared only by membership and are sets here.       *)
(***************************************************************************)
EXTENDS Naturals, Sequences

CONSTANT Names,      \* the components of paths
         Paths,      \* the canonical paths of the file system
         Workspace   \* workspace_root_for_subagent_lock

ASSUME PathsAssumption == Paths \subseteq Seq(Names) /\ Workspace \in Paths

(* `path == root || path.starts_with(root)`, a comparison of components.   *)
Under(path, root) == /\ Len(root) <= Len(path)
                     /\ \A i \in 1..Len(root) : path[i] = root[i]

-----------------------------------------------------------------------------
(* Scopes.  None is the absent scope of a run that was given no paths.     *)

Scope == [allowed : SUBSET Paths, owned : SUBSET Paths, forbidden : SUBSET Paths]

NoScope == [none |-> TRUE]

ReadRoots(scope) == scope.allowed \cup scope.owned

IsForbidden(scope, path) == \E root \in scope.forbidden : Under(path, root)

InOwned(scope, path) == \E root \in scope.owned : Under(path, root)

(* A scope without read roots reads everything that is not forbidden.      *)
PermitsRead(scope, path) ==
    /\ ~ IsForbidden(scope, path)
    /\ \/ ReadRoots(scope) = {}
       \/ \E root \in ReadRoots(scope) : Under(path, root)

PermitsWrite(scope, path) == ~ IsForbidden(scope, path) /\ InOwned(scope, path)

(* The scope of a run whose input names no path at all is absent.          *)
FromInput(input) == IF ReadRoots(input) = {} /\ input.forbidden = {} THEN NoScope ELSE input

(* narrowed_from: the request is refused unless the parent's scope permits *)
(* every requested read root and every requested owned root.               *)
CanNarrow(scope, parent) ==
    /\ \A root \in ReadRoots(scope) : PermitsRead(parent, root)
    /\ \A root \in scope.owned : PermitsWrite(parent, root)

(* Fault: the parent's forbidden roots are not carried over.               *)
NarrowForgetsForbidden(scope, parent) ==
    [allowed   |-> IF ReadRoots(scope) = {} THEN ReadRoots(parent) ELSE scope.allowed,
     owned     |-> scope.owned,
     forbidden |-> scope.forbidden]

Narrow(scope, parent) ==
    [allowed   |-> IF ReadRoots(scope) = {} THEN ReadRoots(parent) ELSE scope.allowed,
     owned     |-> scope.owned,
     forbidden |-> scope.forbidden \cup parent.forbidden]

(* What a swarm run works with: its own request, narrowed when its parent  *)
(* has a scope, the parent's scope when it requests none.                  *)
CanInherit(request, parent) ==
    parent # NoScope /\ request # NoScope => CanNarrow(request, parent)

Inherit(request, parent) ==
    IF parent = NoScope THEN request
    ELSE IF request = NoScope THEN parent
    ELSE Narrow(request, parent)

-----------------------------------------------------------------------------
(* Locks.                                                                  *)

Access == [mode : {"read", "write"}, roots : SUBSET Paths]

(* Fault: a writer locks the roots it may read instead of those it owns.   *)
WriteAccessOfAllowed(scope) ==
    [mode |-> "write", roots |-> IF scope = NoScope THEN {} ELSE scope.allowed]

(* run_path_access: a writer locks the roots it owns; a reader locks what  *)
(* it may read, or the workspace when that is unrestricted; a worker that  *)
(* may call no tool locks nothing.                                         *)
WriteAccess(scope) ==
    [mode |-> "write", roots |-> IF scope = NoScope THEN {} ELSE scope.owned]

ReadAccess(scope) ==
    [mode  |-> "read",
     roots |-> IF scope = NoScope \/ ReadRoots(scope) = {}
               THEN {Workspace} ELSE ReadRoots(scope)]

ToolFreeAccess == [mode |-> "read", roots |-> {}]

RunPathAccess(canWrite, toolFree, scope) ==
    IF canWrite THEN WriteAccess(scope)
    ELSE IF toolFree THEN ToolFreeAccess
    ELSE ReadAccess(scope)

(* Fault: only a root below the other's is seen, not one above it.         *)
OverlapBelow(left, right) == \E l \in left, r \in right : Under(l, r)

(* path_sets_overlap: some root of one is, or is above, a root of the other. *)
Overlap(left, right) ==
    \E l \in left, r \in right : Under(l, r) \/ Under(r, l)

(* Fault: two writers are not compared.                                    *)
ConflictReadWrite(left, right) ==
    left.mode # right.mode /\ Overlap(left.roots, right.roots)

Conflict(left, right) ==
    ~ (left.mode = "read" /\ right.mode = "read") /\ Overlap(left.roots, right.roots)

(* validate_write_lock_coverage: the changed paths outside a writer's lock. *)
Unlocked(access, changed) ==
    {path \in changed : access.mode = "write" /\ ~ \E root \in access.roots : Under(path, root)}
=============================================================================
