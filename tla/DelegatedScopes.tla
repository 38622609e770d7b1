--------------------------- MODULE DelegatedScopes ---------------------------
(***************************************************************************)
(* The rights of the members of a swarm tree: how a delegation derives the *)
(* scope and the path lock of the new run from its parent's, and how a     *)
(* member that is resumed gets its scope back from the recorded requests.  *)
(* Source: src/subagent/pool.rs (start_run, reserve_governed_run),         *)
(* src/subagent/messaging.rs (start_message_run, restored_member_scope).   *)
(*                                                                         *)
(* A delegation is one step here: between the check of the locks and the   *)
(* activation nothing changes the scope of another run.  The steps of a    *)
(* run and their failures are in SubagentPool.                             *)
(***************************************************************************)
EXTENDS PathScope, FiniteSets

CONSTANT Members,    \* the child sessions of the tree
         Root,       \* the root session
         Requests,   \* the path lists a delegation may ask for
         MaxDepth    \* subagents.max_depth

ASSUME MembersAssumption == Root \notin Members /\ MaxDepth \in Nat
ASSUME RequestsAssumption == Requests \subseteq Scope

VARIABLES parent,    \* parent of each activated member; Root also when not a member yet
          depth,     \* depth of each activated member, 0 before
          writable,  \* members whose role may write (FullAccess tools)
          request,   \* the recorded SubagentDelegation input
          scope,     \* the scope the member's agent was given
          access,    \* the lock of the member's current run
          active     \* members with a slot in active_by_run

vars == <<parent, depth, writable, request, scope, access, active>>

Joined == {m \in Members : depth[m] > 0}

TypeOK ==
    /\ parent \in [Members -> Members \cup {Root}]
    /\ depth \in [Members -> 0..MaxDepth]
    /\ writable \subseteq Members
    /\ request \in [Members -> Requests]
    /\ scope \in [Members -> Scope \cup {NoScope}]
    /\ access \in [Members -> Access]
    /\ active \subseteq Joined

Init ==
    /\ parent = [m \in Members |-> Root]
    /\ depth = [m \in Members |-> 0]
    /\ writable = {}
    /\ request \in {[m \in Members |-> r] : r \in {q \in Requests : FromInput(q) = NoScope}}
    /\ scope = [m \in Members |-> NoScope]
    /\ access = [m \in Members |-> ToolFreeAccess]
    /\ active = {}

(* The root session works without a scope and with every tool.             *)
ScopeOf(caller) == IF caller = Root THEN NoScope ELSE scope[caller]
DepthOf(caller) == IF caller = Root THEN 0 ELSE depth[caller]
MayWrite(caller) == caller = Root \/ caller \in writable

LockAvailable(acc) == \A m \in active : ~ Conflict(acc, access[m])

(* The part of start_run that decides what a run may touch: a writable     *)
(* role needs a caller that may write and an owned path; the request must  *)
(* lie within the caller's scope; the lock must not meet any active run's, *)
(* the caller's own included.                                              *)
Grant(m, caller, write, req) ==
    LET granted == Inherit(FromInput(req), ScopeOf(caller))
        acc     == RunPathAccess(write, FALSE, granted)
    IN  /\ write => MayWrite(caller) /\ req.owned # {}
        /\ CanInherit(FromInput(req), ScopeOf(caller))
        /\ LockAvailable(acc)
        /\ scope' = [scope EXCEPT ![m] = granted]
        /\ access' = [access EXCEPT ![m] = acc]
        /\ active' = active \cup {m}

(* A fresh delegation: the caller is the root or a member whose run is     *)
(* still active.                                                           *)
Delegate(caller, m, write, req) ==
    /\ depth[m] = 0
    /\ caller = Root \/ caller \in active
    /\ DepthOf(caller) + 1 <= MaxDepth
    /\ Grant(m, caller, write, req)
    /\ parent' = [parent EXCEPT ![m] = caller]
    /\ depth' = [depth EXCEPT ![m] = DepthOf(caller) + 1]
    /\ writable' = IF write THEN writable \cup {m} ELSE writable
    /\ request' = [request EXCEPT ![m] = req]

(* A takeover by the member's parent keeps the recorded request.           *)
TakeOver(m) ==
    /\ m \in Joined \ active
    /\ parent[m] = Root \/ parent[m] \in active
    /\ Grant(m, parent[m], m \in writable, request[m])
    /\ UNCHANGED <<parent, depth, writable, request>>

(* Fault: only the member's own recorded request is consulted.             *)
RestoredFromOwnRequest(m) == FromInput(request[m])

(* restored_member_scope: the recorded requests from the root down to m.   *)
Restored[k \in Joined] ==
    IF parent[k] = Root THEN FromInput(request[k])
    ELSE Inherit(FromInput(request[k]), Restored[parent[k]])

RestoredScope(m) == Restored[m]

(* A message wakes a member whose parent may have ended: the parent's      *)
(* scope is rebuilt from the transcripts and the run admitted afresh.      *)
Resume(m) ==
    LET above   == IF parent[m] = Root THEN NoScope ELSE RestoredScope(parent[m])
        granted == Inherit(FromInput(request[m]), above)
        acc     == RunPathAccess(m \in writable, FALSE, granted)
    IN  /\ m \in Joined \ active
        /\ CanInherit(FromInput(request[m]), above)
        /\ LockAvailable(acc)
        /\ scope' = [scope EXCEPT ![m] = granted]
        /\ access' = [access EXCEPT ![m] = acc]
        /\ active' = active \cup {m}
        /\ UNCHANGED <<parent, depth, writable, request>>

(* The slot is removed when the run reaches a terminal state; descendants  *)
(* of a run that completed may outlive it.                                 *)
Finish(m) ==
    /\ m \in active
    /\ active' = active \ {m}
    /\ UNCHANGED <<parent, depth, writable, request, scope, access>>

Next ==
    \/ \E caller \in Members \cup {Root}, m \in Members, write \in BOOLEAN, req \in Requests :
           Delegate(caller, m, write, req)
    \/ \E m \in Members : TakeOver(m)
    \/ \E m \in Members : Resume(m)
    \/ \E m \in Members : Finish(m)

Spec == Init /\ [][Next]_vars

-----------------------------------------------------------------------------
Reads(sc, path) == sc = NoScope \/ PermitsRead(sc, path)
Writes(sc, path) == sc = NoScope \/ PermitsWrite(sc, path)

(* A member never holds a right its parent lacks, whether its scope came   *)
(* from a delegation or was rebuilt from the transcripts of a parent that  *)
(* is no longer running (docs: rights of descendants can only narrow).     *)
RightsNarrow ==
    \A m \in Joined, path \in Paths :
        /\ Reads(scope[m], path) => Reads(ScopeOf(parent[m]), path)
        /\ m \in writable /\ Writes(scope[m], path) => Writes(ScopeOf(parent[m]), path)

(* No two active runs hold locks that meet, unless both only read.         *)
LockExclusion ==
    \A m, n \in active : m # n => ~ Conflict(access[m], access[n])

(* A run's lock covers everything its scope lets it write, so that two     *)
(* writers can never change the same file.                                 *)
WritesAreLocked ==
    \A m \in active \cap writable, path \in Paths :
        Writes(scope[m], path) => Unlocked(access[m], {path}) = {}

(* Because a delegated write lies inside the caller's own write lock, only *)
(* the root ever has a writing child: every other attempt meets the lock   *)
(* of its caller, which must be active to delegate.                        *)
WritersAreRootChildren == \A m \in writable : parent[m] = Root

(* What a resumed member gets back is what it was granted when delegated.  *)
RestoredAsGranted == \A m \in Joined : RestoredScope(m) = scope[m]
=============================================================================
