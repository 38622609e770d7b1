------------------------ MODULE DelegatedScopes_proofs ------------------------
(* Theorems about scopes and locks for every tree of paths, and about the  *)
(* rights, the locks and the roles of a swarm tree of any size.            *)
EXTENDS DelegatedScopes, WellFoundedInduction, TLAPS

LEMMA UnderReflexive ==
    ASSUME NEW p \in Paths
    PROVE  Under(p, p)
BY PathsAssumption DEF Under

LEMMA UnderTransitive ==
    ASSUME NEW p \in Paths, NEW q \in Paths, NEW r \in Paths, Under(p, q), Under(q, r)
    PROVE  Under(p, r)
<1>1. /\ p \in Seq(Names) /\ q \in Seq(Names) /\ r \in Seq(Names)
  BY PathsAssumption
<1>2. \A i \in 1..Len(r) : i \in 1..Len(q)
  BY <1>1 DEF Under
<1>. QED  BY <1>1, <1>2 DEF Under

(* Once a request has been accepted, the narrowed scope reads nothing and  *)
(* writes nothing that the parent's scope forbids.                         *)
THEOREM NarrowingIsSound ==
    ASSUME NEW claim \in Scope, NEW above \in Scope, CanNarrow(claim, above), NEW p \in Paths
    PROVE  /\ PermitsRead(Narrow(claim, above), p) => PermitsRead(above, p)
           /\ PermitsWrite(Narrow(claim, above), p) => PermitsWrite(above, p)
<1>. DEFINE n == Narrow(claim, above)
<1>1. ~ IsForbidden(n, p) => ~ IsForbidden(above, p)
  BY DEF Narrow, IsForbidden
<1>2. /\ claim.allowed \subseteq Paths /\ claim.owned \subseteq Paths
      /\ above.allowed \subseteq Paths /\ above.owned \subseteq Paths
  BY DEF Scope
<1>3. PermitsRead(n, p) => PermitsRead(above, p)
  <2>. SUFFICES ASSUME PermitsRead(n, p), ReadRoots(above) # {}
                PROVE  \E root \in ReadRoots(above) : Under(p, root)
    BY <1>1 DEF PermitsRead
  <2>1. CASE ReadRoots(claim) = {}
    <3>1. ReadRoots(n) = ReadRoots(above)
      BY <2>1 DEF Narrow, ReadRoots
    <3>. QED  BY <3>1 DEF PermitsRead
  <2>2. CASE ReadRoots(claim) # {}
    <3>1. ReadRoots(n) = ReadRoots(claim)
      BY <2>2 DEF Narrow, ReadRoots
    <3>2. PICK root \in ReadRoots(claim) : Under(p, root)
      BY <3>1, <2>2 DEF PermitsRead
    <3>3. PICK upper \in ReadRoots(above) : Under(root, upper)
      BY DEF CanNarrow, PermitsRead
    <3>. QED  BY <3>2, <3>3, <1>2, UnderTransitive DEF ReadRoots
  <2>. QED  BY <2>1, <2>2
<1>4. PermitsWrite(n, p) => PermitsWrite(above, p)
  <2>. SUFFICES ASSUME PermitsWrite(n, p)
                PROVE  InOwned(above, p)
    BY <1>1 DEF PermitsWrite
  <2>1. PICK root \in claim.owned : Under(p, root)
    BY DEF PermitsWrite, InOwned, Narrow
  <2>2. PICK upper \in above.owned : Under(root, upper)
    BY DEF CanNarrow, PermitsWrite, InOwned
  <2>. QED  BY <2>1, <2>2, <1>2, UnderTransitive DEF InOwned
<1>. QED  BY <1>3, <1>4

(* A writer that delegates a write inside its own scope always meets its   *)
(* own lock: the delegated owned roots lie under the caller's.             *)
THEOREM DelegatedWriteMeetsCaller ==
    ASSUME NEW claim \in Scope, NEW above \in Scope, CanNarrow(claim, above), claim.owned # {}
    PROVE  Conflict(WriteAccess(Narrow(claim, above)), WriteAccess(above))
<1>1. PICK root \in claim.owned : TRUE
  OBVIOUS
<1>2. PICK upper \in above.owned : Under(root, upper)
  BY DEF CanNarrow, PermitsWrite, InOwned
<1>3. Narrow(claim, above) # NoScope /\ above # NoScope
  BY DEF Narrow, NoScope, Scope
<1>. QED  BY <1>1, <1>2, <1>3 DEF Conflict, Overlap, WriteAccess, Narrow

-------------------------------------------------------------------------------
(* What the proofs about locks need of the types; that the scopes are      *)
(* scopes needs the shape of the tree, below.                              *)
Shape ==
    /\ parent \in [Members -> Members \cup {Root}]
    /\ depth \in [Members -> Nat]
    /\ request \in [Members -> Requests]
    /\ DOMAIN scope = Members
    /\ DOMAIN access = Members
    /\ writable \subseteq Joined
    /\ active \subseteq Joined

(* A writer works for the root, with the scope it asked for, and its run   *)
(* holds the lock of the roots it owns.                                    *)
Writers ==
    \A m \in writable :
        /\ parent[m] = Root
        /\ request[m].owned # {}
        /\ scope[m] = FromInput(request[m])
        /\ m \in active => access[m] = WriteAccess(scope[m])

LEMMA InitShape == Init => Shape /\ Writers /\ LockExclusion
<1>. SUFFICES ASSUME Init PROVE Shape /\ Writers /\ LockExclusion
  OBVIOUS
<1>1. request \in [Members -> Requests]
  BY DEF Init
<1>. QED  BY <1>1 DEF Init, Shape, Writers, LockExclusion, Joined

LEMMA GrantShape ==
    ASSUME Shape, NEW m \in Members, NEW caller \in Members \cup {Root},
           NEW write \in BOOLEAN, NEW req \in Requests, Grant(m, caller, write, req)
    PROVE  DOMAIN scope' = Members /\ DOMAIN access' = Members
BY DEF Shape, Grant

LEMMA NextShape == Shape /\ [Next]_vars => Shape'
<1>. SUFFICES ASSUME Shape, [Next]_vars PROVE Shape'
  OBVIOUS
<1>. USE DEF Shape, Joined
<1>1. ASSUME NEW caller \in Members \cup {Root}, NEW m \in Members, NEW write \in BOOLEAN,
             NEW req \in Requests, Delegate(caller, m, write, req)
      PROVE  Shape'
  <2>1. DepthOf(caller) \in Nat
    BY DEF DepthOf
  <2>2. DOMAIN scope' = Members /\ DOMAIN access' = Members /\ active' = active \cup {m}
    BY <1>1, GrantShape DEF Delegate, Grant
  <2>3. depth' \in [Members -> Nat] /\ depth'[m] > 0 /\ (\A k \in Members \ {m} : depth'[k] = depth[k])
    BY <1>1, <2>1 DEF Delegate
  <2>4. parent' \in [Members -> Members \cup {Root}] /\ request' \in [Members -> Requests]
    BY <1>1 DEF Delegate
  <2>5. writable' \subseteq writable \cup {m}
    BY <1>1 DEF Delegate
  <2>. QED  BY <2>2, <2>3, <2>4, <2>5
<1>2. ASSUME NEW m \in Members, TakeOver(m) PROVE Shape'
  <2>1. DOMAIN scope' = Members /\ DOMAIN access' = Members /\ active' = active \cup {m}
    BY <1>2 DEF TakeOver, Grant
  <2>. QED  BY <1>2, <2>1 DEF TakeOver
<1>3. ASSUME NEW m \in Members, Resume(m) PROVE Shape'
  <2>1. DOMAIN scope' = Members /\ DOMAIN access' = Members /\ active' = active \cup {m}
    BY <1>3 DEF Resume
  <2>. QED  BY <1>3, <2>1 DEF Resume
<1>4. ASSUME NEW m \in Members, Finish(m) PROVE Shape'
  BY <1>4 DEF Finish
<1>5. CASE UNCHANGED vars
  BY <1>5 DEF vars
<1>. QED  BY <1>1, <1>2, <1>3, <1>4, <1>5 DEF Next

-------------------------------------------------------------------------------
LEMMA LockTaken ==
    ASSUME Shape, LockExclusion, NEW m \in Members, NEW acc, LockAvailable(acc),
           access' = [access EXCEPT ![m] = acc], active' = active \cup {m}, m \notin active
    PROVE  LockExclusion'
<1>. SUFFICES ASSUME NEW a \in active', NEW b \in active', a # b
              PROVE  ~ Conflict(access'[a], access'[b])
  BY DEF LockExclusion
<1>1. active' \subseteq Members /\ DOMAIN access = Members
  BY DEF Shape, Joined
<1>2. CASE a # m /\ b # m
  BY <1>1, <1>2 DEF LockExclusion
<1>3. CASE a = m
  BY <1>1, <1>3 DEF LockAvailable
<1>4. CASE b = m
  <2>1. access'[b] = acc /\ access'[a] = access[a] /\ a \in active
    BY <1>1, <1>4
  <2>2. ~ Conflict(acc, access[a])
    BY <2>1 DEF LockAvailable
  <2>. QED  BY <2>1, <2>2 DEF Conflict, Overlap
<1>. QED  BY <1>2, <1>3, <1>4

(* The lock of a granted run is checked against every active slot in the   *)
(* step that adds its own, so no two active runs ever hold locks that meet *)
(* (ensure_path_access_available_in_map).                                  *)
THEOREM LocksExclude == Spec => []LockExclusion
<1>1. Init => Shape /\ LockExclusion
  BY InitShape
<1>2. Shape /\ LockExclusion /\ [Next]_vars => LockExclusion'
  <2>. SUFFICES ASSUME Shape, LockExclusion, [Next]_vars PROVE LockExclusion'
    OBVIOUS
  <2>1. ASSUME NEW caller \in Members \cup {Root}, NEW m \in Members, NEW write \in BOOLEAN,
               NEW req \in Requests, Delegate(caller, m, write, req)
        PROVE  LockExclusion'
    <3>1. m \notin active
      BY <2>1 DEF Delegate, Shape, Joined
    <3>. QED  BY <2>1, <3>1, LockTaken DEF Delegate, Grant
  <2>2. ASSUME NEW m \in Members, TakeOver(m) PROVE LockExclusion'
    BY <2>2, LockTaken DEF TakeOver, Grant
  <2>3. ASSUME NEW m \in Members, Resume(m) PROVE LockExclusion'
    BY <2>3, LockTaken DEF Resume
  <2>4. ASSUME NEW m \in Members, Finish(m) PROVE LockExclusion'
    BY <2>4 DEF Finish, LockExclusion
  <2>5. CASE UNCHANGED vars
    BY <2>5 DEF vars, LockExclusion
  <2>. QED  BY <2>1, <2>2, <2>3, <2>4, <2>5 DEF Next
<1>. QED  BY <1>1, <1>2, NextShape, PTL DEF Spec

-------------------------------------------------------------------------------
LEMMA OwnedIsScope ==
    ASSUME NEW req \in Requests, req.owned # {}
    PROVE  /\ FromInput(req) = req
           /\ req \in Scope
           /\ req # NoScope
BY RequestsAssumption DEF FromInput, ReadRoots, Scope, NoScope

(* A writer asks a caller for a lock: were the caller a member, the lock   *)
(* would meet the caller's own.                                            *)
LEMMA WriterNeedsRoot ==
    ASSUME Shape, Writers, NEW caller \in Members \cup {Root}, NEW m \in Members,
           NEW req \in Requests, Delegate(caller, m, TRUE, req)
    PROVE  caller = Root
<1>. SUFFICES ASSUME caller \in Members, caller \in active, caller # Root PROVE FALSE
  BY DEF Delegate
<1>1. caller \in writable /\ req.owned # {}
  BY DEF Delegate, Grant, MayWrite
<1>2. /\ request[caller] \in Requests
      /\ scope[caller] = FromInput(request[caller])
      /\ access[caller] = WriteAccess(scope[caller])
      /\ request[caller].owned # {}
  BY <1>1 DEF Shape, Writers
<1>3. scope[caller] \in Scope /\ scope[caller] # NoScope
  BY <1>2, OwnedIsScope
<1>4. FromInput(req) = req /\ req \in Scope /\ req # NoScope
  BY <1>1, OwnedIsScope
<1>5. CanNarrow(req, scope[caller])
  BY <1>3, <1>4 DEF Delegate, Grant, CanInherit, ScopeOf
<1>6. Inherit(req, scope[caller]) = Narrow(req, scope[caller])
  BY <1>3, <1>4 DEF Inherit
<1>7. LockAvailable(WriteAccess(Narrow(req, scope[caller])))
  BY <1>4, <1>6 DEF Delegate, Grant, ScopeOf, RunPathAccess
<1>8. Conflict(WriteAccess(Narrow(req, scope[caller])), WriteAccess(scope[caller]))
  BY <1>1, <1>3, <1>4, <1>5, DelegatedWriteMeetsCaller
<1>. QED  BY <1>2, <1>7, <1>8 DEF LockAvailable

LEMMA NextWriters == Shape /\ Writers /\ [Next]_vars => Writers'
<1>. SUFFICES ASSUME Shape, Writers, [Next]_vars PROVE Writers'
  OBVIOUS
<1>1. ASSUME NEW caller \in Members \cup {Root}, NEW m \in Members, NEW write \in BOOLEAN,
             NEW req \in Requests, Delegate(caller, m, write, req)
      PROVE  Writers'
  <2>. SUFFICES ASSUME NEW k \in writable'
                PROVE  /\ parent'[k] = Root
                       /\ request'[k].owned # {}
                       /\ scope'[k] = FromInput(request'[k])
                       /\ k \in active' => access'[k] = WriteAccess(scope'[k])
    BY DEF Writers
  <2>1. m \notin writable
    BY <1>1 DEF Delegate, Shape, Joined
  <2>2. CASE k = m
    <3>1. write = TRUE
      BY <1>1, <2>1, <2>2 DEF Delegate
    <3>2. caller = Root
      BY <1>1, <3>1, WriterNeedsRoot
    <3>3. Inherit(FromInput(req), ScopeOf(caller)) = FromInput(req)
      BY <3>2 DEF Inherit, ScopeOf
    <3>. QED  BY <1>1, <2>2, <3>1, <3>2, <3>3 DEF Delegate, Grant, Shape, RunPathAccess
  <2>3. CASE k # m
    <3>1. k \in writable /\ k \in Members
      BY <1>1, <2>3 DEF Delegate, Shape, Joined
    <3>. QED  BY <1>1, <2>3, <3>1 DEF Delegate, Grant, Shape, Writers
  <2>. QED  BY <2>2, <2>3
<1>2. ASSUME NEW m \in Members, TakeOver(m) PROVE Writers'
  <2>. SUFFICES ASSUME NEW k \in writable
                PROVE  /\ scope'[k] = FromInput(request[k])
                       /\ k \in active' => access'[k] = WriteAccess(scope'[k])
    BY <1>2 DEF Writers, TakeOver
  <2>1. k \in Members
    BY DEF Shape, Joined
  <2>2. CASE k = m
    <3>1. parent[m] = Root
      BY <2>2 DEF Writers
    <3>2. Inherit(FromInput(request[m]), ScopeOf(parent[m])) = FromInput(request[m])
      BY <3>1 DEF Inherit, ScopeOf
    <3>. QED  BY <1>2, <2>2, <3>2 DEF TakeOver, Grant, Shape, RunPathAccess
  <2>3. CASE k # m
    BY <1>2, <2>1, <2>3 DEF TakeOver, Grant, Shape, Writers
  <2>. QED  BY <2>2, <2>3
<1>3. ASSUME NEW m \in Members, Resume(m) PROVE Writers'
  <2>. SUFFICES ASSUME NEW k \in writable
                PROVE  /\ scope'[k] = FromInput(request[k])
                       /\ k \in active' => access'[k] = WriteAccess(scope'[k])
    BY <1>3 DEF Writers, Resume
  <2>1. k \in Members
    BY DEF Shape, Joined
  <2>2. CASE k = m
    <3>1. parent[m] = Root
      BY <2>2 DEF Writers
    <3>2. Inherit(FromInput(request[m]), NoScope) = FromInput(request[m])
      BY DEF Inherit
    <3>. QED  BY <1>3, <2>2, <3>1, <3>2 DEF Resume, Shape, RunPathAccess
  <2>3. CASE k # m
    BY <1>3, <2>1, <2>3 DEF Resume, Shape, Writers
  <2>. QED  BY <2>2, <2>3
<1>4. ASSUME NEW m \in Members, Finish(m) PROVE Writers'
  BY <1>4 DEF Finish, Writers
<1>5. CASE UNCHANGED vars
  BY <1>5 DEF vars, Writers
<1>. QED  BY <1>1, <1>2, <1>3, <1>4, <1>5 DEF Next

(* A member never gets a writing child: the write it could delegate lies   *)
(* inside its own lock, which it holds for as long as it can delegate.     *)
THEOREM OnlyRootDelegatesWrites == Spec => []WritersAreRootChildren
<1>1. Init => Shape /\ Writers
  BY InitShape
<1>2. Writers => WritersAreRootChildren
  BY DEF Writers, WritersAreRootChildren
<1>. QED  BY <1>1, <1>2, NextShape, NextWriters, PTL DEF Spec

-------------------------------------------------------------------------------
(* Every nonempty set of natural numbers has a least element.              *)
LEMMA LeastNatural ==
    ASSUME NEW T, T \subseteq Nat, T # {}
    PROVE  \E n \in T : \A k \in T : n <= k
<1>. DEFINE R == {ss \in Nat \X Nat : ss[1] < ss[2]}
<1>1. IsWellFoundedOn(R, Nat)
  BY NatLessThanWellFounded, Zenon DEF OpToRel
<1>2. \A k, n \in T : k < n => <<k, n>> \in R
  OBVIOUS
<1>. HIDE DEF R
<1>3. PICK n \in T : \A k \in T : ~ (<<k, n>> \in R)
  BY <1>1, WFMin, Zenon
<1>4. \A k \in T : ~ (k < n)
  BY <1>2, <1>3, Zenon
<1>. QED  BY <1>4

(* The members form a tree whose edges lead to a smaller depth, and each   *)
(* works with what its request and its parent's scope give.                *)
Tree ==
    \A m \in Joined :
        /\ parent[m] = Root \/ (parent[m] \in Joined /\ depth[parent[m]] < depth[m])
        /\ CanInherit(FromInput(request[m]), ScopeOf(parent[m]))
        /\ scope[m] = Inherit(FromInput(request[m]), ScopeOf(parent[m]))

(* The recursion over the recorded requests ends at the root and gives     *)
(* every member the scope it has: a member on which the two differ, of the *)
(* least depth, has a parent on which they agree.                          *)
LEMMA RestoredIsScope ==
    ASSUME TypeOK, Tree
    PROVE  \A m \in Joined : Restored[m] = scope[m]
<1>. DEFINE Rebuilt(f) == [k \in Joined |-> IF parent[k] = Root THEN FromInput(request[k])
                                           ELSE Inherit(FromInput(request[k]), f[parent[k]])]
            granted == [k \in Joined |-> scope[k]]
            Differs == {k \in Joined : Restored[k] # scope[k]}
            Depths  == {depth[k] : k \in Differs}
<1>1. granted = Rebuilt(granted)
  <2>. SUFFICES ASSUME NEW k \in Joined PROVE granted[k] = Rebuilt(granted)[k]
    OBVIOUS
  <2>1. CASE parent[k] = Root
    BY <2>1 DEF Tree, ScopeOf, Inherit
  <2>2. CASE parent[k] # Root
    BY <2>2 DEF Tree, ScopeOf
  <2>. QED  BY <2>1, <2>2
<1>2. Restored = Rebuilt(Restored)
  BY <1>1 DEF Restored
<1>. HIDE DEF Rebuilt, granted
<1>3. SUFFICES ASSUME Differs # {} PROVE FALSE
  OBVIOUS
<1>4. Depths \subseteq Nat /\ Depths # {}
  BY <1>3 DEF TypeOK, Joined
<1>5. PICK k \in Differs : \A j \in Differs : depth[k] <= depth[j]
  <2>. HIDE DEF Depths
  <2>1. PICK d \in Depths : \A e \in Depths : d <= e
    BY <1>4, LeastNatural, Zenon
  <2>. QED  BY <2>1 DEF Depths
<1>6. Restored[k] = IF parent[k] = Root THEN FromInput(request[k])
                    ELSE Inherit(FromInput(request[k]), Restored[parent[k]])
  BY <1>2 DEF Rebuilt
<1>7. CASE parent[k] = Root
  BY <1>6, <1>7 DEF Tree, ScopeOf, Inherit
<1>8. CASE parent[k] # Root
  <2>1. parent[k] \in Joined /\ depth[parent[k]] < depth[k]
    BY <1>8 DEF Tree
  <2>2. Restored[parent[k]] = scope[parent[k]]
    BY <1>5, <2>1 DEF TypeOK, Joined
  <2>. QED  BY <1>6, <1>8, <2>2 DEF Tree, ScopeOf
<1>. QED  BY <1>7, <1>8

LEMMA InheritType ==
    ASSUME NEW req \in Requests, NEW above \in Scope \cup {NoScope}, NEW write \in BOOLEAN
    PROVE  LET granted == Inherit(FromInput(req), above)
           IN  granted \in Scope \cup {NoScope} /\ RunPathAccess(write, FALSE, granted) \in Access
<1>. DEFINE granted == Inherit(FromInput(req), above)
<1>1. FromInput(req) \in Scope \cup {NoScope}
  BY RequestsAssumption DEF FromInput
<1>2. ASSUME NEW r \in Scope, NEW a \in Scope PROVE Narrow(r, a) \in Scope
  BY DEF Narrow, Scope, ReadRoots
<1>3. granted \in Scope \cup {NoScope}
  BY <1>1, <1>2 DEF Inherit
<1>4. ASSUME NEW g \in Scope \cup {NoScope}
      PROVE  WriteAccess(g) \in Access /\ ReadAccess(g) \in Access
  BY PathsAssumption DEF WriteAccess, ReadAccess, Access, Scope, ReadRoots
<1>. HIDE DEF granted
<1>5. RunPathAccess(write, FALSE, granted) \in Access
  BY <1>3, <1>4 DEF RunPathAccess
<1>. QED  BY <1>3, <1>5 DEF granted

LEMMA CallerScope ==
    ASSUME TypeOK, NEW caller \in Members \cup {Root}
    PROVE  ScopeOf(caller) \in Scope \cup {NoScope} /\ DepthOf(caller) \in Nat
BY MembersAssumption DEF TypeOK, ScopeOf, DepthOf

(* A run that is admitted again gets the scope it had.                     *)
LEMMA GrantedAgain ==
    ASSUME TypeOK, Tree, NEW m \in Joined
    PROVE  /\ (IF parent[m] = Root THEN NoScope ELSE RestoredScope(parent[m])) = ScopeOf(parent[m])
           /\ [scope EXCEPT ![m] = Inherit(FromInput(request[m]), ScopeOf(parent[m]))] = scope
<1>1. parent[m] # Root => parent[m] \in Joined
  BY DEF Tree
<1>2. (IF parent[m] = Root THEN NoScope ELSE RestoredScope(parent[m])) = ScopeOf(parent[m])
  BY <1>1, RestoredIsScope DEF RestoredScope, ScopeOf
<1>3. scope[m] = Inherit(FromInput(request[m]), ScopeOf(parent[m]))
  BY DEF Tree
<1>. QED  BY <1>2, <1>3 DEF TypeOK

LEMMA InitTree == Init => TypeOK /\ Tree
<1>. SUFFICES ASSUME Init PROVE TypeOK /\ Tree
  OBVIOUS
<1>1. request \in [Members -> Requests]
  BY DEF Init
<1>2. Joined = {}
  BY DEF Init, Joined
<1>3. ToolFreeAccess \in Access
  BY DEF ToolFreeAccess, Access
<1>. QED  BY <1>1, <1>2, <1>3, MembersAssumption DEF Init, TypeOK, Tree

LEMMA DelegateTree ==
    ASSUME TypeOK, Tree, NEW caller \in Members \cup {Root}, NEW m \in Members,
           NEW write \in BOOLEAN, NEW req \in Requests, Delegate(caller, m, write, req)
    PROVE  TypeOK' /\ Tree'
<1>. DEFINE granted == Inherit(FromInput(req), ScopeOf(caller))
            acc     == RunPathAccess(write, FALSE, granted)
<1>1. /\ granted \in Scope \cup {NoScope}
      /\ acc \in Access
  BY InheritType, CallerScope
<1>2. /\ scope' = [scope EXCEPT ![m] = granted]
      /\ access' = [access EXCEPT ![m] = acc]
      /\ active' = active \cup {m}
      /\ CanInherit(FromInput(req), ScopeOf(caller))
  BY DEF Delegate, Grant
<1>. HIDE DEF granted, acc
<1>3. /\ depth' = [depth EXCEPT ![m] = DepthOf(caller) + 1]
      /\ DepthOf(caller) + 1 \in 0..MaxDepth
      /\ DepthOf(caller) + 1 > 0
  BY CallerScope, MembersAssumption DEF Delegate
<1>4. m \notin Joined /\ Joined' = Joined \cup {m} /\ active' \subseteq Joined'
  BY <1>2, <1>3 DEF Delegate, Joined, TypeOK
<1>5. TypeOK'
  BY <1>1, <1>2, <1>3, <1>4 DEF Delegate, TypeOK
<1>6. caller = Root \/ (caller \in Joined /\ caller # m)
  BY <1>4 DEF Delegate, TypeOK
<1>7. ScopeOf(caller)' = ScopeOf(caller)
  BY <1>2, <1>6 DEF ScopeOf, TypeOK, Joined
<1>8. ASSUME NEW k \in Joined'
      PROVE  /\ parent'[k] = Root \/ (parent'[k] \in Joined' /\ depth'[parent'[k]] < depth'[k])
             /\ CanInherit(FromInput(request'[k]), ScopeOf(parent[k])')
             /\ scope'[k] = Inherit(FromInput(request'[k]), ScopeOf(parent[k])')
  <2>1. CASE k = m
    <3>1. parent'[k] = caller /\ request'[k] = req /\ scope'[k] = granted
      BY <1>2, <2>1 DEF Delegate, TypeOK
    <3>2. ScopeOf(parent[k])' = ScopeOf(caller)
      BY <1>7, <3>1 DEF ScopeOf
    <3>3. caller # Root => depth'[caller] < depth'[k]
      BY <1>3, <1>6, <2>1, CallerScope DEF TypeOK, Joined, DepthOf
    <3>. QED  BY <1>2, <1>4, <1>6, <3>1, <3>2, <3>3 DEF granted
  <2>2. CASE k # m
    <3>1. k \in Joined /\ k \in Members
      BY <1>4, <2>2 DEF Joined
    <3>2. /\ parent'[k] = parent[k] /\ request'[k] = request[k]
          /\ scope'[k] = scope[k] /\ depth'[k] = depth[k]
      BY <1>2, <1>3, <2>2, <3>1 DEF Delegate, TypeOK
    <3>3. parent[k] = Root \/ (parent[k] \in Joined /\ parent[k] # m)
      BY <1>4, <3>1 DEF Tree
    <3>4. ScopeOf(parent[k])' = ScopeOf(parent[k])
      BY <1>2, <3>2, <3>3 DEF ScopeOf, TypeOK, Joined
    <3>5. parent[k] \in Joined => depth'[parent[k]] = depth[parent[k]]
      BY <1>3, <3>3, MembersAssumption DEF TypeOK, Joined
    <3>. QED  BY <1>4, <3>1, <3>2, <3>3, <3>4, <3>5 DEF Tree
  <2>. QED  BY <2>1, <2>2
<1>9. Tree'
  BY <1>8 DEF Tree
<1>. QED  BY <1>5, <1>9

LEMMA NextTree == TypeOK /\ Tree /\ [Next]_vars => TypeOK' /\ Tree'
<1>. SUFFICES ASSUME TypeOK, Tree, [Next]_vars PROVE TypeOK' /\ Tree'
  OBVIOUS
<1>1. ASSUME NEW caller \in Members \cup {Root}, NEW m \in Members, NEW write \in BOOLEAN,
             NEW req \in Requests, Delegate(caller, m, write, req)
      PROVE  TypeOK' /\ Tree'
  BY <1>1, DelegateTree
<1>2. ASSUME NEW m \in Joined, NEW acc \in Access, scope' = scope,
             access' = [access EXCEPT ![m] = acc], active' = active \cup {m},
             UNCHANGED <<parent, depth, writable, request>>
      PROVE  TypeOK' /\ Tree'
  BY <1>2 DEF TypeOK, Tree, Joined, ScopeOf
<1>3. ASSUME NEW m \in Joined
      PROVE  RunPathAccess(m \in writable, FALSE, Inherit(FromInput(request[m]), ScopeOf(parent[m])))
                 \in Access
  <2>1. m \in Members /\ parent[m] \in Members \cup {Root} /\ request[m] \in Requests
    BY DEF TypeOK, Joined
  <2>2. ScopeOf(parent[m]) \in Scope \cup {NoScope} /\ (m \in writable) \in BOOLEAN
    BY <2>1, CallerScope
  <2>. QED  BY <2>1, <2>2, InheritType
<1>4. ASSUME NEW m \in Members, TakeOver(m) PROVE TypeOK' /\ Tree'
  <2>1. m \in Joined
    BY <1>4 DEF TakeOver
  <2>. QED  BY <1>2, <1>3, <1>4, <2>1, GrantedAgain DEF TakeOver, Grant
<1>5. ASSUME NEW m \in Members, Resume(m) PROVE TypeOK' /\ Tree'
  <2>1. m \in Joined
    BY <1>5 DEF Resume
  <2>. QED  BY <1>2, <1>3, <1>5, <2>1, GrantedAgain DEF Resume
<1>6. ASSUME NEW m \in Members, Finish(m) PROVE TypeOK' /\ Tree'
  BY <1>6 DEF Finish, TypeOK, Tree, Joined, ScopeOf
<1>7. CASE UNCHANGED vars
  BY <1>7 DEF vars, TypeOK, Tree, Joined, ScopeOf
<1>. QED  BY <1>1, <1>4, <1>5, <1>6, <1>7 DEF Next

(* Every member keeps within the types, and so in particular within the    *)
(* configured depth, whatever it requests and however often it is resumed. *)
THEOREM ScopesTypeCorrect == Spec => []TypeOK
BY InitTree, NextTree, PTL DEF Spec

(* The recursion over the recorded requests of a chain of any length gives *)
(* a resumed member what it was granted when it was delegated, although    *)
(* the members above it may have been resumed or taken over meanwhile.     *)
THEOREM ResumeKeepsScope == Spec => []RestoredAsGranted
<1>1. TypeOK /\ Tree => RestoredAsGranted
  BY RestoredIsScope DEF RestoredAsGranted, RestoredScope
<1>. QED  BY <1>1, InitTree, NextTree, PTL DEF Spec

(* A scope that a member was accepted with allows nothing that its         *)
(* parent's does not.                                                      *)
LEMMA InheritedRights ==
    ASSUME NEW req \in Requests, NEW above \in Scope \cup {NoScope},
           CanInherit(FromInput(req), above), NEW path \in Paths
    PROVE  LET granted == Inherit(FromInput(req), above)
           IN  /\ Reads(granted, path) => Reads(above, path)
               /\ Writes(granted, path) => Writes(above, path)
<1>1. FromInput(req) \in Scope \cup {NoScope}
  BY RequestsAssumption DEF FromInput
<1>2. CASE above = NoScope
  BY <1>2 DEF Reads, Writes
<1>3. CASE above # NoScope /\ FromInput(req) = NoScope
  BY <1>3 DEF Inherit
<1>4. CASE above # NoScope /\ FromInput(req) # NoScope
  <2>1. Inherit(FromInput(req), above) = Narrow(FromInput(req), above)
    BY <1>4 DEF Inherit
  <2>2. CanNarrow(FromInput(req), above)
    BY <1>4 DEF CanInherit
  <2>3. Narrow(FromInput(req), above) # NoScope
    BY DEF Narrow, NoScope
  <2>. QED  BY <1>1, <1>4, <2>1, <2>2, <2>3, NarrowingIsSound DEF Reads, Writes
<1>. QED  BY <1>2, <1>3, <1>4

(* No member of a tree of any depth ever holds a right that its parent     *)
(* lacks: neither a delegation nor a resume behind an ended parent widens  *)
(* what the ancestors were granted.                                        *)
THEOREM RightsOnlyNarrow == Spec => []RightsNarrow
<1>1. TypeOK /\ Tree => RightsNarrow
  <2>. SUFFICES ASSUME TypeOK, Tree, NEW m \in Joined, NEW path \in Paths
                PROVE  /\ Reads(scope[m], path) => Reads(ScopeOf(parent[m]), path)
                       /\ Writes(scope[m], path) => Writes(ScopeOf(parent[m]), path)
    BY DEF RightsNarrow
  <2>1. request[m] \in Requests /\ parent[m] \in Members \cup {Root}
    BY DEF TypeOK, Joined
  <2>2. ScopeOf(parent[m]) \in Scope \cup {NoScope}
    BY <2>1, CallerScope
  <2>. QED  BY <2>1, <2>2, InheritedRights DEF Tree
<1>. QED  BY <1>1, InitTree, NextTree, PTL DEF Spec

(* Whatever a writer's scope lets it write is under its lock, so that with *)
(* LocksExclude no two writers of a tree can change the same file.         *)
THEOREM WritersLockWhatTheyWrite == Spec => []WritesAreLocked
<1>1. Shape /\ Writers => WritesAreLocked
  <2>. SUFFICES ASSUME Shape, Writers, NEW m \in active \cap writable, NEW path \in Paths,
                       Writes(scope[m], path)
                PROVE  Unlocked(access[m], {path}) = {}
    BY DEF WritesAreLocked
  <2>1. request[m] \in Requests /\ request[m].owned # {} /\ scope[m] = FromInput(request[m])
        /\ access[m] = WriteAccess(scope[m])
    BY DEF Shape, Writers, Joined
  <2>2. scope[m] \in Scope /\ scope[m] # NoScope
    BY <2>1, OwnedIsScope
  <2>3. PICK root \in scope[m].owned : Under(path, root)
    BY <2>2 DEF Writes, PermitsWrite, InOwned
  <2>. QED  BY <2>1, <2>2, <2>3 DEF WriteAccess, Unlocked
<1>2. Init => Shape /\ Writers
  BY InitShape
<1>. QED  BY <1>1, <1>2, NextShape, NextWriters, PTL DEF Spec
===============================================================================
