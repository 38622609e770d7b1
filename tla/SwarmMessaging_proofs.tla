------------------------ MODULE SwarmMessaging_proofs ------------------------
(***************************************************************************)
(* Proofs about SwarmMessaging, for a tree of any shape, any capacity and  *)
(* any number of messages: every queue has one owner at most, and one as   *)
(* long as somebody counts on it; the owners and the runs together never   *)
(* exceed the capacity of the swarm; and a stop reaches the whole subtree. *)
(*                                                                         *)
(* A member's queue is handed from one owner to the next: by a sender to a *)
(* task, by the task to a run, by the run to its releaser and back to a    *)
(* task.  Owned(m) says what holds between the hands, in particular that a *)
(* task and a releaser keep the place that the run will need or has left.  *)
(***************************************************************************)
EXTENDS SwarmMessaging, FiniteSetTheorems, TLAPS

Held(m) == m \in Slots \/ task[m] # "none" \/ m \in releasing

Owned(m) ==
    /\ m \in Slots => task[m] = "none" /\ m \notin releasing
    /\ task[m] # "none" => m \notin releasing
    /\ task[m] # "none" \/ m \in releasing => m \in waking
    /\ phase[m] = "starting" => (m \in byMessage <=> m \in waking)
    /\ m \in waking => m \in born
    /\ m \in stopped => pending[m] = 0
    /\ phase[m] = "dropped" => m \in stopped
    /\ m \in waking \/ pending[m] > 0 => Held(m) \/ m \in stranded

RootOwned ==
    Root \notin stopped /\ Root \notin releasing \cup stranded =>
        /\ Root \in waking => ready > 0
        /\ pending[Root] > 0 => turn \/ ready > 0

Inv == TypeOK /\ (\A m \in Members : Owned(m)) /\ RootOwned /\ CapacityKept

-----------------------------------------------------------------------------
(* Types                                                                   *)

LEMMA BelowMembers == ASSUME NEW s PROVE Below(s) \subseteq Members
BY DEF Below

LEMMA InitTyped == Init => TypeOK
<1> SUFFICES ASSUME Init PROVE TypeOK
  OBVIOUS
<1>1. Slots = {} /\ Activity = {}
  BY DEF Init, Slots, Activity, Activated
<1>2. /\ limit \in 1 .. MaxConcurrent /\ 0 \in 0 .. MaxPending /\ 0 \in 0 .. MaxSends
      /\ born \subseteq Members
  BY SwarmAssumption DEF Init
<1> QED BY <1>1, <1>2, SwarmAssumption DEF Init, TypeOK, Sessions

LEMMA TypeStep == TypeOK /\ [Next]_vars => TypeOK'
<1> SUFFICES ASSUME TypeOK, [Next]_vars PROVE TypeOK'
  OBVIOUS
<1> USE SwarmAssumption
<1> USE DEF runVars, mailVars, rootVars, Sessions
<1>1. CASE UNCHANGED vars
  BY <1>1 DEF TypeOK, vars, Slots, Activity
<1>2. ASSUME NEW s \in Sessions, NEW t \in Sessions, Send(s, t) PROVE TypeOK'
  <2>1. Slots' = Slots /\ Activity' = Activity
    BY <1>2 DEF Send, Slots, Activity
  <2>2. pending' \in [Sessions -> 0 .. MaxPending]
    BY <1>2 DEF Send, TypeOK
  <2> QED BY <1>2, <2>1, <2>2 DEF Send, TypeOK, Wake
<1>3. ASSUME NEW s \in Sessions, Release(s) PROVE TypeOK'
  <2>1. Slots' = Slots /\ Activity' = Activity
    BY <1>3 DEF Release, Slots, Activity
  <2> QED BY <1>3, <2>1 DEF Release, TypeOK, Wake
<1>4. ASSUME NEW m \in Members, Launch(m) PROVE TypeOK'
  <2> USE DEF Slots, Activity, Activated, Move, DropSlot
  <2>1. CASE Reserve(m)
    BY <2>1 DEF Reserve, Admitted, TypeOK
  <2>2. CASE ReserveWoken(m)
    BY <2>2 DEF ReserveWoken, Admitted, TypeOK
  <2>3. CASE WakeRefused(m)
    BY <2>3 DEF WakeRefused, TypeOK
  <2>4. CASE Activate(m)
    BY <2>4 DEF Activate, TypeOK
  <2>5. CASE StartFails(m)
    BY <2>5 DEF StartFails, TypeOK
  <2>6. CASE FailWoken(m)
    BY <2>6 DEF FailWoken, TypeOK, Empty
  <2> QED BY <1>4, <2>1, <2>2, <2>3, <2>4, <2>5, <2>6 DEF Launch
<1>5. ASSUME NEW m \in Members, Work(m) PROVE TypeOK'
  <2> USE DEF Slots, Activity, Activated, Move, Return, Take
  <2>1. CASE TakeInitial(m)
    BY <2>1 DEF TakeInitial, TypeOK
  <2>2. CASE TurnEnds(m)
    BY <2>2 DEF TurnEnds, TypeOK
  <2>3. CASE Fail(m)
    BY <2>3 DEF Fail, TypeOK
  <2>4. CASE Cancelled(m)
    BY <2>4 DEF Cancelled, TypeOK
  <2> QED BY <1>5, <2>1, <2>2, <2>3, <2>4 DEF Work
<1>6. ASSUME NEW m \in Members, Finish(m) \/ CancelRun(m) PROVE TypeOK'
  <2> USE BelowMembers
  <2> USE DEF Slots, Activity, Activated, Move, DropSlot, CancelWakes
  <2>1. CASE Settle(m)
    BY <2>1 DEF Settle, SettleAs, TypeOK, Empty
  <2>2. CASE RecordFails(m)
    BY <2>2 DEF RecordFails, SettleAs, TypeOK, Empty
  <2>3. CASE Complete(m)
    BY <2>3 DEF Complete, TypeOK
  <2>4. CASE DropRun(m)
    BY <2>4 DEF DropRun, StopRun, StopScope, Subtree, TypeOK, Empty
  <2>5. CASE Dropped(m)
    BY <2>5 DEF Dropped, TypeOK
  <2>6. CASE CancelRun(m)
    BY <2>6 DEF CancelRun, StopRun, StopScope, Subtree, TypeOK, Empty
  <2> QED BY <1>6, <2>1, <2>2, <2>3, <2>4, <2>5, <2>6 DEF Finish
<1>7. CASE RootStep
  <2>1. phase' = phase /\ byMessage' = byMessage /\ born' = born /\ status' = status
    BY <1>7 DEF RootStep, BeginTurn, TakeReady, RootTurnEnds, RootTurnFails, RootInterrupted,
                Close, CancelAll, Resume, GiveUp
  <2>2. Slots' = Slots /\ Activity' = Activity
    BY <2>1 DEF Slots, Activity
  <2> USE DEF Engine, TakeForRoot, Take, Empty
  <2>3. CASE BeginTurn \/ RootInterrupted \/ GiveUp \/ CancelAll
    BY <2>1, <2>2, <2>3 DEF BeginTurn, RootInterrupted, GiveUp, CancelAll, TypeOK
  <2>4. CASE TakeReady \/ RootTurnEnds
    <3>1. pending' \in [Sessions -> 0 .. MaxPending] /\ waking' \subseteq Sessions
      BY <2>4 DEF TakeReady, RootTurnEnds, TypeOK
    <3>2. turn' \in BOOLEAN
      BY <2>4, Zenon DEF TakeReady, RootTurnEnds
    <3>3. host' \in BOOLEAN
      BY <2>4, <3>2, Zenon DEF TakeReady, RootTurnEnds, TypeOK
    <3>4. ready' \in Nat
      BY <2>4 DEF TakeReady, RootTurnEnds, TypeOK
    <3> QED BY <2>1, <2>2, <2>4, <3>1, <3>2, <3>3, <3>4 DEF TakeReady, RootTurnEnds, TypeOK
  <2>5. ASSUME NEW ss PROVE Empty(ss) \in [Sessions -> 0 .. MaxPending]
    BY DEF TypeOK
  <2> HIDE DEF Empty
  <2>6. CASE RootTurnFails
    BY <2>1, <2>2, <2>5, <2>6 DEF RootTurnFails, TypeOK
  <2>7. CASE Close
    BY <2>1, <2>2, <2>5, <2>7 DEF Close, StopScope, TypeOK
  <2>8. CASE Resume
    BY <2>1, <2>2, <2>5, <2>8 DEF Resume, TypeOK
  <2> QED BY <1>7, <2>3, <2>4, <2>6, <2>7, <2>8 DEF RootStep
<1> QED BY <1>1, <1>2, <1>3, <1>4, <1>5, <1>6, <1>7 DEF Next

-----------------------------------------------------------------------------
(* The owners of a member's queue                                          *)

LEMMA InitOwned == Init => (\A m \in Members : Owned(m)) /\ RootOwned
BY SwarmAssumption DEF Init, Owned, Held, RootOwned, Slots, Sessions

(* A message passes a queue to a task, and a releaser to a task or nobody. *)
LEMMA SendOwned ==
    ASSUME Inv, NEW s \in Sessions, NEW t \in Sessions, Send(s, t), NEW n \in Members
    PROVE  Owned(n)'
<1> USE DEF Sessions, runVars, Slots, Held
<1>1. Owned(n) /\ n # Root
  BY SwarmAssumption DEF Inv
<1>2. CASE n # t
  BY <1>1, <1>2 DEF Send, Wake, Owned, Inv, TypeOK
<1>3. CASE n = t /\ NeedsOwner(t)
  BY <1>1, <1>3 DEF Send, NeedsOwner, Wake, Owned, Inv, TypeOK
<1>4. CASE n = t /\ ~ NeedsOwner(t)
  BY <1>1, <1>4 DEF Send, NeedsOwner, Owned, Inv, TypeOK
<1> QED BY <1>2, <1>3, <1>4

LEMMA ReleaseOwned ==
    ASSUME Inv, NEW s \in Sessions, Release(s), NEW n \in Members
    PROVE  Owned(n)'
<1> USE DEF Sessions, runVars, Slots, Held
<1>1. Owned(n) /\ n # Root
  BY SwarmAssumption DEF Inv
<1>2. CASE n # s
  BY <1>1, <1>2 DEF Release, Wake, Owned, Inv, TypeOK
<1>3. CASE n = s
  BY <1>1, <1>3 DEF Release, Wake, Owned, Inv, TypeOK
<1> QED BY <1>2, <1>3

LEMMA LaunchOwned ==
    ASSUME Inv, NEW m \in Members, Launch(m), NEW n \in Members
    PROVE  Owned(n)'
<1> USE DEF Sessions, mailVars, Slots, Held, Owned, TypeOK, Inv, Move, DropSlot
<1>1. Owned(n) /\ Owned(m)
  OBVIOUS
<1>2. CASE Reserve(m)
  BY <1>1, <1>2 DEF Reserve, Admitted
<1>3. CASE ReserveWoken(m)
  BY <1>1, <1>3 DEF ReserveWoken, Admitted
<1>4. CASE WakeRefused(m)
  BY <1>1, <1>4 DEF WakeRefused, runVars
<1>5. CASE Activate(m)
  BY <1>1, <1>5 DEF Activate
<1>6. CASE StartFails(m)
  BY <1>1, <1>6 DEF StartFails
<1>7. CASE FailWoken(m)
  BY <1>1, <1>7 DEF FailWoken, runVars, Empty
<1> QED BY <1>2, <1>3, <1>4, <1>5, <1>6, <1>7 DEF Launch

LEMMA WorkOwned ==
    ASSUME Inv, NEW m \in Members, Work(m), NEW n \in Members
    PROVE  Owned(n)'
<1> USE DEF Sessions, mailVars, Slots, Held, Owned, TypeOK, Inv, Move, Return, Take
<1>1. Owned(n) /\ Owned(m)
  OBVIOUS
<1>2. CASE TakeInitial(m)
  BY <1>1, <1>2 DEF TakeInitial
<1>3. CASE TurnEnds(m)
  BY <1>1, <1>3 DEF TurnEnds
<1>4. CASE Fail(m) \/ Cancelled(m)
  BY <1>1, <1>4 DEF Fail, Cancelled
<1> QED BY <1>2, <1>3, <1>4 DEF Work

(* Closing queues empties them, and leaves their owners.                   *)
LEMMA ScopeOwned ==
    ASSUME Inv, NEW scope \in SUBSET Sessions, NEW slots \in SUBSET Slots,
           StopScope(scope, slots), UNCHANGED <<byMessage, born, task, releasing>>,
           NEW n \in Members,
           phase'[n] = phase[n] \/ (phase[n] \in {"initial", "running"} /\ phase'[n] = "dropped" /\ n \in scope)
    PROVE  Owned(n)'
<1>1. Owned(n) /\ n # Root
  BY SwarmAssumption DEF Inv
<1>2. /\ n \in waking' <=> n \in waking
      /\ n \in stopped' <=> n \in stopped \/ n \in scope
      /\ pending'[n] = IF n \in scope THEN 0 ELSE pending[n]
      /\ n \in stranded' <=> n \in stranded /\ (n \in scope => n \in waking)
  BY <1>1 DEF StopScope, Empty, Sessions
<1> QED BY <1>1, <1>2 DEF Owned, Held, Slots

LEMMA FinishOwned ==
    ASSUME Inv, NEW m \in Members, Finish(m) \/ CancelRun(m), NEW n \in Members
    PROVE  Owned(n)'
<1> USE DEF Sessions, Slots, Held
<1>1. Owned(n) /\ Owned(m)
  BY DEF Inv
<1>2. ASSUME NEW s, SettleAs(m, s), UNCHANGED <<byMessage, born, task, releasing>>,
             phase' = phase \/ Move(m, "settled"), phase[m] \in {"returned", "settled"}
      PROVE  Owned(n)'
  BY <1>1, <1>2 DEF SettleAs, Empty, mailVars, Move, Owned, Inv, TypeOK
<1>3. CASE Settle(m) \/ RecordFails(m)
  BY <1>2, <1>3 DEF Settle, RecordFails
<1>4. CASE Complete(m)
  BY <1>1, <1>4 DEF Complete, DropSlot, Move, Owned, Inv, TypeOK, Activity, Activated
<1>5. CASE Dropped(m)
  BY <1>1, <1>5 DEF Dropped, DropSlot, Move, Owned, Inv, TypeOK
<1>6. Subtree(m) \in SUBSET Sessions /\ m \in Subtree(m)
  BY BelowMembers DEF Subtree
<1>7. CASE DropRun(m)
  BY <1>6, <1>7, ScopeOwned DEF DropRun, StopRun, Move, Inv, TypeOK
<1>8. CASE CancelRun(m)
  BY <1>6, <1>8, ScopeOwned DEF CancelRun, StopRun
<1> QED BY <1>3, <1>4, <1>5, <1>7, <1>8 DEF Finish

LEMMA RootStepOwned ==
    ASSUME Inv, RootStep, NEW n \in Members
    PROVE  Owned(n)'
<1> USE DEF Sessions, Held, runVars, mailVars
<1>1. Owned(n) /\ n # Root
  BY SwarmAssumption DEF Inv
<1>2. CASE BeginTurn \/ RootInterrupted \/ GiveUp
  BY <1>1, <1>2 DEF BeginTurn, RootInterrupted, GiveUp, Owned, Slots
<1>3. CASE TakeReady \/ RootTurnEnds \/ RootTurnFails
  <2>1. /\ UNCHANGED <<phase, byMessage, born, stopped, task>>
        /\ pending'[n] = pending[n] /\ (n \in waking' <=> n \in waking)
        /\ (n \in releasing' <=> n \in releasing) /\ (n \in stranded' <=> n \in stranded)
    BY <1>1, <1>3 DEF TakeReady, RootTurnEnds, RootTurnFails, TakeForRoot, Take, Empty, Inv, TypeOK
  <2> QED BY <1>1, <2>1 DEF Owned, Slots
<1>4. CASE Close
  <2>1. born \cup {Root} \in SUBSET Sessions
    BY DEF Inv, TypeOK
  <2> QED BY <1>4, <2>1, ScopeOwned DEF Close
<1>5. CASE CancelAll
  BY <1>1, <1>5 DEF CancelAll, Owned, Slots
<1>6. CASE Resume
  BY <1>1, <1>6 DEF Resume, Settled, Owned, Slots, Empty
<1> QED BY <1>2, <1>3, <1>4, <1>5, <1>6 DEF RootStep

-----------------------------------------------------------------------------
(* The root's queue                                                        *)

LEMMA RootOwnedStep == ASSUME Inv, Next PROVE RootOwned'
<1> USE SwarmAssumption DEF RootOwned, Sessions, Inv
<1>1. ASSUME NEW s \in Sessions, NEW t \in Sessions, Send(s, t) PROVE RootOwned'
  <2>1. Root \notin Slots
    BY DEF Slots
  <2> QED BY <1>1, <2>1 DEF Send, NeedsOwner, Wake, TypeOK
<1>2. ASSUME NEW s \in Sessions, Release(s) PROVE RootOwned'
  BY <1>2 DEF Release, Wake, TypeOK
<1>3. ASSUME NEW m \in Members, Launch(m) PROVE RootOwned'
  <2>1. /\ UNCHANGED <<stopped, waking, ready, turn>> /\ pending'[Root] = pending[Root]
        /\ (Root \in releasing' <=> Root \in releasing)
        /\ (Root \in stranded' <=> Root \in stranded)
    BY <1>3 DEF Launch, Reserve, ReserveWoken, WakeRefused, Activate, StartFails, FailWoken,
                mailVars, rootVars, Empty
  <2> QED BY <2>1
<1>4. ASSUME NEW m \in Members, Work(m) PROVE RootOwned'
  <2>1. /\ UNCHANGED <<stopped, ready, turn, releasing>> /\ pending'[Root] = pending[Root]
        /\ (Root \in waking' <=> Root \in waking) /\ (Root \in stranded' <=> Root \in stranded)
    BY <1>4 DEF Work, TakeInitial, TurnEnds, Fail, Cancelled, Take, mailVars, rootVars, TypeOK
  <2> QED BY <2>1
<1>5. ASSUME NEW m \in Members, Finish(m) \/ CancelRun(m) PROVE RootOwned'
  <2>1. m # Root /\ Root \notin Subtree(m)
    BY BelowMembers DEF Subtree
  <2>2. /\ UNCHANGED <<ready, turn>> /\ pending'[Root] = pending[Root]
        /\ (Root \in stopped' <=> Root \in stopped) /\ (Root \in waking' <=> Root \in waking)
        /\ (Root \in releasing' <=> Root \in releasing)
        /\ (Root \in stranded' <=> Root \in stranded)
    <3>1. CASE Settle(m) \/ RecordFails(m)
      BY <2>1, <3>1 DEF Settle, RecordFails, SettleAs, mailVars, rootVars, Empty
    <3>2. CASE Complete(m) \/ Dropped(m)
      BY <2>1, <3>2 DEF Complete, Dropped, rootVars
    <3>3. CASE DropRun(m) \/ CancelRun(m)
      BY <2>1, <3>3 DEF DropRun, CancelRun, StopRun, StopScope, rootVars, Empty
    <3> QED BY <1>5, <3>1, <3>2, <3>3 DEF Finish
  <2> QED BY <2>2
<1>6. CASE RootStep
  <2>1. CASE BeginTurn \/ GiveUp \/ RootInterrupted
    BY <2>1 DEF BeginTurn, GiveUp, RootInterrupted, mailVars
  <2>2. CASE TakeReady \/ RootTurnEnds
    <3>1. CASE Root \in stopped
      BY <2>2, <3>1 DEF TakeReady, RootTurnEnds
    <3>2. CASE Root \notin stopped
      <4>1. /\ turn' = (pending[Root] > 0) /\ Root \notin waking'
            /\ pending'[Root] = IF pending[Root] = 0 THEN 0 ELSE pending[Root] - 1
        BY <2>2, <3>2 DEF TakeReady, RootTurnEnds, TakeForRoot, Take, TypeOK
      <4>2. pending'[Root] > 0 => turn'
        <5>1. pending[Root] \in Nat
          BY DEF TypeOK
        <5>2. pending'[Root] > 0 => pending[Root] > 0
          BY <4>1, <5>1
        <5> QED BY <4>1, <5>2
      <4> QED BY <4>1, <4>2
    <3> QED BY <3>1, <3>2
  <2>3. CASE RootTurnFails
    BY <2>3 DEF RootTurnFails
  <2>4. CASE Close
    BY <2>4 DEF Close, StopScope, Empty
  <2>5. CASE CancelAll
    BY <2>5 DEF CancelAll
  <2>6. CASE Resume
    BY <2>6 DEF Resume, Empty
  <2> QED BY <1>6, <2>1, <2>2, <2>3, <2>4, <2>5, <2>6 DEF RootStep
<1> QED BY <1>1, <1>2, <1>3, <1>4, <1>5, <1>6 DEF Next

-----------------------------------------------------------------------------
(* The capacity                                                            *)

Occupied == Slots \cup (waking \ {Root})

LEMMA OccupiedFinite ==
    ASSUME TypeOK PROVE IsFiniteSet(Occupied) /\ Cardinality(Occupied) \in Nat
<1>1. Occupied \subseteq Members
  BY DEF Occupied, Slots, TypeOK, Sessions
<1> QED BY <1>1, SwarmAssumption, FS_Subset, FS_CardinalityType

(* Room for one more is enough for a step that adds one.                   *)
LEMMA Grows ==
    ASSUME Inv, UNCHANGED limit, NEW m, Occupied' \subseteq Occupied \cup {m},
           Occupied' \subseteq Occupied \/ Cardinality(Occupied) < limit
    PROVE  CapacityKept'
<1>1. /\ IsFiniteSet(Occupied) /\ Cardinality(Occupied) \in Nat
      /\ limit \in Nat /\ Cardinality(Occupied) <= limit
  BY OccupiedFinite, SwarmAssumption DEF Inv, CapacityKept, Occupied, TypeOK
<1>2. CASE Occupied' \subseteq Occupied
  <2>1. Cardinality(Occupied') <= Cardinality(Occupied) /\ IsFiniteSet(Occupied')
    BY <1>1, <1>2, FS_Subset
  <2>2. Cardinality(Occupied') \in Nat
    BY <2>1, FS_CardinalityType
  <2>3. Cardinality(Occupied') <= limit'
    BY <1>1, <2>1, <2>2
  <2> QED BY <2>3 DEF CapacityKept, Occupied
<1>3. CASE Cardinality(Occupied) < limit
  <2>1. /\ IsFiniteSet(Occupied \cup {m})
        /\ \/ Cardinality(Occupied \cup {m}) = Cardinality(Occupied) + 1
           \/ Cardinality(Occupied \cup {m}) = Cardinality(Occupied)
    BY <1>1, FS_AddElement
  <2>2. Cardinality(Occupied') <= Cardinality(Occupied \cup {m}) /\ IsFiniteSet(Occupied')
    BY <2>1, FS_Subset
  <2>3. Cardinality(Occupied') \in Nat
    BY <2>2, FS_CardinalityType
  <2>4. Cardinality(Occupied') <= limit'
    BY <1>1, <1>3, <2>1, <2>2, <2>3
  <2> QED BY <2>4 DEF CapacityKept, Occupied
<1> QED BY <1>2, <1>3

LEMMA CapacityStep == ASSUME Inv, Next PROVE CapacityKept'
<1> USE SwarmAssumption DEF Sessions, Slots, Occupied, Move, DropSlot
<1> HIDE DEF Occupied
<1>1. ASSUME NEW s \in Sessions, NEW t \in Sessions, Send(s, t) PROVE CapacityKept'
  <2>1. CASE NeedsOwner(t) /\ t # Root
    <3>1. Cardinality(Occupied) < limit /\ Occupied' \subseteq Occupied \cup {t}
      BY <1>1, <2>1 DEF Send, Occupancy, Occupied, runVars
    <3> QED BY <1>1, <3>1, Grows DEF Send
  <2>2. CASE ~ NeedsOwner(t) \/ t = Root
    <3>1. Occupied' \subseteq Occupied
      BY <1>1, <2>2 DEF Send, Occupied, runVars
    <3> QED BY <1>1, <3>1, Grows DEF Send
  <2> QED BY <2>1, <2>2
<1>2. ASSUME NEW s \in Sessions, Release(s) PROVE CapacityKept'
  <2>1. s # Root => s \in waking
    BY <1>2 DEF Release, Inv, Owned
  <2>2. Occupied' \subseteq Occupied
    BY <1>2, <2>1 DEF Release, Occupied, runVars
  <2> QED BY <1>2, <2>2, Grows DEF Release
<1>3. ASSUME NEW m \in Members, Reserve(m) PROVE CapacityKept'
  <2>1. Cardinality(Occupied) < limit /\ Occupied' \subseteq Occupied \cup {m}
    BY <1>3 DEF Reserve, Admitted, Occupancy, Occupied, mailVars, Inv, TypeOK
  <2> QED BY <1>3, <2>1, Grows DEF Reserve, rootVars
<1>4. ASSUME NEW m \in Members, Launch(m), ~ Reserve(m) PROVE CapacityKept'
  <2>1. m \in Slots \/ m \in waking
    BY <1>4 DEF Launch, ReserveWoken, WakeRefused, Activate, StartFails, FailWoken, Inv, Owned
  <2>2. UNCHANGED <<waking, limit>> /\ \A n \in Members \ {m} : phase'[n] = phase[n]
    BY <1>4 DEF Launch, ReserveWoken, WakeRefused, Activate, StartFails, FailWoken, Admitted,
                runVars, mailVars, rootVars, Inv, TypeOK
  <2>3. Occupied' \subseteq Occupied
    BY <2>1, <2>2 DEF Occupied
  <2> QED BY <2>2, <2>3, Grows
<1>5. ASSUME NEW m \in Members, Work(m) \/ Finish(m) \/ CancelRun(m) PROVE CapacityKept'
  <2>1. /\ UNCHANGED limit /\ m \in Slots /\ waking' \subseteq waking \cup {m}
        /\ \A n \in Members \ {m} : phase'[n] = phase[n]
    <3>1. CASE Work(m)
      BY <3>1 DEF Work, TakeInitial, TurnEnds, Fail, Cancelled, Return, Take, rootVars, mailVars,
                  Inv, TypeOK
    <3>2. CASE Settle(m) \/ RecordFails(m) \/ Complete(m) \/ Dropped(m)
      BY <3>2 DEF Settle, RecordFails, SettleAs, Complete, Dropped, rootVars, mailVars, Inv, TypeOK
    <3>3. CASE DropRun(m) \/ CancelRun(m)
      BY <3>3 DEF DropRun, CancelRun, StopRun, StopScope, rootVars, Activity, Activated, Inv, TypeOK
    <3> QED BY <1>5, <3>1, <3>2, <3>3 DEF Finish
  <2>2. Occupied' \subseteq Occupied
    BY <2>1 DEF Occupied
  <2> QED BY <2>1, <2>2, Grows
<1>6. CASE RootStep
  <2>1. UNCHANGED <<phase, limit>> /\ waking' \subseteq waking
    BY <1>6 DEF RootStep, BeginTurn, TakeReady, RootTurnEnds, RootTurnFails, RootInterrupted,
                Close, CancelAll, Resume, GiveUp, TakeForRoot, Take, StopScope, runVars, mailVars
  <2>2. Occupied' \subseteq Occupied
    BY <2>1 DEF Occupied
  <2> QED BY <2>1, <2>2, Grows
<1> QED BY <1>1, <1>2, <1>3, <1>4, <1>5, <1>6 DEF Next

-----------------------------------------------------------------------------
LEMMA InitInv == Init => Inv
<1> SUFFICES ASSUME Init PROVE Inv
  OBVIOUS
<1>1. Slots \cup (waking \ {Root}) = {} /\ limit \in 1 .. MaxConcurrent
  BY DEF Init, Slots
<1>2. CapacityKept
  BY <1>1, FS_EmptySet, SwarmAssumption DEF CapacityKept
<1> QED BY <1>2, InitTyped, InitOwned DEF Inv

LEMMA StepInv == Inv /\ [Next]_vars => Inv'
<1> SUFFICES ASSUME Inv, [Next]_vars PROVE Inv'
  OBVIOUS
<1>1. TypeOK'
  BY TypeStep DEF Inv
<1>2. CASE UNCHANGED vars
  BY <1>1, <1>2 DEF vars, runVars, mailVars, rootVars, Inv, Owned, Held, RootOwned,
                    CapacityKept, Slots
<1>3. CASE Next
  <2>1. ASSUME NEW n \in Members PROVE Owned(n)'
    BY <1>3, SendOwned, ReleaseOwned, LaunchOwned, WorkOwned, FinishOwned, RootStepOwned DEF Next
  <2> QED BY <1>1, <1>3, <2>1, RootOwnedStep, CapacityStep DEF Inv
<1> QED BY <1>2, <1>3

LEMMA Invariance == Spec => []Inv
BY InitInv, StepInv, PTL DEF Spec

(* Every variable keeps its type, whatever the tree and the bounds.        *)
THEOREM SwarmTypeCorrect == Spec => []TypeOK
BY Invariance, PTL DEF Inv

(* Runs, starts and wakes never exceed the policy's max_concurrent, in a   *)
(* swarm of any shape.                                                     *)
THEOREM CapacityIsKept == Spec => []CapacityKept
BY Invariance, PTL DEF Inv

(* No queue has two owners, none that is marked as waking or holds         *)
(* messages has none, and the root's is looked at again.                   *)
THEOREM QueuesAreOwned == Spec => []QueueHasOneOwner
<1>1. Inv => QueueHasOneOwner
  <2> SUFFICES ASSUME Inv PROVE QueueHasOneOwner
    OBVIOUS
  <2>1. ASSUME NEW m \in Members
        PROVE  /\ Owners(m) <= 1
               /\ m \in waking \/ pending[m] > 0 => Owners(m) = 1 \/ m \in stranded
    BY DEF Inv, Owned, Held, Owners
  <2> QED BY <2>1 DEF QueueHasOneOwner, Inv, RootOwned
<1> QED BY <1>1, Invariance, PTL

-----------------------------------------------------------------------------
(* Stops                                                                   *)

(* The members and the root on the way up from s: what every set has that  *)
(* contains s and the parent of each member in it.  This is a solution of  *)
(* Lineage's equation, so the equation holds.                              *)
Above(s) == {a \in Sessions : \A S \in SUBSET Sessions :
                s \in S /\ (\A m \in Members : m \in S => Parent[m] \in S) => a \in S}

LEMMA LineageIs ==
    \A s \in Sessions : Lineage[s] = IF s = Root THEN {Root} ELSE {s} \cup Lineage[Parent[s]]
<1> DEFINE Up(f)  == [s \in Sessions |-> IF s = Root THEN {Root} ELSE {s} \cup f[Parent[s]]]
           above  == [s \in Sessions |-> Above(s)]
<1> USE SwarmAssumption
<1>1. above = Up(above)
  <2> SUFFICES ASSUME NEW s \in Sessions PROVE Above(s) = Up(above)[s]
    OBVIOUS
  <2>1. CASE s = Root
    <3>1. {Root} \in SUBSET Sessions /\ \A m \in Members : m \in {Root} => Parent[m] \in {Root}
      BY DEF Sessions
    <3>2. Above(s) = {Root}
      BY <2>1, <3>1 DEF Above
    <3> QED BY <2>1, <3>2
  <2>2. CASE s \in Members
    <3>1. Parent[s] \in Sessions /\ s # Root
      BY <2>2
    <3>2. Above(Parent[s]) \subseteq Above(s)
      BY <2>2, <3>1 DEF Above
    <3>3. s \in Above(s)
      BY DEF Above
    <3>4. ASSUME NEW a \in Above(s), a # s PROVE a \in Above(Parent[s])
      <4> SUFFICES ASSUME NEW S \in SUBSET Sessions, Parent[s] \in S,
                          \A m \in Members : m \in S => Parent[m] \in S
                   PROVE  a \in S
        BY DEF Above
      <4>1. S \cup {s} \in SUBSET Sessions /\ s \in S \cup {s}
            /\ \A m \in Members : m \in S \cup {s} => Parent[m] \in S \cup {s}
        OBVIOUS
      <4>2. a \in S \cup {s}
        BY <4>1 DEF Above
      <4> QED BY <3>4, <4>2
    <3> QED BY <3>1, <3>2, <3>3, <3>4
  <2> QED BY <2>1, <2>2 DEF Sessions
<1>2. Lineage = Up(Lineage)
  BY <1>1 DEF Lineage
<1> HIDE DEF Up
<1>3. ASSUME NEW s \in Sessions PROVE Lineage[s] = Up(Lineage)[s]
  BY <1>2
<1> QED BY <1>3 DEF Up

LEMMA InLineage == ASSUME NEW s \in Sessions PROVE s \in Lineage[s]
BY LineageIs

(* A child of m, or of one below m, is m or below m; and so upwards.       *)
LEMMA BelowDown ==
    ASSUME NEW m \in Members, NEW c \in Members, Parent[c] \in {m} \cup Below(m)
    PROVE  c \in {m} \cup Below(m)
<1>1. Parent[c] \in Members /\ m \in Lineage[Parent[c]]
  BY InLineage DEF Below, Sessions
<1>2. m \in Lineage[c]
  BY <1>1, LineageIs, SwarmAssumption DEF Sessions
<1> QED BY <1>2 DEF Below

LEMMA BelowUp ==
    ASSUME NEW m \in Members, NEW c \in Below(m)
    PROVE  Parent[c] \in {m} \cup Below(m)
<1>1. c \in Members /\ c # m /\ m \in Lineage[c] /\ Parent[c] \in Sessions
  BY SwarmAssumption DEF Below
<1>2. m \in Lineage[Parent[c]]
  BY <1>1, LineageIs, SwarmAssumption DEF Sessions
<1>3. Lineage[Root] = {Root}
  BY LineageIs DEF Sessions
<1>4. Parent[c] # Root
  BY <1>2, <1>3, SwarmAssumption
<1> QED BY <1>1, <1>2, <1>4 DEF Below, Sessions

(* Runs hang below the root by members that have been born.                *)
Rooted == \A m \in born \cup Slots : Parent[m] \in born \cup {Root}

(* What was halted is closed downwards and its topmost member is stopped.  *)
(* A member of it that is not stopped was only being started when it was   *)
(* halted, so that it had and has no children; while it has a run, that    *)
(* run is requested to stop and may not delegate, and afterwards it cannot *)
(* be started again, its parent being stopped.                             *)
Barren(x) == \A c \in Members : Parent[c] = x => c \notin born \cup Slots

Halted(x) ==
    /\ \A c \in Members : Parent[c] = x => c \in halted
    /\ x \in Slots => x \in requested
    /\ x \in stopped \/ Barren(x)
    /\ x \in stopped \/ Parent[x] \in halted

Reach == Rooted /\ \A x \in halted : Halted(x)

LEMMA InitReach == Init => Reach
BY DEF Init, Reach, Rooted, Slots

(* A step that starts no run and stops no subtree.                         *)
LEMMA QuietReach ==
    ASSUME Inv, Reach, UNCHANGED halted, born \subseteq born', born' \subseteq born \cup Slots,
           Slots' \subseteq Slots, requested \cap Slots' \subseteq requested',
           stopped \subseteq stopped'
    PROVE  Reach'
<1>1. Rooted'
  BY DEF Reach, Rooted
<1>2. ASSUME NEW x \in halted PROVE Halted(x)'
  BY <1>2 DEF Reach, Halted, Barren
<1> QED BY <1>1, <1>2 DEF Reach

(* A run is only started outside of what was halted.                       *)
LEMMA StartReach ==
    ASSUME Inv, Reach, NEW m \in Members, Reserve(m) \/ ReserveWoken(m) PROVE Reach'
<1> USE SwarmAssumption
<1>1. /\ Parent[m] \in Sessions /\ ~ Stopping(Parent[m]) /\ Parent[m] \notin stopped
      /\ m \notin stopped
  BY DEF Reserve, ReserveWoken, Admitted
<1>2. Slots' = Slots \cup {m} /\ UNCHANGED <<born, requested, stopped, halted>>
  BY DEF Reserve, ReserveWoken, Admitted, Move, Slots, mailVars, rootVars, Inv, TypeOK
<1>3. CASE Reserve(m)
  <2>1. Parent[m] \in Members => Parent[m] \in Activity \cap Slots
    BY <1>3 DEF Reserve, Executing, Activity, Activated, Slots
  <2>2. Parent[m] \notin requested \/ Parent[m] = Root
    BY <1>1, <2>1, InLineage DEF Stopping, Sessions
  <2>3. Parent[m] \in born \cup {Root}
    BY <1>1, <2>1 DEF Inv, TypeOK, Sessions
  <2>4. m \notin halted
    BY <1>1, <2>1, <2>2 DEF Reach, Halted, Sessions, Inv, TypeOK
  <2>5. \A x \in halted : Parent[m] # x
    BY <2>4 DEF Reach, Halted
  <2> QED BY <1>2, <2>3, <2>4, <2>5 DEF Reach, Rooted, Halted, Barren
<1>4. CASE ReserveWoken(m)
  <2>1. m \in born
    BY <1>4 DEF ReserveWoken, Inv, Owned
  <2>2. m \notin halted
    BY <1>1, <2>1 DEF Reach, Halted, Barren
  <2>3. \A x \in halted : Parent[m] # x
    BY <2>2 DEF Reach, Halted
  <2> QED BY <1>2, <2>1, <2>2, <2>3 DEF Reach, Rooted, Halted, Barren
<1> QED BY <1>3, <1>4

(* All that is below a member that is stopped and has been born is stopped *)
(* with it; all that has a slot is requested.                              *)
LEMMA StopReach ==
    ASSUME Inv, Reach, NEW m \in Members, m \in born, StopRun(m), Slots' = Slots, UNCHANGED born
    PROVE  Reach'
<1> USE SwarmAssumption
<1> DEFINE Scope == {m} \cup Below(m)
<1>1. Scope \subseteq Members /\ Root \notin Scope
  BY BelowMembers
<1>2. /\ halted' = halted \cup Scope
      /\ \A x \in Members : x \in stopped' <=> x \in stopped \/ (x \in Scope /\ x \in born)
      /\ requested' = requested \cup (Slots \cap Scope)
  <2>1. requested' = requested \cup (Slots \cap ({m} \cup Below(m)))
    BY DEF StopRun, StopScope
  <2>2. stopped' = stopped \cup (Subtree(m) \ {Root}) /\ halted' = halted \cup {m} \cup Below(m)
    BY DEF StopRun, StopScope
  <2> QED BY <1>1, <2>1, <2>2 DEF Subtree
<1>3. Rooted'
  BY DEF Reach, Rooted
<1>4. ASSUME NEW x \in Scope PROVE Halted(x)'
  <2>1. \A c \in Members : Parent[c] = x => c \in Scope
    BY BelowDown
  <2>2. x \in stopped' \/ Parent[x] \in Scope
    BY <1>1, <1>2, BelowUp
  <2>3. x \in born \/ Barren(x)
    BY <1>1 DEF Barren, Reach, Rooted
  <2>4. x \in stopped' \/ Barren(x)'
    BY <1>1, <1>2, <2>3 DEF Barren
  <2>5. x \in Slots => x \in requested'
    BY <1>2
  <2> QED BY <1>2, <2>1, <2>2, <2>4, <2>5 DEF Halted
<1>5. ASSUME NEW x \in halted PROVE Halted(x)'
  <2>1. Halted(x) /\ x \in Members
    BY DEF Reach, Inv, TypeOK
  <2> QED BY <1>2, <2>1 DEF Halted, Barren
<1> QED BY <1>2, <1>3, <1>4, <1>5 DEF Reach

LEMMA ReachStep == ASSUME Inv, Reach, [Next]_vars PROVE Reach'
<1> USE DEF runVars, mailVars, rootVars
<1>1. CASE UNCHANGED vars
  BY <1>1 DEF vars, Reach, Rooted, Halted, Barren, Slots
<1>2. ASSUME NEW s \in Sessions, NEW t \in Sessions, Send(s, t) PROVE Reach'
  BY <1>2, QuietReach DEF Send, Slots
<1>3. ASSUME NEW s \in Sessions, Release(s) PROVE Reach'
  BY <1>3, QuietReach DEF Release, Slots
<1>4. ASSUME NEW m \in Members, Launch(m) PROVE Reach'
  <2>1. CASE Reserve(m) \/ ReserveWoken(m)
    BY <2>1, StartReach
  <2>2. CASE WakeRefused(m) \/ FailWoken(m)
    BY <2>2, QuietReach DEF WakeRefused, FailWoken, Slots
  <2>3. CASE Activate(m)
    <3>1. Slots' = Slots /\ m \in Slots
      BY <2>3 DEF Activate, Move, Slots, Inv, TypeOK
    <3> QED BY <2>3, <3>1, QuietReach DEF Activate
  <2>4. CASE StartFails(m)
    <3>1. Slots' = Slots \ {m}
      BY <2>4 DEF StartFails, DropSlot, Move, Slots, Inv, TypeOK
    <3> QED BY <2>4, <3>1, QuietReach DEF StartFails
  <2> QED BY <1>4, <2>1, <2>2, <2>3, <2>4 DEF Launch
<1>5. ASSUME NEW m \in Members, Work(m) PROVE Reach'
  <2>1. Slots' = Slots /\ UNCHANGED <<born, requested, stopped, halted>>
    BY <1>5 DEF Work, TakeInitial, TurnEnds, Fail, Cancelled, Return, Move, Slots, Inv, TypeOK
  <2> QED BY <2>1, QuietReach
<1>6. ASSUME NEW m \in Members, Finish(m) \/ CancelRun(m) PROVE Reach'
  <2>1. CASE Settle(m) \/ RecordFails(m)
    <3>1. Slots' = Slots /\ UNCHANGED <<born, halted>>
      BY <2>1 DEF Settle, RecordFails, Move, Slots, Inv, TypeOK
    <3>2. requested \subseteq requested' /\ stopped \subseteq stopped'
      BY <2>1 DEF Settle, RecordFails, SettleAs
    <3> QED BY <3>1, <3>2, QuietReach
  <2>2. CASE Complete(m) \/ Dropped(m)
    <3>1. Slots' = Slots \ {m} /\ UNCHANGED <<born, halted, stopped>>
      BY <2>2 DEF Complete, Dropped, DropSlot, Move, Slots, Inv, TypeOK
    <3>2. requested \ {m} \subseteq requested'
      BY <2>2 DEF Complete, Dropped
    <3> QED BY <3>1, <3>2, QuietReach
  <2>3. CASE DropRun(m) \/ CancelRun(m)
    <3>1. m \in Activity /\ Slots' = Slots /\ UNCHANGED born /\ StopRun(m)
      BY <2>3 DEF DropRun, CancelRun, Move, Slots, Activity, Activated, Inv, TypeOK
    <3>2. m \in born
      BY <3>1 DEF Inv, TypeOK
    <3> QED BY <3>1, <3>2, StopReach
  <2> QED BY <1>6, <2>1, <2>2, <2>3 DEF Finish
<1>7. CASE RootStep
  <2>1. CASE Resume
    BY <2>1 DEF Resume, Settled, Reach, Rooted, Slots
  <2>2. CASE ~ Resume
    <3>1. UNCHANGED <<phase, born, halted>>
      BY <1>7, <2>2 DEF RootStep, BeginTurn, TakeReady, RootTurnEnds, RootTurnFails,
                        RootInterrupted, Close, CancelAll, GiveUp
    <3>2. Slots' = Slots
      BY <3>1 DEF Slots
    <3>3. requested \cap Slots \subseteq requested' /\ stopped \subseteq stopped'
      BY <1>7, <2>2 DEF RootStep, BeginTurn, TakeReady, RootTurnEnds, RootTurnFails,
                        RootInterrupted, Close, StopScope, CancelAll, GiveUp
    <3> QED BY <3>1, <3>2, <3>3, QuietReach
  <2> QED BY <2>1, <2>2
<1> QED BY <1>1, <1>2, <1>3, <1>4, <1>5, <1>6, <1>7 DEF Next

(* A run that is cancelled or dropped takes with it all that runs or is    *)
(* being started below it, in a tree of any depth, and nothing starts      *)
(* there again before the session is resumed.                              *)
THEOREM StopsReachSubtrees == Spec => []StopReachesSubtree
<1>1. Inv /\ Reach => StopReachesSubtree
  BY DEF Reach, Halted, StopReachesSubtree
<1> QED BY <1>1, InitReach, ReachStep, Invariance, PTL DEF Spec
=============================================================================
