------------------------ MODULE ResultDelivery_proofs ------------------------
(***************************************************************************)
(* Proofs about ResultDelivery, for any number of runs and of waiters: a   *)
(* claim is held by one waiter until it gives it up, and so a result is    *)
(* never both returned by an agent__wait and delivered as a continuation.  *)
(***************************************************************************)
EXTENDS ResultDelivery, TLAPS

(* Only a run with a result is queued or delivered.  Such a run can no     *)
(* longer be claimed, and one that is claimed is not delivered.            *)
DeliveredUnclaimed ==
    /\ \A r \in queue \cup delivered : result[r] # NoResult
    /\ delivered \cap foreground = {}

(* A result that was returned keeps its claim, as no other waiter in       *)
(* progress could give it up.                                              *)
ReturnedClaimed ==
    /\ returned \subseteq foreground
    /\ \A w \in Waiters : step[w] # "idle" => awaited[w] \notin returned

Inv == TypeOK /\ ClaimsHeld /\ DeliveredUnclaimed /\ ReturnedClaimed

LEMMA InitInv == Init => Inv
BY ResultAssumption DEF Init, TableInit, Inv, TypeOK, ClaimsHeld, DeliveredUnclaimed,
                        ReturnedClaimed, Steps

(* The steps of a waiter between its claim and its return.                 *)
LEMMA MoveInv ==
    ASSUME Inv, NEW w \in Waiters, NEW s \in Steps, step[w] # "idle", Move(w, s),
           UNCHANGED <<foreground, returned>>, woken' \subseteq Waiters
    PROVE  Inv'
<1> USE DEF Inv, Move, tableVars, engineVars
<1>1. TypeOK'
  BY DEF TypeOK
<1>2. \A v \in Waiters : step'[v] # "idle" => step[v] # "idle"
  BY DEF TypeOK
<1>3. ClaimsHeld'
  BY <1>2 DEF ClaimsHeld
<1>4. DeliveredUnclaimed'
  BY DEF DeliveredUnclaimed
<1>5. ReturnedClaimed'
  BY <1>2 DEF ReturnedClaimed
<1> QED BY <1>1, <1>3, <1>4, <1>5

(* A waiter gives up its claim: nobody else holds it, nothing was returned. *)
LEMMA UnclaimInv ==
    ASSUME Inv, NEW w \in Waiters, step[w] # "idle", Unclaim(w)
    PROVE  Inv'
<1> USE DEF Inv, Unclaim, Return, tableVars, engineVars
<1>1. awaited[w] \in foreground /\ awaited[w] \in Runs
  BY DEF ClaimsHeld, TypeOK
<1>2. TypeOK'
  BY <1>1 DEF TypeOK, Steps
<1>3. \A v \in Waiters : step'[v] # "idle" => step[v] # "idle" /\ v # w /\ awaited[v] # awaited[w]
  BY DEF TypeOK, ClaimsHeld
<1>4. ClaimsHeld'
  BY <1>3 DEF ClaimsHeld
<1>5. DeliveredUnclaimed'
  BY DEF DeliveredUnclaimed
<1>6. ReturnedClaimed'
  BY <1>3 DEF ReturnedClaimed
<1> QED BY <1>2, <1>4, <1>5, <1>6

LEMMA PoolInv ==
    ASSUME Inv, NEW r \in Runs, PoolStep(r)
    PROVE  Inv'
<1> USE DEF Inv, PoolStep, TakeSlot, Abandon, Settle, engineVars, waitVars
<1>1. TypeOK'
  BY DEF TypeOK
<1>2. \A q \in Runs : result[q] # NoResult => result'[q] # NoResult
  BY ResultAssumption DEF TypeOK
<1>3. DeliveredUnclaimed'
  BY <1>2 DEF DeliveredUnclaimed, TypeOK
<1>4. ClaimsHeld' /\ ReturnedClaimed'
  BY DEF ClaimsHeld, ReturnedClaimed
<1> QED BY <1>1, <1>3, <1>4

LEMMA ObserveInv ==
    ASSUME Inv, NEW r \in Runs, Observe(r)
    PROVE  Inv'
<1> USE DEF Inv, Observe, Take, Deliver, tableVars, waitVars
<1>1. TypeOK'
  BY DEF TypeOK
<1>2. DeliveredUnclaimed'
  BY DEF DeliveredUnclaimed
<1>3. ClaimsHeld' /\ ReturnedClaimed'
  BY DEF ClaimsHeld, ReturnedClaimed
<1> QED BY <1>1, <1>2, <1>3

LEMMA ClaimInv ==
    ASSUME Inv, NEW w \in Waiters, NEW r \in Runs, Claim(w, r)
    PROVE  Inv'
<1> USE DEF Inv, Claim, tableVars, engineVars
<1>1. TypeOK'
  BY DEF TypeOK, Steps
<1>2. \A v \in Waiters : v # w => step'[v] = step[v] /\ awaited'[v] = awaited[v]
  BY DEF TypeOK
<1>3. awaited'[w] = r
  BY DEF TypeOK
<1>4. \A v \in Waiters : v # w /\ step'[v] # "idle" => awaited'[v] \in foreground /\ awaited'[v] # r
  BY <1>2 DEF ClaimsHeld
<1>5. ClaimsHeld'
  BY <1>2, <1>3, <1>4 DEF ClaimsHeld
<1>6. DeliveredUnclaimed'
  BY DEF DeliveredUnclaimed
<1>7. ReturnedClaimed'
  BY <1>2, <1>3 DEF ReturnedClaimed
<1> QED BY <1>1, <1>5, <1>6, <1>7

LEMMA ReturnInv ==
    ASSUME Inv, NEW w \in Waiters, ReturnResult(w)
    PROVE  Inv'
<1> USE DEF Inv, ReturnResult, Return, tableVars, engineVars
<1>1. awaited[w] \in foreground /\ awaited[w] \in Runs
  BY DEF ClaimsHeld, TypeOK
<1>2. TypeOK'
  BY <1>1 DEF TypeOK, Steps
<1>3. \A v \in Waiters : step'[v] # "idle" => step[v] # "idle" /\ v # w /\ awaited[v] # awaited[w]
  BY DEF TypeOK, ClaimsHeld
<1>4. ClaimsHeld'
  BY <1>3 DEF ClaimsHeld
<1>5. DeliveredUnclaimed'
  BY DEF DeliveredUnclaimed
<1>6. ReturnedClaimed'
  BY <1>1, <1>3 DEF ReturnedClaimed
<1> QED BY <1>2, <1>4, <1>5, <1>6

LEMMA StepInv == Inv /\ [Next]_vars => Inv'
<1> SUFFICES ASSUME Inv, [Next]_vars PROVE Inv'
  OBVIOUS
<1>1. CASE UNCHANGED vars
  BY <1>1 DEF vars, tableVars, engineVars, waitVars, Inv, TypeOK, ClaimsHeld,
              DeliveredUnclaimed, ReturnedClaimed
<1>2. ASSUME NEW r \in Runs, Announce(r) \/ Launch(r) \/ Post(r) PROVE Inv'
  <2>1. TypeOK'
    BY <1>2 DEF Inv, TypeOK, Announce, Launch, Post, tableVars, engineVars, waitVars
  <2>2. DeliveredUnclaimed'
    BY <1>2 DEF Inv, DeliveredUnclaimed, Announce, Launch, Post, tableVars, engineVars, waitVars
  <2>3. ClaimsHeld' /\ ReturnedClaimed'
    BY <1>2 DEF Inv, ClaimsHeld, ReturnedClaimed, Announce, Launch, Post, tableVars,
                engineVars, waitVars
  <2> QED BY <2>1, <2>2, <2>3 DEF Inv
<1>3. ASSUME NEW w \in Waiters, Look(w) \/ LookActive(w) \/ Register(w) \/ Wake(w) PROVE Inv'
  <2>1. step[w] # "idle" /\ UNCHANGED <<foreground, returned>> /\ woken' \subseteq Waiters
    BY <1>3 DEF Look, LookActive, Register, Wake, Inv, TypeOK
  <2>2. \E s \in Steps : Move(w, s)
    BY <1>3 DEF Look, LookActive, Register, Wake, Steps
  <2> QED BY <2>1, <2>2, MoveInv
<1>4. ASSUME NEW w \in Waiters, ReturnNothing(w) \/ Interrupt(w) PROVE Inv'
  BY <1>4, UnclaimInv DEF ReturnNothing, Interrupt
<1> QED BY <1>1, <1>2, <1>3, <1>4, PoolInv, ObserveInv, ClaimInv, ReturnInv DEF Next, Wait

LEMMA Invariance == Spec => []Inv
BY InitInv, StepInv, PTL DEF Spec

(* Every variable keeps its type, whatever the runs and waiters.           *)
THEOREM DeliveryTypeCorrect == Spec => []TypeOK
BY Invariance, PTL DEF Inv

(* A claim made by claim_foreground is exclusive and lasts until its own   *)
(* waiter ends.                                                            *)
THEOREM ClaimsAreExclusive == Spec => []ClaimsHeld
BY Invariance, PTL DEF Inv

(* The result of a background run reaches its session at most once.        *)
THEOREM AtMostOneDelivery == Spec => []DeliveredOnce
<1>1. Inv => DeliveredOnce
  BY DEF Inv, DeliveredUnclaimed, ReturnedClaimed, DeliveredOnce
<1> QED BY <1>1, Invariance, PTL
=============================================================================
