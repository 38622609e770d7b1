--------------------------- MODULE ResultDelivery ---------------------------
(***************************************************************************)
(* How the result of a background run reaches the session that delegated   *)
(* it: by the completion its task queues for the session, or by an         *)
(* agent__wait that claimed the run first.                                 *)
(* Source: src/subagent/pool.rs (claim_foreground, wait_for_result),       *)
(* src/session/subagent_delegate.rs (agent__wait, take_completed, the      *)
(* background task), src/session/engine.rs                                 *)
(* (observe_background_subagent_completion).                               *)
(*                                                                         *)
(* A run is delegated by the root session, whose engine takes completions  *)
(* as commands between two polls of the turn in progress, or by a swarm    *)
(* member below it, which takes them at the boundaries of its own turn.    *)
(* The root session may wait for the member's runs too.                    *)
(*                                                                         *)
(* The pool is the run table it implements; every change of the table is   *)
(* followed, outside its lock, by notify_waiters.  The sessions stay the   *)
(* same and their records succeed.                                          *)
(***************************************************************************)
EXTENDS RunTable

CONSTANT RootRuns,      \* runs delegated by the root session, the others by a member
         RootWaiters,   \* agent__wait calls of the root session
         MemberWaiters, \* and of the member
         Cancelled,     \* the status that is not delivered
         NoRun

ASSUME DeliveryAssumption ==
    /\ RootRuns \subseteq Runs
    /\ RootWaiters \cap MemberWaiters = {}
    /\ Cancelled \in Statuses
    /\ NoRun \notin Runs

Waiters == RootWaiters \cup MemberWaiters

VARIABLES unannounced, \* runs that changed the table but did not notify yet
          launched,    \* runs whose background task was spawned
          queue,       \* completions the session has not taken yet
          observed,    \* runs whose completion it has taken
          delivered,   \* runs whose result continued its turn
          foreground,  \* foregrounded_by_run
          step,        \* where each agent__wait is
          awaited,     \* its run
          woken,       \* waiters whose Notified is ready
          returned,    \* runs whose result an agent__wait returned
          givenUp      \* runs a claim of which ended without a result

engineVars == <<launched, queue, observed, delivered>>
waitVars   == <<step, awaited, woken, returned, givenUp>>
vars == <<tableVars, unannounced, engineVars, foreground, waitVars>>

Steps == {"idle", "look", "lookActive", "register", "relook", "relookActive", "asleep",
          "got", "gone"}
Registered == {"relook", "relookActive", "asleep"}

TypeOK ==
    /\ used \subseteq Runs /\ active \subseteq used
    /\ result \in [Runs -> Statuses \cup {NoResult}]
    /\ unannounced \subseteq Runs /\ launched \subseteq used
    /\ queue \subseteq launched /\ observed \subseteq launched /\ delivered \subseteq observed
    /\ foreground \subseteq used
    /\ step \in [Waiters -> Steps] /\ awaited \in [Waiters -> Runs \cup {NoRun}]
    /\ woken \subseteq Waiters
    /\ returned \subseteq Runs /\ givenUp \subseteq Runs

Init ==
    /\ TableInit
    /\ unannounced = {} /\ launched = {} /\ queue = {} /\ observed = {} /\ delivered = {}
    /\ foreground = {}
    /\ step = [w \in Waiters |-> "idle"] /\ awaited = [w \in Waiters |-> NoRun]
    /\ woken = {} /\ returned = {} /\ givenUp = {}

-----------------------------------------------------------------------------
(* The pool.                                                               *)

PoolStep(r) ==
    /\ \/ TakeSlot(r)
       \/ r \notin launched /\ Abandon(r)
       \/ \E status \in Statuses : Settle(r, status)
    /\ unannounced' = unannounced \cup {r}
    /\ UNCHANGED <<engineVars, foreground, waitVars>>

(* notify_waiters wakes the waiters that are registered at that moment.    *)
Announce(r) ==
    /\ r \in unannounced
    /\ unannounced' = unannounced \ {r}
    /\ woken' = woken \cup {w \in Waiters : step[w] \in Registered}
    /\ UNCHANGED <<tableVars, engineVars, foreground, step, awaited, returned, givenUp>>

-----------------------------------------------------------------------------
(* The background task and the delegating session.                         *)

(* run_named spawns the task that will complete the started run.           *)
Launch(r) ==
    /\ r \in active \ launched
    /\ launched' = launched \cup {r}
    /\ UNCHANGED <<tableVars, unannounced, queue, observed, delivered, foreground, waitVars>>

Post(r) ==
    /\ r \in launched \ (queue \cup observed)
    /\ result[r] # NoResult
    /\ queue' = queue \cup {r}
    /\ UNCHANGED <<tableVars, unannounced, launched, observed, delivered, foreground, waitVars>>

Take(r) ==
    /\ r \in queue
    /\ queue' = queue \ {r}
    /\ observed' = observed \cup {r}
    /\ UNCHANGED <<tableVars, unannounced, launched, foreground, waitVars>>

(* The engine polls the turn, and with it the root's agent__wait, and      *)
(* takes commands by turns; a member takes its completions where its turn  *)
(* is not waiting.                                                         *)
BetweenPolls(r) ==
    IF r \in RootRuns THEN \A w \in RootWaiters : step[w] \in {"idle", "asleep"}
                      ELSE \A w \in MemberWaiters : step[w] = "idle"

(* The engine only ends the view of a run that was cancelled.              *)
Deliver(r) ==
    delivered' = IF r \in RootRuns /\ result[r] = Cancelled THEN delivered
                                                           ELSE delivered \cup {r}

(* Fault: nobody asks whether the run is foregrounded.                     *)
ObserveForegrounded(r) == BetweenPolls(r) /\ Take(r) /\ Deliver(r)

(* Fault: while any run is foregrounded, every completion is left alone.   *)
ObserveAnyForegrounded(r) ==
    /\ BetweenPolls(r)
    /\ Take(r)
    /\ IF foreground # {} THEN UNCHANGED delivered ELSE Deliver(r)

(* A run that is foregrounded is left to its waiter.                       *)
Observe(r) ==
    /\ BetweenPolls(r)
    /\ Take(r)
    /\ \/ r \in foreground /\ UNCHANGED delivered
       \/ r \notin foreground /\ Deliver(r)

-----------------------------------------------------------------------------
(* agent__wait.                                                            *)

Move(w, s) ==
    /\ step' = [step EXCEPT ![w] = s]
    /\ UNCHANGED <<tableVars, unannounced, engineVars, awaited, givenUp>>

(* A member does not see the runs of the root.                             *)
MayAwait(w, r) == r \in RootRuns => w \in RootWaiters

(* Fault: a run that has just completed can still be claimed.              *)
ClaimCompleted(w, r) ==
    /\ step[w] = "idle" /\ MayAwait(w, r)
    /\ r \in used \ foreground
    /\ foreground' = foreground \cup {r}
    /\ step' = [step EXCEPT ![w] = "look"]
    /\ awaited' = [awaited EXCEPT ![w] = r]
    /\ UNCHANGED <<tableVars, unannounced, engineVars, woken, returned, givenUp>>

(* Fault: a run can be claimed by a second waiter.                         *)
ClaimAgain(w, r) ==
    /\ step[w] = "idle" /\ MayAwait(w, r)
    /\ r \in active /\ result[r] = NoResult
    /\ foreground' = foreground \cup {r}
    /\ step' = [step EXCEPT ![w] = "look"]
    /\ awaited' = [awaited EXCEPT ![w] = r]
    /\ UNCHANGED <<tableVars, unannounced, engineVars, woken, returned, givenUp>>

(* claim_foreground: only a run that is active, and by one waiter.         *)
Claim(w, r) ==
    /\ step[w] = "idle" /\ MayAwait(w, r)
    /\ r \in active \ foreground /\ result[r] = NoResult
    /\ foreground' = foreground \cup {r}
    /\ step' = [step EXCEPT ![w] = "look"]
    /\ awaited' = [awaited EXCEPT ![w] = r]
    /\ UNCHANGED <<tableVars, unannounced, engineVars, woken, returned, givenUp>>

(* wait_for_result: completed_result and active_by_run are read under two  *)
(* locks, before and after the waiter registers for the notification.      *)
Look(w) ==
    /\ \/ step[w] = "look" /\ Move(w, IF result[awaited[w]] # NoResult THEN "got" ELSE "lookActive")
       \/ step[w] = "relook"
          /\ Move(w, IF result[awaited[w]] # NoResult THEN "got" ELSE "relookActive")
    /\ UNCHANGED <<foreground, woken, returned>>

LookActive(w) ==
    /\ \/ step[w] = "lookActive" /\ Move(w, IF awaited[w] \in active THEN "register" ELSE "gone")
       \/ step[w] = "relookActive" /\ Move(w, IF awaited[w] \in active THEN "asleep" ELSE "gone")
    /\ UNCHANGED <<foreground, woken, returned>>

(* Fault: the waiter sleeps at once, trusting what it read before.         *)
RegisterAndSleep(w) ==
    /\ step[w] = "register"
    /\ Move(w, "asleep")
    /\ UNCHANGED <<foreground, woken, returned>>

Register(w) ==
    /\ step[w] = "register"
    /\ Move(w, "relook")
    /\ UNCHANGED <<foreground, woken, returned>>

Wake(w) ==
    /\ step[w] = "asleep" /\ w \in woken
    /\ Move(w, "look")
    /\ woken' = woken \ {w}
    /\ UNCHANGED <<foreground, returned>>

Return(w) ==
    /\ step' = [step EXCEPT ![w] = "idle"]
    /\ awaited' = [awaited EXCEPT ![w] = NoRun]
    /\ woken' = woken \ {w}
    /\ UNCHANGED <<tableVars, unannounced, engineVars>>

(* The result is returned and the claim is retained.                       *)
ReturnResult(w) ==
    /\ step[w] = "got"
    /\ Return(w)
    /\ returned' = returned \cup {awaited[w]}
    /\ UNCHANGED <<foreground, givenUp>>

(* The claim's guard is dropped.                                           *)
Unclaim(w) ==
    /\ Return(w)
    /\ foreground' = foreground \ {awaited[w]}
    /\ givenUp' = givenUp \cup {awaited[w]}
    /\ UNCHANGED returned

(* "subagent run ended without a terminal result"                          *)
ReturnNothing(w) == step[w] = "gone" /\ Unclaim(w)

(* The turn is interrupted: the tool's future is dropped where it awaits.  *)
Interrupt(w) == step[w] = "asleep" /\ Unclaim(w)

Wait(w) ==
    \/ Look(w) \/ LookActive(w) \/ Register(w) \/ Wake(w)
    \/ ReturnResult(w) \/ ReturnNothing(w)

Next ==
    \/ \E r \in Runs : PoolStep(r) \/ Announce(r) \/ Launch(r) \/ Post(r) \/ Observe(r)
    \/ \E w \in Waiters :
           (\E r \in Runs : Claim(w, r)) \/ Wait(w) \/ Interrupt(w)

Spec == Init /\ [][Next]_vars

(* Tasks that need not await anything run on, and the engine's select is   *)
(* biased to its commands, so that polls of the turn do not starve them.   *)
(* No run need ever end.                                                   *)
Fairness ==
    /\ \A r \in Runs : WF_vars(Announce(r)) /\ WF_vars(Post(r)) /\ SF_vars(Observe(r))
    /\ \A w \in Waiters : WF_vars(Wait(w))

FairSpec == Spec /\ Fairness

-----------------------------------------------------------------------------
(* A result reaches the session at most once: never by agent__wait and as a *)
(* continuation of the turn too.                                           *)
DeliveredOnce == delivered \cap returned = {}

(* A run is claimed by one waiter at a time, and every waiter in progress  *)
(* still has its claim, whatever other waiters gave up meanwhile.          *)
ClaimsHeld ==
    \A w \in Waiters : step[w] # "idle" =>
        /\ awaited[w] \in foreground
        /\ \A v \in Waiters : v # w /\ step[v] # "idle" => awaited[v] # awaited[w]

(* A waiter does not sleep through the end of its run: once the run has no *)
(* slot, the call returns.                                                 *)
WaiterReturns ==
    \A w \in Waiters :
        (step[w] # "idle" /\ awaited[w] \notin active) ~> (step[w] = "idle")

Finished(r) == r \in launched /\ result[r] \notin {NoResult, Cancelled}

(* The result of a background run of the root session that was not         *)
(* cancelled is delivered or returned, unless an agent__wait claimed the   *)
(* run and gave up.                                                        *)
DeliveredUnlessGivenUp ==
    \A r \in RootRuns : Finished(r) ~> (r \in delivered \cup returned \cup givenUp)

(* What the documentation says: agent__wait waits for the run to end and   *)
(* obtains its final result.                                               *)
WaitObtainsResult == \A w \in Waiters : step[w] = "gone" => result[awaited[w]] = NoResult
=============================================================================
