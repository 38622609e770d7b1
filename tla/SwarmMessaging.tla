--------------------------- MODULE SwarmMessaging ---------------------------
(***************************************************************************)
(* Messages between the members of a swarm (src/subagent/messaging.rs) and *)
(* the runs that handle them (swarm part of src/subagent/pool.rs).         *)
(*                                                                         *)
(* A message goes into its target's bounded queue.  A target without a run *)
(* gets an owner for the queue first (`waking`): the root's owner is a     *)
(* command in the engine's channel, a member's is a task that starts a run *)
(* in the member's session.  A run takes messages at the end of its turns; *)
(* a run that ends hands its queue to a releaser, which wakes the member   *)
(* again if a message has come in since.  Cancellations stop a subtree     *)
(* while all of this goes on.                                              *)
(*                                                                         *)
(* Each step is one critical section of the pool's mutex, two where nobody *)
(* can act differently in between (a stop and the failing of the queues it *)
(* has closed).  A member has at most one slot at a time, so runs are not  *)
(* named; a slot's chain of parent runs is contained in the tree.  A       *)
(* message is counted, not told apart.  Path locks and transcripts appear  *)
(* as starts that fail; depth is DelegatedScopes'.                         *)
(***************************************************************************)
EXTENDS Integers, FiniteSets

CONSTANTS Root, Members,
          Parent,        \* [Members -> Sessions], a tree under Root
          MaxConcurrent, \* bound: policy.max_concurrent of the swarms
          MaxPending,    \* policy.max_pending_messages
          MaxSends       \* bound: messages sent

Sessions == Members \cup {Root}

ASSUME SwarmAssumption == /\ Root \notin Members
                          /\ IsFiniteSet(Members)
                          /\ Parent \in [Members -> Sessions]
                          /\ MaxConcurrent \in Nat \ {0}
                          /\ MaxPending \in Nat \ {0}
                          /\ MaxSends \in Nat

VARIABLES limit,      \* policy.max_concurrent of this swarm, never changed
          phase,      \* where each member's run is
          byMessage,  \* members whose run was started for a message
          born,       \* authority.members
          requested,  \* slots with cancellation_requested
          status,     \* how the member's latest run ended
          pending,    \* length of mailbox.pending
          waking, wakeCancelled, stopped,  \* flags of the mailboxes
          task,       \* tasks spawned to wake a member
          releasing,  \* release_message_owner is about to be called
          host,       \* message_host is installed
          turn,       \* the root is in a turn
          ready,      \* SwarmMessageReady commands of this generation
          session,    \* of the root: open, or on its way to be replaced
          halted,     \* history: members of subtrees that were stopped
          stranded,   \* history: queues left behind by a start that failed or a close
          sent

runVars  == <<phase, byMessage, born, requested, status>>
mailVars == <<pending, waking, wakeCancelled, stopped>>
rootVars == <<limit, halted, host, turn, ready, session>>
vars == <<runVars, mailVars, task, releasing, rootVars, stranded, sent>>

(* reserved; activated for a message that is not yet taken; executing;     *)
(* ended; result recorded; the guard is being dropped.                     *)
Activated == {"initial", "running", "returned", "settled", "dropped"}
Slots == {m \in Members : phase[m] # "none"}
Activity == {m \in Members : phase[m] \in Activated}

TypeOK ==
    /\ limit \in 1..MaxConcurrent
    /\ phase \in [Members -> {"none", "starting"} \cup Activated]
    /\ byMessage \subseteq Slots /\ requested \subseteq Slots
    /\ born \subseteq Members /\ Activity \subseteq born
    /\ status \in [Members -> {"running", "completed", "failed", "cancelled"}]
    /\ pending \in [Sessions -> 0..MaxPending]
    /\ waking \subseteq Sessions /\ wakeCancelled \subseteq Sessions
    /\ stopped \subseteq Sessions
    /\ task \in [Members -> {"none", "spawned", "failing"}]
    /\ releasing \subseteq Sessions
    /\ host \in BOOLEAN /\ turn \in BOOLEAN /\ ready \in Nat
    /\ session \in {"open", "stopping", "closed"}
    /\ halted \subseteq Members
    /\ stranded \subseteq Sessions /\ sent \in 0..MaxSends

(* A root session, new or resumed: its members have no runs.               *)
Init ==
    /\ limit \in 1..MaxConcurrent
    /\ born \in {b \in SUBSET Members : \A m \in b : Parent[m] \in b \cup {Root}}
    /\ phase = [m \in Members |-> "none"] /\ byMessage = {} /\ requested = {}
    /\ status = [m \in Members |-> "completed"]
    /\ pending = [s \in Sessions |-> 0]
    /\ waking = {} /\ wakeCancelled = {} /\ stopped = {}
    /\ task = [m \in Members |-> "none"] /\ releasing = {}
    /\ host = TRUE /\ turn = FALSE /\ ready = 0 /\ session = "open"
    /\ halted = {} /\ stranded = {} /\ sent = 0

-----------------------------------------------------------------------------
(* The tree.                                                               *)
Lineage[s \in Sessions] == IF s = Root THEN {Root} ELSE {s} \cup Lineage[Parent[s]]
Below(s) == {m \in Members : m # s /\ s \in Lineage[m]}

(* Fault: only the owners that already have a slot are counted.            *)
OccupancyOfSlots == Cardinality(Slots)

(* swarm_occupancy: slots, and members whose queue has an owner.           *)
Occupancy == Cardinality(Slots \cup (waking \ {Root}))

(* swarm_scope_is_stopping                                                 *)
Stopping(s) == \E a \in Lineage[s] : a \in wakeCancelled \/ (a \in Activity \cap requested)

Executing(s) == IF s = Root THEN turn ELSE phase[s] = "running"

(* cancel_descendants                                                      *)
Descendants(s) == Below(s) \cap (born \cup {m \in Members : phase[m] = "starting"})
CancelWakes(s) == wakeCancelled \cup (waking \cap Below(s) \cap born)

Empty(ss) == [s \in Sessions |-> IF s \in ss THEN 0 ELSE pending[s]]
Move(m, p) == phase' = [phase EXCEPT ![m] = p]
DropSlot(m) == Move(m, "none") /\ byMessage' = byMessage \ {m}

(* wake_message_target: a command for the root, a task for a member.       *)
Wake(t) == IF t = Root THEN ready' = ready + 1 /\ UNCHANGED task
           ELSE task' = [task EXCEPT ![t] = "spawned"] /\ UNCHANGED ready

-----------------------------------------------------------------------------
(* enqueue_member_message, called by agent__send of s.                     *)

(* Fault: the owner that a finished run leaves is not seen.                *)
NeedsOwnerUnlessActive(t) == t \notin Slots

NeedsOwner(t) == t \notin Slots /\ t \notin waking

Send(s, t) ==
    /\ sent < MaxSends /\ sent' = sent + 1
    /\ Executing(s) /\ t \in born \cup {Root}
    /\ ~ Stopping(s) /\ ~ Stopping(t) /\ t \notin requested
    /\ s \notin stopped /\ host
    /\ t \notin stopped /\ (t # Root => status[t] # "cancelled")
    /\ pending[t] < MaxPending
    /\ NeedsOwner(t) /\ t # Root => Occupancy < limit
    /\ pending' = [pending EXCEPT ![t] = @ + 1]
    /\ IF NeedsOwner(t)
       THEN /\ waking' = waking \cup {t} /\ wakeCancelled' = wakeCancelled \ {t}
            /\ Wake(t) /\ stranded' = stranded \ {t}
       ELSE UNCHANGED <<waking, wakeCancelled, task, ready, stranded>>
    /\ UNCHANGED <<limit, halted, runVars, stopped, releasing, host, turn, session>>

(* Fault: an owner that another step has replaced meanwhile is dropped.    *)
ReleaseForgetting(s) ==
    /\ s \in releasing /\ releasing' = releasing \ {s}
    /\ wakeCancelled' = wakeCancelled \ {s} /\ waking' = waking \ {s}
    /\ UNCHANGED <<runVars, pending, stopped, task, rootVars, stranded, sent>>

(* release_message_owner: wakes the target again for what came in since.   *)
Release(s) ==
    /\ s \in releasing /\ releasing' = releasing \ {s}
    /\ wakeCancelled' = wakeCancelled \ {s}
    /\ IF s \notin stopped /\ pending[s] > 0
       THEN /\ waking' = waking \cup {s}
            /\ IF host THEN Wake(s) /\ UNCHANGED stranded
               ELSE stranded' = stranded \cup {s} /\ UNCHANGED <<task, ready>>
       ELSE waking' = waking \ {s} /\ UNCHANGED <<task, ready, stranded>>
    /\ UNCHANGED <<limit, halted, runVars, pending, stopped, host, turn, session, sent>>

-----------------------------------------------------------------------------
(* Starting a run: reserve_governed_run, activation, failure.              *)

Admitted(m, counted) ==
    /\ phase[m] = "none"
    /\ ~ Stopping(Parent[m]) /\ Parent[m] \notin stopped /\ m \notin stopped
    /\ counted < limit
    /\ Move(m, "starting")

(* The parent delegates to a new session or takes over a finished one.     *)
Reserve(m) ==
    /\ Executing(Parent[m])
    /\ m \in born => m \notin waking
    /\ Admitted(m, Occupancy)
    /\ UNCHANGED <<byMessage, born, requested, status, mailVars, task, releasing, rootVars,
                   stranded, sent>>

(* start_message_run: what the message's owner already occupies is not     *)
(* counted once more.                                                      *)
ReserveWoken(m) ==
    /\ task[m] = "spawned" /\ m \notin wakeCancelled
    /\ Admitted(m, IF m \in waking THEN 0 ELSE Occupancy)
    /\ byMessage' = byMessage \cup {m}
    /\ task' = [task EXCEPT ![m] = "none"]
    /\ UNCHANGED <<born, requested, status, mailVars, releasing, rootVars, stranded, sent>>

(* Any of the conditions above, a path lock, an unreadable transcript.     *)
WakeRefused(m) ==
    /\ task[m] = "spawned"
    /\ task' = [task EXCEPT ![m] = "failing"]
    /\ UNCHANGED <<runVars, mailVars, releasing, rootVars, stranded, sent>>

(* Fault: the member is not entered in the authority.                      *)
ActivateUnlisted(m) ==
    /\ phase[m] = "starting"
    /\ Move(m, IF m \in byMessage THEN "initial" ELSE "running")
    /\ status' = [status EXCEPT ![m] = "running"]
    /\ UNCHANGED <<byMessage, born, requested, mailVars, task, releasing, rootVars, stranded, sent>>

(* RunReservation::activate                                                *)
Activate(m) ==
    /\ phase[m] = "starting"
    /\ Move(m, IF m \in byMessage THEN "initial" ELSE "running")
    /\ born' = born \cup {m}
    /\ status' = [status EXCEPT ![m] = "running"]
    /\ UNCHANGED <<byMessage, requested, mailVars, task, releasing, rootVars, stranded, sent>>

(* The setup fails and the reservation is dropped, with its slot only.     *)
StartFails(m) ==
    /\ phase[m] = "starting"
    /\ DropSlot(m) /\ requested' = requested \ {m}
    /\ IF m \in byMessage
       THEN task' = [task EXCEPT ![m] = "failing"] /\ UNCHANGED stranded
       ELSE /\ stranded' = IF pending[m] > 0 THEN stranded \cup {m} ELSE stranded
            /\ UNCHANGED task
    /\ UNCHANGED <<born, status, mailVars, releasing, rootVars, sent>>

(* Fault: the messages fail and the owner is kept.                         *)
FailWokenKeeping(m) ==
    /\ task[m] = "failing" /\ task' = [task EXCEPT ![m] = "none"]
    /\ pending' = Empty({m}) /\ UNCHANGED releasing
    /\ UNCHANGED <<runVars, waking, wakeCancelled, stopped, rootVars, stranded, sent>>

(* fail_member_messages of the task whose run did not start.               *)
FailWoken(m) ==
    /\ task[m] = "failing" /\ task' = [task EXCEPT ![m] = "none"]
    /\ pending' = Empty({m})
    /\ releasing' = IF m \in Slots THEN releasing ELSE releasing \cup {m}
    /\ UNCHANGED <<runVars, waking, wakeCancelled, stopped, rootVars, stranded, sent>>

-----------------------------------------------------------------------------
(* The run.                                                                *)

Return(m, s) == Move(m, "returned") /\ status' = [status EXCEPT ![m] = s]

(* take_member_message, of a mailbox that is not stopped.                  *)
Take(s) == /\ waking' = waking \ {s}
           /\ pending' = [pending EXCEPT ![s] = IF @ = 0 THEN 0 ELSE @ - 1]

(* The first message of a run that was started for one.                    *)
TakeInitial(m) ==
    /\ phase[m] = "initial"
    /\ IF m \in stopped THEN UNCHANGED <<waking, pending>> ELSE Take(m)
    /\ IF m \in stopped \/ pending[m] = 0 THEN Return(m, "failed")
       ELSE Move(m, "running") /\ UNCHANGED status
    /\ UNCHANGED <<byMessage, born, requested, wakeCancelled, stopped, task, releasing,
                   rootVars, stranded, sent>>

(* The end of a turn: another one for the next message, or the result.     *)
TurnEnds(m) ==
    /\ phase[m] = "running"
    /\ IF m \in stopped THEN UNCHANGED <<waking, pending>> ELSE Take(m)
    /\ IF m \in stopped \/ pending[m] = 0 THEN Return(m, "completed")
       ELSE UNCHANGED <<phase, status>>
    /\ stranded' = stranded \ {m}
    /\ UNCHANGED <<byMessage, born, requested, wakeCancelled, stopped, task, releasing,
                   rootVars, sent>>

(* The execution fails or its deadline passes.                             *)
Fail(m) ==
    /\ phase[m] \in {"initial", "running"}
    /\ Return(m, "failed")
    /\ UNCHANGED <<byMessage, born, requested, mailVars, task, releasing, rootVars, stranded, sent>>

(* The run's cancel receiver has the signal of its slot.                   *)
Cancelled(m) ==
    /\ phase[m] \in {"initial", "running"} /\ m \in requested
    /\ Return(m, "cancelled")
    /\ UNCHANGED <<byMessage, born, requested, mailVars, task, releasing, rootVars, stranded, sent>>

(* settle_message_run of a run that did not succeed.                       *)
SettleAs(m, s) ==
    /\ status' = [status EXCEPT ![m] = s]
    /\ IF s = "completed" THEN UNCHANGED <<requested, mailVars, stranded>>
       ELSE /\ requested' = requested \cup {m} \cup (Slots \cap Below(m))
            /\ wakeCancelled' = CancelWakes(m)
            /\ pending' = Empty({m}) /\ stranded' = stranded \ {m}
            /\ stopped' = IF s = "cancelled" THEN stopped \cup {m} ELSE stopped
            /\ UNCHANGED waking

Settle(m) ==
    /\ phase[m] = "returned"
    /\ Move(m, "settled")
    /\ SettleAs(m, status[m])
    /\ UNCHANGED <<byMessage, born, task, releasing, rootVars, sent>>

(* A record of the result cannot be written: the run has failed.           *)
RecordFails(m) ==
    /\ phase[m] = "settled" /\ status[m] # "failed"
    /\ UNCHANGED phase
    /\ SettleAs(m, "failed")
    /\ UNCHANGED <<byMessage, born, task, releasing, rootVars, sent>>

(* ActiveRunGuard::complete: the slot goes, the queue keeps an owner.      *)
Complete(m) ==
    /\ phase[m] = "settled"
    /\ DropSlot(m)
    /\ IF status[m] = "completed"
       THEN requested' = requested \ {m} /\ UNCHANGED wakeCancelled
       ELSE /\ requested' = (requested \cup (Slots \cap Below(m))) \ {m}
            /\ wakeCancelled' = CancelWakes(m)
    /\ waking' = waking \cup {m}
    /\ releasing' = releasing \cup {m}
    /\ UNCHANGED <<born, status, pending, stopped, task, rootVars, stranded, sent>>

-----------------------------------------------------------------------------
(* Stopping.                                                               *)

(* stop_swarm_members: the mailboxes of the scope are closed and emptied,  *)
(* the root's is emptied only; the slots are cancelled.                    *)
StopScope(scope, slots) ==
    /\ stopped' = stopped \cup (scope \ {Root})
    /\ pending' = Empty(scope) /\ stranded' = stranded \ (scope \ waking)
    /\ waking' = waking \ (scope \cap {Root})
    /\ requested' = requested \cup slots

Subtree(m) == {m} \cup (Below(m) \cap born)

(* Fault: the runs that are being started in the scope are not cancelled.  *)
StopRunActivated(m) ==
    /\ StopScope(Subtree(m), Subtree(m) \cap Activity)
    /\ wakeCancelled' = CancelWakes(m) /\ halted' = halted \cup {m} \cup Below(m)

(* stop_swarm_members of a run, with cancel_descendants.                   *)
StopRun(m) ==
    /\ StopScope(Subtree(m), Slots \cap ({m} \cup Below(m)))
    /\ wakeCancelled' = CancelWakes(m) /\ halted' = halted \cup {m} \cup Below(m)

(* agent__cancel, called above a run that is activated.                    *)
CancelRun(m) ==
    /\ m \in Activity
    /\ \E a \in Lineage[m] \ {m} : Executing(a)
    /\ StopRun(m)
    /\ UNCHANGED <<limit, phase, byMessage, born, status, task, releasing, host, turn, ready,
                   session, sent>>

(* ActiveRunGuard::drop of a task that is dropped where it awaits: the     *)
(* scope is stopped, the abort recorded, and the slot and the owner go.    *)
DropRun(m) ==
    /\ phase[m] \in {"initial", "running"}
    /\ Move(m, "dropped") /\ status' = [status EXCEPT ![m] = "cancelled"]
    /\ StopRun(m)
    /\ UNCHANGED <<limit, byMessage, born, task, releasing, host, turn, ready, session, sent>>

Dropped(m) ==
    /\ phase[m] = "dropped"
    /\ DropSlot(m)
    /\ requested' = (requested \cup (Slots \cap Below(m))) \ {m}
    /\ wakeCancelled' = CancelWakes(m) /\ waking' = waking \ {m}
    /\ UNCHANGED <<born, status, pending, stopped, task, releasing, rootVars, stranded, sent>>

-----------------------------------------------------------------------------
(* The root's session engine.  It does one thing at a time.                *)
Engine == Root \notin releasing /\ session = "open"

(* A prompt, or a background result; the turn installs the message host.   *)
BeginTurn ==
    /\ Engine /\ ~ turn /\ turn' = TRUE /\ host' = TRUE
    /\ UNCHANGED <<limit, halted, runVars, mailVars, task, releasing, ready, session, stranded, sent>>

TakeForRoot == IF Root \in stopped THEN UNCHANGED <<waking, pending>> ELSE Take(Root)

(* Fault: the command is taken for a message, and the queue not looked at. *)
TakeReadyBlindly ==
    /\ Engine /\ ~ turn /\ ready > 0 /\ ready' = ready - 1
    /\ UNCHANGED <<waking, pending, stranded, turn, host>>
    /\ UNCHANGED <<limit, halted, runVars, wakeCancelled, stopped, task, releasing, session, sent>>

(* SwarmMessageReady, while no turn runs.                                  *)
TakeReady ==
    /\ Engine /\ ~ turn /\ ready > 0 /\ ready' = ready - 1
    /\ TakeForRoot
    /\ turn' = (Root \notin stopped /\ pending[Root] > 0)
    /\ host' = (host \/ turn') /\ stranded' = stranded \ {Root}
    /\ UNCHANGED <<limit, halted, runVars, wakeCancelled, stopped, task, releasing, session, sent>>

(* The end of a turn takes the next message, or there is none.             *)
RootTurnEnds ==
    /\ Engine /\ turn
    /\ TakeForRoot
    /\ turn' = (Root \notin stopped /\ pending[Root] > 0)
    /\ stranded' = stranded \ {Root}
    /\ UNCHANGED <<limit, halted, runVars, wakeCancelled, stopped, task, releasing, host, ready, session, sent>>

(* A turn that failed, or has no credentials, fails the queued messages.   *)
RootTurnFails ==
    /\ Engine /\ turn /\ turn' = FALSE
    /\ pending' = Empty({Root}) /\ releasing' = releasing \cup {Root}
    /\ stranded' = stranded \ {Root}
    /\ UNCHANGED <<limit, halted, runVars, waking, wakeCancelled, stopped, task, host, ready, session, sent>>

(* The user interrupts the turn, or a prompt preempts it: the messages     *)
(* stay for the next turn, without a command that asks for one.            *)
RootInterrupted ==
    /\ Engine /\ turn /\ turn' = FALSE
    /\ stranded' = IF pending[Root] > 0 THEN stranded \cup {Root} ELSE stranded
    /\ UNCHANGED <<limit, halted, runVars, mailVars, task, releasing, host, ready, session, sent>>

(* close_swarm_sessions: the session is replaced, reloaded or ended.       *)
Close ==
    /\ Engine /\ ~ turn /\ session' = "stopping"
    /\ StopScope(born \cup {Root}, Slots \cap born)
    /\ wakeCancelled' = wakeCancelled \ {Root}
    /\ UNCHANGED <<limit, halted, phase, byMessage, born, status, task, releasing, host, turn, ready, sent>>

CancelAll ==
    /\ session = "stopping" /\ session' = "closed"
    /\ requested' = Slots
    /\ stopped' = stopped \cup {Root} /\ host' = FALSE
    /\ UNCHANGED <<limit, halted, phase, byMessage, born, status, pending, waking, wakeCancelled, task,
                   releasing, turn, ready, stranded, sent>>

Settled == Slots = {} /\ waking \cap Members = {}

(* wait_until_idle, resume_swarm and install_message_host; the commands of *)
(* the generation before are skipped.                                      *)
Resume ==
    /\ session = "closed" /\ Settled /\ waking = {} /\ session' = "open"
    /\ pending' = Empty(Sessions)
    /\ waking' = {} /\ wakeCancelled' = {} /\ stopped' = {} /\ stranded' = {}
    /\ halted' = {} /\ host' = TRUE /\ ready' = 0
    /\ UNCHANGED <<limit, runVars, task, releasing, turn, sent>>

(* The swarm has not settled in three seconds, or resume_swarm refuses: the *)
(* session stays as it is, its root stopped.                                *)
GiveUp ==
    /\ session = "closed" /\ (~ Settled \/ Root \in waking) /\ session' = "open"
    /\ UNCHANGED <<limit, halted, runVars, mailVars, task, releasing, host, turn, ready, stranded, sent>>

-----------------------------------------------------------------------------
Launch(m) == Reserve(m) \/ ReserveWoken(m) \/ WakeRefused(m) \/ Activate(m) \/ StartFails(m)
             \/ FailWoken(m)
Work(m) == TakeInitial(m) \/ TurnEnds(m) \/ Fail(m) \/ Cancelled(m)
Finish(m) == Settle(m) \/ RecordFails(m) \/ Complete(m) \/ DropRun(m) \/ Dropped(m)
RootStep == BeginTurn \/ TakeReady \/ RootTurnEnds \/ RootTurnFails \/ RootInterrupted
            \/ Close \/ CancelAll \/ Resume \/ GiveUp

Next ==
    \/ \E s \in Sessions : Release(s) \/ \E t \in Sessions : Send(s, t)
    \/ \E m \in Members : Launch(m) \/ Work(m) \/ Finish(m) \/ CancelRun(m)
    \/ RootStep

Spec == Init /\ [][Next]_vars

(* Tasks that are ready are polled.  Every run of a swarm has a deadline   *)
(* (run_timeout_secs), so its execution ends; the root's turns need not.   *)
Fairness ==
    /\ \A s \in Sessions : WF_vars(Release(s))
    /\ \A m \in Members : WF_vars(ReserveWoken(m) \/ WakeRefused(m) \/ FailWoken(m))
                          /\ WF_vars(Activate(m) \/ StartFails(m))
                          /\ WF_vars(TakeInitial(m) \/ Fail(m) \/ Cancelled(m))
                          /\ WF_vars(Settle(m) \/ Complete(m) \/ Dropped(m))
    /\ WF_vars(CancelAll)

FairSpec == Spec /\ Fairness

-----------------------------------------------------------------------------
(* No more members run, start or are being woken than the policy allows:   *)
(* a wake's place passes to its run and back without being taken twice.    *)
CapacityKept == Cardinality(Slots \cup (waking \ {Root})) <= limit

Owners(m) == (IF m \in Slots THEN 1 ELSE 0) + (IF task[m] # "none" THEN 1 ELSE 0)
             + (IF m \in releasing THEN 1 ELSE 0)

(* A member's queue has one owner at most, its run, its wake or its        *)
(* releaser, and has one as long as it is marked as waking or holds        *)
(* messages, other than those a takeover that failed to start left there;  *)
(* the root's has a turn or a command of the engine that will look at it.  *)
QueueHasOneOwner ==
    /\ \A m \in Members : /\ Owners(m) <= 1
                          /\ m \in waking \/ pending[m] > 0 => Owners(m) = 1 \/ m \in stranded
    /\ Root \notin stopped /\ Root \notin releasing \cup stranded =>
           /\ Root \in waking => ready > 0
           /\ pending[Root] > 0 => turn \/ ready > 0

(* Once a run is cancelled or dropped, nothing of its member and of all    *)
(* below it runs uncancelled as long as the session is not resumed: what   *)
(* was being started then is cancelled, and no delegation, takeover or     *)
(* message starts anything new there.                                      *)
StopReachesSubtree == Slots \cap halted \subseteq requested

(* A message for a member is taken by a run or failed, unless it is left   *)
(* behind by a takeover that failed to start, or by a release after the    *)
(* close, which finds nobody to wake the member.                           *)
MessagesSettle ==
    \A m \in Members : (pending[m] > 0 /\ m \notin stranded)
                          ~> (pending[m] = 0 \/ m \in stranded)

(* A swarm that is closed comes to rest, or is opened again, unless a queue *)
(* has been left behind.                                                    *)
ClosedSettles == (Root \in stopped) ~> (Settled \/ Root \notin stopped \/ stranded # {})
=============================================================================
