---------------------------- MODULE SubagentPool ----------------------------
(***************************************************************************)
(* The life of delegated runs in the subagent pool (src/subagent/pool.rs), *)
(* expert mode: every run is started by the one parent session.  A run is  *)
(* driven by its own task; the pool state is behind a mutex and each step  *)
(* below is one critical section, one file append, or one poll of the      *)
(* child's execution.  The process may die between any two of them; the    *)
(* session is then resumed from the transcripts alone.                     *)
(*                                                                         *)
(* The transcripts are reduced to what is read back: the last lifecycle    *)
(* record of each run in its child's transcript, the last record of each   *)
(* run and of each child in the parent's.  An append may fail (at most     *)
(* MaxFaults times); it then leaves nothing, a torn line, or the whole     *)
(* record whose sync failed, and the recorder refuses every later append.  *)
(* budget_exhausted and timed_out behave as failed does: not told apart.   *)
(* Changes made by shell commands leave no record by design and are out of *)
(* the model.                                                              *)
(***************************************************************************)
EXTENDS PathScope, FiniteSets

CONSTANT Runs,       \* run ids, each generated once
         Children,   \* child session ids
         NoChild,
         Accesses,   \* the locks the parent's delegations ask for
         MaxFaults,  \* bound: appends, readings and file tools that fail
         MaxDeaths   \* bound: deaths of the process

ASSUME PoolAssumption == /\ NoChild \notin Children
                         /\ Accesses \subseteq Access
                         /\ MaxFaults \in Nat /\ MaxDeaths \in Nat

VARIABLES pc,           \* where each run's task is
          active,       \* runs with a slot in active_by_run
          completed,    \* completed_by_run
          access,       \* slot.path_access (kept, to compare, when the slot is gone)
          target,       \* slot.takeover_child_session_id
          child,        \* the child session a run works in
          eligible,     \* takeovers whose target was listed as terminal
          requested,    \* slot.cancellation_requested
          armed,        \* runs whose slot holds the cancel sender
          signalled,    \* runs whose cancel receiver has the signal
          status,       \* the summary's status, once the execution ended
          touched,      \* files the execution changed
          recording,    \* the change among them whose record is to follow
          logged,       \* changed files the child transcript names
          unaudited,    \* history: changes no record names, or none was compared
          childStatus,  \* last lifecycle status of the run, child transcript
          parentStatus, \* last status of the run, parent transcript
          listed,       \* last status of the child, parent transcript
          sick,         \* runs whose child recorder is poisoned
          current,      \* runs recorded as started in the active turn
          parentSick,   \* the parent's recorder is poisoned
          torn,         \* child transcripts that end in a partial line
          up,           \* the session is open, not being resumed
          deaths,
          old,          \* history: runs without a result when their turn ended
          told,         \* history: results published while the parent's recorder worked
          faults

poolVars   == <<active, completed, access, target>>
cancelVars == <<requested, armed, signalled>>
workVars   == <<touched, recording, logged, unaudited>>
childLog   == <<childStatus, sick, torn>>
parentLog  == <<parentStatus, listed, current, parentSick>>
sessionVars == <<up, deaths, old, told>>
vars == <<pc, poolVars, child, eligible, cancelVars, status, workVars,
          childLog, parentLog, sessionVars, faults>>

None == "none"
Statuses == {"completed", "failed", "cancelled"}
Recorded == Statuses \cup {None, "running"}

(* start_run up to the activation, or to its failure; the execution; what  *)
(* follows it.  Then the slot is gone ("held": the child's recorder is not *)
(* yet dropped).                                                           *)
Starting == {"reserved", "listed", "ready", "starting"}
Running  == {"waiting", "polled"}
Aborting == {"startFailed", "aborting", "aborted"}
Ending   == {"ended", "settled", "childDone", "amending", "recorded"}
InFlight == Starting \cup Running \cup Aborting \cup Ending
Opened   == {"ready", "starting", "held"} \cup Running \cup Aborting \cup Ending
Working  == Opened \ {"aborting", "aborted", "amending", "recorded", "held"}

TypeOK ==
    /\ pc \in [Runs -> InFlight \cup {"none", "held", "done"}]
    /\ active \subseteq Runs
    /\ completed \in [Runs -> Statuses \cup {None}]
    /\ access \in [Runs -> Access]
    /\ target \in [Runs -> Children \cup {NoChild}]
    /\ child \in [Runs -> Children \cup {NoChild}]
    /\ eligible \subseteq Runs
    /\ requested \subseteq Runs /\ armed \subseteq Runs /\ signalled \subseteq Runs
    /\ status \in [Runs -> Statuses \cup {None}]
    /\ touched \in [Runs -> SUBSET Paths] /\ recording \in [Runs -> SUBSET Paths]
    /\ logged \in [Runs -> SUBSET Paths] /\ unaudited \in [Runs -> SUBSET Paths]
    /\ childStatus \in [Runs -> Recorded] /\ parentStatus \in [Runs -> Recorded]
    /\ listed \in [Children -> Recorded]
    /\ sick \subseteq Runs /\ torn \subseteq Children
    /\ current \subseteq Runs /\ old \subseteq Runs /\ told \subseteq Runs /\ up \in BOOLEAN
    /\ deaths \in 0..MaxDeaths
    /\ parentSick \in BOOLEAN /\ faults \in 0..MaxFaults

(* The parent is new, or it has been resumed and lists finished children.  *)
Init ==
    /\ pc = [r \in Runs |-> "none"]
    /\ active = {} /\ completed = [r \in Runs |-> None]
    /\ access = [r \in Runs |-> ToolFreeAccess]
    /\ target = [r \in Runs |-> NoChild] /\ child = [r \in Runs |-> NoChild]
    /\ eligible = {} /\ requested = {} /\ armed = {} /\ signalled = {}
    /\ status = [r \in Runs |-> None]
    /\ touched = [r \in Runs |-> {}] /\ recording = [r \in Runs |-> {}]
    /\ logged = [r \in Runs |-> {}] /\ unaudited = [r \in Runs |-> {}]
    /\ childStatus = [r \in Runs |-> None] /\ parentStatus = [r \in Runs |-> None]
    /\ listed \in [Children -> {None, "completed"}]
    /\ sick = {} /\ torn = {} /\ parentSick = FALSE /\ faults = 0
    /\ current = {} /\ old = {} /\ told = {} /\ up = TRUE /\ deaths = 0

Goto(r, step) == pc' = [pc EXCEPT ![r] = step]

(* The slot goes with all it holds, the task with its cancel receiver.     *)
DropSlot(r) ==
    /\ active' = active \ {r}
    /\ target' = [target EXCEPT ![r] = NoChild]
    /\ requested' = requested \ {r} /\ armed' = armed \ {r} /\ signalled' = signalled \ {r}

-----------------------------------------------------------------------------
(* Transcript appends.                                                     *)

Fault == faults < MaxFaults /\ faults' = faults + 1

AppendChild(r, s) ==
    /\ r \notin sick
    /\ childStatus' = [childStatus EXCEPT ![r] = s]
    /\ UNCHANGED <<sick, torn, faults>>

AppendChildFails(r, s) ==
    \/ r \in sick /\ UNCHANGED <<childLog, faults>>
    \/ /\ r \notin sick /\ Fault
       /\ sick' = sick \cup {r}
       /\ \/ childStatus' \in {childStatus, [childStatus EXCEPT ![r] = s]} /\ torn' = torn
          \/ childStatus' = childStatus /\ torn' = torn \cup {child[r]}

ParentShows(r, s) ==
    /\ parentStatus' = [parentStatus EXCEPT ![r] = s]
    /\ listed' = [listed EXCEPT ![child[r]] = s]
    /\ current' = IF s = "running" THEN current \cup {r} ELSE current

AppendParent(r, s) ==
    ~ parentSick /\ ParentShows(r, s) /\ UNCHANGED <<parentSick, faults>>

(* Only a record that is synced can be in the file and still be refused.   *)
AppendParentFails(r, s, synced) ==
    \/ parentSick /\ UNCHANGED <<parentLog, faults>>
    \/ /\ ~ parentSick /\ Fault /\ parentSick' = TRUE
       /\ \/ UNCHANGED <<parentStatus, listed, current>>
          \/ synced /\ ParentShows(r, s)

(* The writer lock of a child's transcript is held by its open recorder,   *)
(* and given up when the recorder is poisoned.                             *)
Holds(r, c) == pc[r] \in Opened /\ child[r] = c /\ r \notin sick
WriterLocked(c) == \E r \in Runs : Holds(r, c)

-----------------------------------------------------------------------------
(* start_run                                                               *)

(* Fault: the locks of slots that are not activated are not compared.      *)
LockAvailableBesideStarting(acc) ==
    \A q \in active : pc[q] \notin Starting => ~ Conflict(acc, access[q])

LockAvailable(acc) == \A q \in active : ~ Conflict(acc, access[q])

(* Fault: a takeover that is not activated yet is not seen.                *)
FreeOfActivated(c) ==
    \A q \in active : pc[q] \in Starting \cup Aborting \/ child[q] # c

(* No active slot takes over c or works in it; a slot names its child only *)
(* once it is activated.                                                   *)
TakeoverFree(c) ==
    \A q \in active : target[q] # c /\ (pc[q] \in Starting \cup Aborting \/ child[q] # c)

(* reserve_governed_run.  t is the session to take over, or NoChild.       *)
Reserve(r, acc, t) ==
    /\ up /\ pc[r] = "none"
    /\ LockAvailable(acc)
    /\ t # NoChild => TakeoverFree(t)
    /\ active' = active \cup {r}
    /\ access' = [access EXCEPT ![r] = acc]
    /\ target' = [target EXCEPT ![r] = t]
    /\ Goto(r, "reserved")
    /\ UNCHANGED <<completed, child, eligible, cancelVars, status, workVars, sessionVars,
                   childLog, parentLog, faults>>

(* existing_children: projected from the parent's transcript.              *)
List(r) ==
    /\ pc[r] = "reserved"
    /\ eligible' = IF target[r] # NoChild /\ listed[target[r]] \in Statuses
                   THEN eligible \cup {r} ELSE eligible
    /\ Goto(r, "listed")
    /\ UNCHANGED <<poolVars, child, cancelVars, status, workVars, sessionVars, childLog,
                   parentLog, faults>>

Unused(c) == listed[c] = None /\ \A q \in Runs : child[q] # c /\ target[q] # c

(* Fault: the transcript is opened although another recorder writes it.    *)
MayOpenLocked(r, c) ==
    IF target[r] = NoChild THEN Unused(c)
    ELSE c = target[r] /\ r \in eligible /\ c \notin torn

(* A fresh session gets a new transcript; a takeover opens its target's,   *)
(* which must be terminal, end in a whole line and have no open recorder.  *)
MayOpen(r, c) ==
    IF target[r] = NoChild THEN Unused(c)
    ELSE c = target[r] /\ r \in eligible /\ c \notin torn /\ ~ WriterLocked(c)

Setup(r, c) ==
    /\ pc[r] = "listed"
    /\ MayOpen(r, c)
    /\ child' = [child EXCEPT ![r] = c]
    /\ AppendChild(r, "running")
    /\ eligible' = eligible \ {r}
    /\ Goto(r, "ready")
    /\ UNCHANGED <<poolVars, cancelVars, status, workVars, sessionVars,
                   parentLog>>

DropReservation(r) ==
    /\ DropSlot(r)
    /\ eligible' = eligible \ {r}
    /\ Goto(r, "done")

(* An error before the first append: the route is gone, the role differs,  *)
(* the target is not eligible, its transcript is open or damaged.          *)
SetupRefused(r) ==
    /\ pc[r] = "listed"
    /\ DropReservation(r)
    /\ UNCHANGED <<completed, access, child, status, workVars, sessionVars, childLog,
                   parentLog, faults>>

(* An append of the setup fails: the recorder is dropped with the slot.    *)
SetupFails(r, c) ==
    /\ pc[r] = "listed"
    /\ MayOpen(r, c)
    /\ child' = [child EXCEPT ![r] = c]
    /\ Fault
    /\ sick' = sick \cup {r}
    /\ childStatus' \in {childStatus, [childStatus EXCEPT ![r] = "running"]}
    /\ torn' \in {torn, torn \cup {c}}
    /\ DropReservation(r)
    /\ UNCHANGED <<completed, access, status, workVars, sessionVars, parentLog>>

RecordStart(r) ==
    /\ pc[r] = "ready"
    /\ AppendParent(r, "running")
    /\ Goto(r, "starting")
    /\ UNCHANGED <<poolVars, child, eligible, cancelVars, status, workVars, sessionVars,
                   childLog>>

RecordStartFails(r) ==
    /\ pc[r] = "ready"
    /\ AppendParentFails(r, "running", FALSE)
    /\ status' = [status EXCEPT ![r] = "failed"]
    /\ Goto(r, "startFailed")
    /\ UNCHANGED <<poolVars, child, eligible, cancelVars, workVars, sessionVars,
                   childLog>>

(* The child's failure is recorded if possible; an error is ignored.       *)
AbortChild(r) ==
    /\ pc[r] = "startFailed"
    /\ AppendChild(r, "failed") \/ AppendChildFails(r, "failed")
    /\ Goto(r, "aborting")
    /\ UNCHANGED <<poolVars, child, eligible, cancelVars, status, workVars, sessionVars,
                   parentLog>>

(* The parent's transcript is repaired and opened once more for the start  *)
(* and the result, while its own recorder stays poisoned.                  *)
AbortParent(r) ==
    /\ pc[r] = "aborting"
    /\ \/ ParentShows(r, "failed") /\ UNCHANGED faults
       \/ /\ Fault
          /\ UNCHANGED <<parentStatus, listed, current>> \/ ParentShows(r, "running")
    /\ Goto(r, "aborted")
    /\ UNCHANGED <<poolVars, child, eligible, cancelVars, status, workVars, sessionVars,
                   childLog, parentSick>>

ActivateSlot(r, cancelled) ==
    /\ pc[r] = "starting"
    /\ IF cancelled
       THEN signalled' = signalled \cup {r} /\ UNCHANGED armed
       ELSE armed' = armed \cup {r} /\ UNCHANGED signalled
    /\ Goto(r, "waiting")
    /\ UNCHANGED <<poolVars, child, eligible, requested, status, workVars, sessionVars,
                   childLog, parentLog, faults>>

(* Fault: a cancellation requested before the activation is forgotten.     *)
ActivateForgetting(r) == ActivateSlot(r, FALSE)

(* The slot gets the cancel sender; a pending request fires it at once.    *)
Activate(r) == ActivateSlot(r, r \in requested)

-----------------------------------------------------------------------------
(* Cancellation                                                            *)

Cancel(rs) ==
    /\ requested' = requested \cup rs
    /\ armed' = armed \ rs
    /\ signalled' = signalled \cup (armed \cap rs)
    /\ UNCHANGED <<pc, poolVars, child, eligible, status, workVars, sessionVars, childLog,
                   parentLog, faults>>

CancelRun(r) == r \in active /\ Cancel({r})

(* cancel_active_run_ids: the session is interrupted or closed.            *)
CancelActive == active # {} /\ Cancel(active)

-----------------------------------------------------------------------------
(* complete_started_run                                                    *)

PollUnless(r, cancelled) ==
    /\ pc[r] = "waiting"
    /\ IF cancelled
       THEN Goto(r, "ended") /\ status' = [status EXCEPT ![r] = "cancelled"]
       ELSE Goto(r, "polled") /\ UNCHANGED status
    /\ UNCHANGED <<poolVars, child, eligible, cancelVars, workVars, sessionVars, childLog,
                   parentLog, faults>>

(* Fault: the select polls the execution first and nothing after it.       *)
PollExecutionOnly(r) == PollUnless(r, FALSE)

(* The biased select looks at the cancel receiver before the execution.    *)
Poll(r) == PollUnless(r, r \in signalled)

(* A file tool changes a file; its record follows in a step of its own,    *)
(* which the execution may not live to take.  Only agents that take a      *)
(* write lock have such tools.                                             *)
Touch(r, path) ==
    /\ pc[r] = "polled" /\ recording[r] = {}
    /\ access[r].mode = "write"
    /\ touched' = [touched EXCEPT ![r] = @ \cup {path}]
    /\ recording' = [recording EXCEPT ![r] = {path}]
    /\ UNCHANGED <<pc, poolVars, child, eligible, cancelVars, status, sessionVars, logged,
                   unaudited, childLog, parentLog, faults>>

RecordsChange(r) ==
    /\ pc[r] = "polled" /\ recording[r] # {} /\ r \notin sick
    /\ UNCHANGED <<pc, poolVars, child, eligible, cancelVars, status, sessionVars,
                   touched, childStatus, parentLog>>

NamePath(r) == logged' = [logged EXCEPT ![r] = @ \cup recording[r]]

(* The finished call's record names the path (collect_tool_output_paths).  *)
LogChange(r) ==
    /\ RecordsChange(r) /\ NamePath(r)
    /\ recording' = [recording EXCEPT ![r] = {}]
    /\ unaudited' = [unaudited EXCEPT ![r] = @ \ recording[r]]
    /\ UNCHANGED <<sick, torn, faults>>

(* The tool failed when it had changed the file, as a patch that stops     *)
(* half-way does: the output of a failed call names no path.               *)
LogUnnamed(r) ==
    /\ RecordsChange(r) /\ Fault
    /\ recording' = [recording EXCEPT ![r] = {}]
    /\ unaudited' = [unaudited EXCEPT ![r] = @ \cup (recording[r] \ logged[r])]
    /\ UNCHANGED <<logged, sick, torn>>

LogChangeFails(r) ==
    /\ RecordsChange(r) /\ Fault /\ sick' = sick \cup {r}
    /\ \/ logged' = logged /\ torn' \in {torn, torn \cup {child[r]}}
       \/ NamePath(r) /\ torn' = torn
    /\ UNCHANGED <<recording, unaudited>>

Yield(r) ==
    /\ pc[r] = "polled"
    /\ Goto(r, "waiting")
    /\ UNCHANGED <<poolVars, child, eligible, cancelVars, status, workVars, sessionVars,
                   childLog, parentLog, faults>>

(* The execution returns; it does not succeed past a failed append.        *)
EndExecution(r, s) ==
    /\ pc[r] = "polled"
    /\ s = "completed" => recording[r] = {} /\ r \notin sick
    /\ status' = [status EXCEPT ![r] = s]
    /\ Goto(r, "ended")
    /\ UNCHANGED <<poolVars, child, eligible, cancelVars, workVars, sessionVars, childLog,
                   parentLog, faults>>

(* What the whole transcript names as changed, by the runs that were taken *)
(* over included.                                                          *)
Observed(r) == UNION {logged[q] : q \in {p \in Runs : child[p] = child[r]}}

(* enforce_write_scope, validate_write_lock_coverage and clear_cancel.     *)
(* Within the lock a writer still fails if its scope is narrower, or if it *)
(* names other files in its own report.                                    *)
CheckAgainstLock(r, changed) ==
    /\ pc[r] = "ended"
    /\ \/ Unlocked(access[r], changed) = {} /\ UNCHANGED status
       \/ access[r].mode = "write" /\ status' = [status EXCEPT ![r] = "failed"]
    /\ armed' = armed \ {r}
    /\ Goto(r, "settled")
    /\ UNCHANGED <<poolVars, child, eligible, requested, signalled, sessionVars, touched,
                   recording, logged, childLog, parentLog>>

(* Fault: the changes are not compared with the lock.                      *)
CheckNothing(r) == CheckAgainstLock(r, {}) /\ UNCHANGED <<unaudited, faults>>

CheckChanges(r) == CheckAgainstLock(r, Observed(r)) /\ UNCHANGED <<unaudited, faults>>

(* observed_changed_paths_from_child_transcript cannot read the transcript *)
(* (its tail may be cut inside a character, or the reading fails): the     *)
(* list is empty, nothing is compared, and what the run says of itself     *)
(* stands.                                                                 *)
CheckUnread(r) ==
    /\ CheckAgainstLock(r, {})
    /\ (child[r] \in torn /\ UNCHANGED faults) \/ Fault
    /\ unaudited' = [unaudited EXCEPT ![r] = touched[r]]

GiveUp(r, step) ==
    /\ pc[r] \in Running
    /\ status' = [status EXCEPT ![r] = "cancelled"]
    /\ Goto(r, step)
    /\ UNCHANGED <<poolVars, child, eligible, cancelVars, workVars, sessionVars, childLog,
                   parentLog, faults>>

(* Fault: the guard is dropped without recording the cancellation.         *)
DropSilently(r) == GiveUp(r, "recorded")

(* The task is aborted or panics: ActiveRunGuard::drop records and         *)
(* publishes the cancellation, as below, without looking at the changes.   *)
DropRun(r) == GiveUp(r, "settled")

RecordChild(r) ==
    /\ pc[r] = "settled"
    /\ \/ AppendChild(r, status[r]) /\ UNCHANGED status
       \/ AppendChildFails(r, status[r]) /\ status' = [status EXCEPT ![r] = "failed"]
    /\ Goto(r, "childDone")
    /\ UNCHANGED <<poolVars, child, eligible, cancelVars, workVars, sessionVars,
                   parentLog>>

RecordParent(r) ==
    /\ pc[r] = "childDone"
    /\ AppendParent(r, status[r])
    /\ Goto(r, "recorded")
    /\ UNCHANGED <<poolVars, child, eligible, cancelVars, status, workVars, sessionVars,
                   childLog>>

RecordParentRefused(r, s, step) ==
    /\ pc[r] = "childDone"
    /\ AppendParentFails(r, status[r], TRUE)
    /\ status' = [status EXCEPT ![r] = s]
    /\ Goto(r, step)
    /\ UNCHANGED <<poolVars, child, eligible, cancelVars, workVars, sessionVars,
                   childLog>>

(* Fault: the result is published as it was although it was not recorded.  *)
RecordParentIgnored(r) == RecordParentRefused(r, status[r], "amending")

(* Fault: the child's transcript keeps the status it already shows.        *)
RecordParentUnamended(r) == RecordParentRefused(r, "failed", "recorded")

RecordParentFails(r) == RecordParentRefused(r, "failed", "amending")

(* The child's completion is recorded again, as a failure.                 *)
AmendChild(r) ==
    /\ pc[r] = "amending"
    /\ AppendChild(r, status[r]) \/ AppendChildFails(r, status[r])
    /\ Goto(r, "recorded")
    /\ UNCHANGED <<poolVars, child, eligible, cancelVars, status, workVars, sessionVars,
                   parentLog>>

(* ActiveRunGuard::complete: publishes the result and removes the slot.    *)
Complete(r) ==
    /\ pc[r] \in {"aborted", "recorded"}
    /\ completed' = [completed EXCEPT ![r] = status[r]]
    /\ DropSlot(r)
    /\ told' = IF parentSick THEN told ELSE told \cup {r}
    /\ Goto(r, "held")
    /\ UNCHANGED <<access, child, eligible, status, workVars, up, deaths, old, childLog,
                   parentLog, faults>>

(* Fault: the guard is not marked terminal and is dropped as if aborted.   *)
ReleaseCancelling(r) ==
    /\ pc[r] = "held"
    /\ completed' = [completed EXCEPT ![r] = "cancelled"]
    /\ Goto(r, "done")
    /\ UNCHANGED <<active, access, target, child, eligible, cancelVars, status, workVars,
                   sessionVars, childLog, parentLog, faults>>

(* The last handle of the child's recorder is dropped.                     *)
Release(r) ==
    /\ pc[r] = "held"
    /\ Goto(r, "done")
    /\ UNCHANGED <<poolVars, child, eligible, cancelVars, status, workVars, sessionVars,
                   childLog, parentLog, faults>>

-----------------------------------------------------------------------------
(* The turns of the session, its death and its resume.                     *)

(* A turn ends and another begins, while background runs go on; a start is *)
(* not interrupted.  Between two turns nothing can be recorded as started, *)
(* as in a turn that has started nothing yet.  (Bound: only a death that   *)
(* follows can tell when a turn has ended.)                                *)
NextTurn ==
    /\ up /\ current # {} /\ ~ parentSick /\ deaths < MaxDeaths
    /\ \A r \in Runs : pc[r] \notin Starting \cup Aborting
    /\ current' = {}
    /\ old' = old \cup {r \in current : parentStatus[r] = "running"}
    /\ UNCHANGED <<pc, poolVars, child, eligible, cancelVars, status, workVars, childLog,
                   parentStatus, listed, parentSick, up, deaths, told, faults>>

(* The process dies with its pool, its tasks and its recorders; what a     *)
(* child's recorder was writing may end in a partial line.  (If it is the  *)
(* parent's line, the session cannot be resumed.)                          *)
Die ==
    /\ up /\ deaths < MaxDeaths /\ deaths' = deaths + 1 /\ up' = FALSE
    /\ pc' = [r \in Runs |-> IF pc[r] = "none" THEN "none" ELSE "done"]
    /\ active' = {} /\ completed' = [r \in Runs |-> None]
    /\ access' = [r \in Runs |-> ToolFreeAccess] /\ target' = [r \in Runs |-> NoChild]
    /\ eligible' = {} /\ requested' = {} /\ armed' = {} /\ signalled' = {}
    /\ sick' = {} /\ parentSick' = FALSE
    /\ \E cut \in SUBSET {c \in Children : WriterLocked(c)} : torn' = torn \cup cut
    /\ UNCHANGED <<child, status, workVars, childStatus, parentStatus, listed, current, old,
                   told, faults>>

Unfinished == {r \in current : parentStatus[r] = "running"}

(* Fault: a run is cancelled that already has its result.                  *)
RecoverStarted(r) ==
    /\ ~ up /\ r \in current
    /\ ParentShows(r, "cancelled")
    /\ UNCHANGED <<pc, poolVars, child, eligible, cancelVars, status, workVars, childLog,
                   parentSick, sessionVars, faults>>

(* prepare_resume_package: a run of the active turn that has no result is  *)
(* recorded as cancelled, one append after the other.  A resume that stops *)
(* half-way is made again from here.                                       *)
Recover(r) ==
    /\ ~ up /\ r \in Unfinished
    /\ ParentShows(r, "cancelled")
    /\ UNCHANGED <<pc, poolVars, child, eligible, cancelVars, status, workVars, childLog,
                   parentSick, sessionVars, faults>>

ResumeEnds ==
    /\ ~ up /\ up' = TRUE /\ current' = {}
    /\ UNCHANGED <<pc, poolVars, child, eligible, cancelVars, status, workVars, childLog,
                   parentStatus, listed, parentSick, deaths, old, told, faults>>

(* Fault: the turn is recorded as interrupted before its runs are.         *)
ResumedAtOnce == ResumeEnds

(* The turn is recorded as interrupted when all its runs have ended.       *)
Resumed == Unfinished = {} /\ ResumeEnds

-----------------------------------------------------------------------------
Start(r) ==
    \/ \E acc \in Accesses, t \in Children \cup {NoChild} : Reserve(r, acc, t)
    \/ List(r)
    \/ \E c \in Children : Setup(r, c)
    \/ SetupRefused(r)
    \/ \E c \in Children : SetupFails(r, c)
    \/ RecordStart(r)
    \/ RecordStartFails(r)
    \/ AbortChild(r)
    \/ AbortParent(r)
    \/ Activate(r)

Execute(r) ==
    \/ Poll(r)
    \/ \E path \in Paths : Touch(r, path)
    \/ LogChange(r)
    \/ LogUnnamed(r)
    \/ LogChangeFails(r)
    \/ Yield(r)
    \/ \E s \in Statuses \ {"cancelled"} : EndExecution(r, s)
    \/ DropRun(r)

Finish(r) ==
    \/ CheckChanges(r)
    \/ CheckUnread(r)
    \/ RecordChild(r)
    \/ RecordParent(r)
    \/ RecordParentFails(r)
    \/ AmendChild(r)
    \/ Complete(r)
    \/ Release(r)

(* Every run has been used up: a bound of the model, not of the program.   *)
Exhausted == (\A r \in Runs : pc[r] = "done") /\ UNCHANGED vars

Next ==
    \/ \E r \in Runs : Start(r) \/ Execute(r) \/ Finish(r) \/ CancelRun(r)
    \/ CancelActive
    \/ NextTurn \/ Die \/ (\E r \in Runs : Recover(r)) \/ Resumed
    \/ Exhausted

Spec == Init /\ [][Next]_vars

(* A task that is not awaiting its execution runs on; a poll of the        *)
(* execution returns; a signalled receiver wakes its task.  The execution  *)
(* itself need never end.                                                  *)
Fairness ==
    \A r \in Runs :
        /\ WF_vars(pc[r] # "none" /\ Start(r))
        /\ WF_vars(Finish(r))
        /\ WF_vars(r \in signalled /\ Poll(r))
        /\ WF_vars(Yield(r) \/ \E s \in Statuses \ {"cancelled"} : EndExecution(r, s))

FairSpec == Spec /\ Fairness

-----------------------------------------------------------------------------
(* No two runs between reservation and published result hold locks that    *)
(* meet, the ones still being set up and the ones being recorded included. *)
LockExclusion ==
    \A r, q \in Runs : r # q /\ pc[r] \in InFlight /\ pc[q] \in InFlight
                          => ~ Conflict(access[r], access[q])

(* A child session is worked in by one run at a time: from its setup until *)
(* its result is in the parent's transcript, also when its recorder failed *)
(* and has given up the transcript's writer lock.                          *)
OneRunPerChild ==
    \A r, q \in Runs :
        r # q /\ pc[r] \in Working /\ pc[q] \in Working => child[r] # child[q]

(* At most one healthy recorder is open on a child's transcript, the one   *)
(* of a finished run that is not dropped yet included.                     *)
SoleRecorder ==
    \A r, q \in Runs, c \in Children : Holds(r, c) /\ Holds(q, c) => r = q

(* A request made at any time after the reservation has reached the cancel *)
(* receiver by the time the execution could run.                           *)
RequestReachesRun == \A r \in requested : pc[r] \in Running => r \in signalled

(* The published result is what the transcripts show: a success is in both *)
(* of them, and any result in each whose recorder works, also after an     *)
(* aborted task and after the result was amended.                          *)
TranscriptsShowResult ==
    \A r \in Runs : completed[r] # None =>
        /\ completed[r] = "completed"
              => childStatus[r] = "completed" /\ parentStatus[r] = "completed"
        /\ r \notin sick => childStatus[r] = completed[r]
        /\ ~ parentSick => parentStatus[r] = completed[r]

(* A result that was published with its record in the parent's transcript  *)
(* is still there when the process has died and the session was resumed,   *)
(* whatever else the resume had to end.                                    *)
ResultsOutlive == \A r \in told : parentStatus[r] = status[r]

(* An open session shows no run as running that has no task, whether its   *)
(* task, its recorder or its process failed; except for those that were    *)
(* left in the background when their turn ended: a resume does not look    *)
(* at them.                                                                *)
NothingSeemsToRun ==
    up /\ ~ parentSick =>
        \A r \in Runs \ old : parentStatus[r] = "running" => r \in active

(* A writer that reports success has changed nothing outside its lock,     *)
(* however its changes, their records, a takeover of the child, a death of *)
(* the process and the comparison follow each other.  Except for what the  *)
(* pool cannot see (unaudited): the change of a tool that failed, whose    *)
(* record names no file, and all of them when the transcript could not be  *)
(* read at the comparison, although the log names them                     *)
(* (docs/components/subagents.md:76 promises that they are checked).       *)
SuccessWithinLock ==
    \A r \in Runs : completed[r] = "completed" =>
                      Unlocked(access[r], touched[r] \ unaudited[r]) = {}

(* A cancellation request ends the run, however long it would execute.     *)
CancelTerminates == \A r \in Runs : (r \in requested) ~> (r \notin active)

(* The pool is a run table: see RunTable.                                  *)
Table == INSTANCE RunTable WITH used <- {r \in Runs : pc[r] # "none"},
                                result <- completed, NoResult <- None
ImplementsRunTable == Table!TableSpec
=============================================================================
