---------------------------- MODULE EngineCommands ----------------------------
(***************************************************************************)
(* The command queues of the session engine: how prompts, peer messages,   *)
(* settings and cancellations reach the one loop that owns the agent       *)
(* (session/engine.rs, session/engine/control.rs).                         *)
(*                                                                         *)
(* Frontends write to one FIFO channel.  The loop is idle, in a turn, or   *)
(* in a manual compaction; each phase reads the channel in its own way and *)
(* keeps what it cannot act on yet in three queues of its own:             *)
(*   deferred   received, not looked at yet                                *)
(*   parked     looked at during a turn, to be acted on after it           *)
(*   boundary   prompts that are to interrupt the turn at its next tool    *)
(*              batch (submit_while_running = insert)                      *)
(*                                                                         *)
(* Receiving until the channel is empty is one step: nothing else reads    *)
(* the channel, so the drain behaves as if done at its last try_recv.      *)
(* Left out: background completions (ResultDelivery), swarm wakes          *)
(* (SwarmMessaging), switching sessions, child views, which touch no queue,*)
(* and settings that are refused because their value is unknown.           *)
(***************************************************************************)
EXTENDS Naturals, Sequences, SequencesExt

CONSTANTS
    Models,      \* values of the setting that chooses the route
    Efforts,     \* values of a second setting, with a key of its own
    Keyless,     \* the models whose route has no credentials
    FirstModel, FirstEffort,
    MaxControls  \* bound on what the outside does: controls sent, reloads

ASSUME SettingsAssumption ==
    /\ FirstModel \in Models /\ FirstEffort \in Efforts
    /\ Keyless \subseteq Models
    /\ MaxControls \in Nat

VARIABLES
    channel,     \* controls sent and not received
    deferred, parked, boundary,
    phase,       \* what the loop is doing
    active,      \* the message whose turn runs
    setting,     \* the settings the agent has
    mode,        \* submit_while_running
    asked,       \* history: the settings after everything sent so far
    messages,    \* history: how many messages were sent
    prompts,     \* history: those that a frontend submitted, and so knows by name
    sent,        \* history: how many steps the outside has taken
    started,     \* history: messages whose turn has started
    revoked,     \* history: messages whose cancellation the loop had received before they started
    spared,      \* history: those that it found in the boundary queue, and did not take out
    inserts      \* history: messages that have been in the boundary queue

queues == <<deferred, parked, boundary>>
vars == <<channel, queues, phase, active, setting, mode, asked, messages, prompts, sent, started, revoked, spared, inserts>>

Setting == [model : Models, effort : Efforts]

\* What a message carries besides its number is a note of the settings asked for before it.
MessageKinds == {"prompt", "peer", "stale"}
Message == [kind : MessageKinds, id : 1..MaxControls, under : Setting]
Peers == {"peer", "stale"}

Control ==
    Message
        \cup [kind : {"set"}, key : {"model"}, value : Models]
        \cup [kind : {"set"}, key : {"effort"}, value : Efforts]
        \cup [kind : {"withdraw", "cancel"}, id : 1..MaxControls]
        \cup [kind : {"compact", "interrupt", "shutdown"}]

Signals == {"interrupt", "shutdown"}
Command == {c \in Control : c.kind \notin Signals}

None == [kind |-> "none"]

Holds(queue, kind) == \E i \in DOMAIN queue : queue[i].kind = kind
MessagesOf(queue) == {queue[i].id : i \in {j \in DOMAIN queue : queue[j].kind \in MessageKinds}}
Waiting == MessagesOf(channel) \cup MessagesOf(deferred) \cup MessagesOf(parked) \cup MessagesOf(boundary)

-----------------------------------------------------------------------------
(* The queue operations of control.rs.                                     *)

\* VecDeque::retain, of what is not in a set.  (As a function of the index, which a proof can follow.)
Dropping(queue, S) ==
    LET kept[i \in 0..Len(queue)] ==
            IF i = 0 THEN <<>>
            ELSE IF queue[i] \in S THEN kept[i - 1] ELSE Append(kept[i - 1], queue[i])
    IN  kept[Len(queue)]

\* cancel_queued_prompt
Without(queue, id) == Dropping(queue, {c \in ToSet(queue) : c.kind = "prompt" /\ c.id = id})

\* Fault: peer messages survive an interrupt.
WithPeers(queue) == queue

\* discard_queued_peer_messages
WithoutPeers(queue) == Dropping(queue, {c \in ToSet(queue) : c.kind \in Peers})

\* Fault: a setting replaces the earlier one wherever it stands.
SupersededAnywhere(queue, c) == {i \in DOMAIN queue : queue[i].kind = "set" /\ queue[i].key = c.key}

\* The setting of the same key that a setting replaces: only one in the
\* trailing run of settings, so that it moves past no other command.
Superseded(queue, c) ==
    {i \in DOMAIN queue : \A j \in i..Len(queue) : queue[j].kind = "set"}
        \cap {i \in DOMAIN queue : queue[i].kind = "set" /\ queue[i].key = c.key}

EnqueueSetting(queue, c) ==
    LET old == Superseded(queue, c)
    IN  Append(IF old = {} THEN queue ELSE RemoveAt(queue, Max(old)), c)

\* Fault: a targeted cancellation waits its turn behind the prompt it names.
EnqueueLast(queue, c) ==
    CASE c.kind = "withdraw" -> Append(Without(queue, c.id), c)
      [] c.kind = "set" -> EnqueueSetting(queue, c)
      [] OTHER -> Append(queue, c)

\* enqueue_deferred_command
Enqueue(queue, c) ==
    CASE c.kind = "cancel" -> <<c>> \o queue
      [] c.kind = "withdraw" -> Append(Without(queue, c.id), c)
      [] c.kind = "set" -> EnqueueSetting(queue, c)
      [] OTHER -> Append(queue, c)

\* One control received while the loop cannot act on it.
Absorb(queue, c) == IF c.kind = "interrupt" THEN WithoutPeers(queue) ELSE Enqueue(queue, c)

\* A sequence of them, in order.  (The CHOOSE has TLC compute each queue once.)
AbsorbAll(queue, controls) ==
    LET after[i \in 0..Len(controls)] ==
            IF i = 0 THEN queue
            ELSE CHOOSE q \in {Absorb(before, controls[i]) : before \in {after[i - 1]}} : TRUE
    IN  after[Len(controls)]

\* Fault: what was deferred is put ahead of what the turn parked before it.
FlushDeferredFirst(park, def) == AbsorbAll(AbsorbAll(<<>>, def), park)

\* flush_parked_commands: what the turn parked, then what it had not looked at.
Flush(park, def) == AbsorbAll(AbsorbAll(<<>>, park), def)

\* drain_queued_session_controls, when no shutdown is in the channel.
Drained == AbsorbAll(deferred, channel)

\* The messages the controls of a sequence revoke: those a cancellation
\* names, and the peer messages sent before an interrupt.
Revoked(controls) ==
    {controls[i].id : i \in {j \in DOMAIN controls : controls[j].kind \in {"withdraw", "cancel"}}}

PeersBefore(queue, i) == {queue[j].id : j \in {k \in 1..(i - 1) : queue[k].kind \in Peers}}

PeersHeld == UNION {PeersBefore(q, Len(q) + 1) : q \in {deferred, parked, boundary}}

RevokedBy(controls) ==
    LET breaks == {i \in DOMAIN controls : controls[i].kind = "interrupt"}
    IN  (Revoked(controls)
            \cup (UNION {PeersBefore(controls, i) : i \in breaks})
            \cup (IF breaks = {} THEN {} ELSE PeersHeld)) \ started

\* The loop receives controls, and takes dropped out of all its queues.  A
\* cancellation removes nothing from the boundary queue when it is received,
\* only when the loop acts on it, and then only during a turn.
Received(controls, dropped) ==
    /\ revoked' = revoked \cup RevokedBy(controls)
    /\ spared' = ((spared \ RevokedBy(controls))
                    \cup (RevokedBy(controls) \cap MessagesOf(boundary))) \ (dropped \ started)

-----------------------------------------------------------------------------
Init ==
    /\ channel = <<>> /\ deferred = <<>> /\ parked = <<>> /\ boundary = <<>>
    /\ phase = "idle" /\ active = None
    /\ setting = [model |-> FirstModel, effort |-> FirstEffort]
    /\ mode \in {"queue", "insert"}
    /\ asked = setting
    /\ messages = 0 /\ prompts = {} /\ sent = 0
    /\ started = {} /\ revoked = {} /\ spared = {} /\ inserts = {}

(* The outside: SessionEngineIngress, the peer listener, the config file.  *)

Send(c) ==
    /\ phase # "stopped" /\ sent < MaxControls
    /\ channel' = Append(channel, c)
    /\ sent' = sent + 1
    /\ UNCHANGED <<queues, phase, active, setting, mode, started, revoked, spared, inserts>>

SendMessage ==
    \E kind \in MessageKinds :
        /\ Send([kind |-> kind, id |-> messages + 1, under |-> asked])
        /\ messages' = messages + 1
        /\ prompts' = IF kind = "prompt" THEN prompts \cup {messages'} ELSE prompts
        /\ UNCHANGED asked

SendSetting ==
    \E c \in Control :
        /\ c.kind = "set"
        /\ Send(c)
        /\ asked' = [asked EXCEPT ![c.key] = c.value]
        /\ UNCHANGED <<messages, prompts>>

\* cancel_prompt and CancelQueuedPrompt name a prompt the frontend has submitted.
SendOther ==
    \E c \in Control :
        /\ c.kind \notin MessageKinds \cup {"set"}
        /\ c.kind \in {"withdraw", "cancel"} => c.id \in prompts
        /\ Send(c)
        /\ UNCHANGED <<asked, messages, prompts>>

\* The config file changes; the loop looks at it only when it is idle.
Reload ==
    /\ phase = "idle" /\ sent < MaxControls
    /\ mode' \in {"queue", "insert"} \ {mode}
    /\ sent' = sent + 1
    /\ UNCHANGED <<channel, queues, phase, active, setting, asked, messages, prompts, started, revoked, spared, inserts>>

unsent == <<mode, asked, messages, prompts, sent>>

-----------------------------------------------------------------------------
(* The loop when it is idle.                                               *)

Stop ==
    /\ phase' = "stopped" /\ active' = None
    /\ channel' = <<>> /\ deferred' = <<>> /\ parked' = <<>> /\ boundary' = <<>>
    /\ UNCHANGED <<setting, unsent, started, revoked, spared, inserts>>

\* A message that is not for this session, or has no route to run on, is dropped with an error.
Runs(m) == m.kind # "stale" /\ setting.model \notin Keyless

StartTurn(m) ==
    IF Runs(m)
    THEN /\ phase' = "turn" /\ active' = m
         /\ started' = started \cup {m.id}
         /\ UNCHANGED setting
    ELSE UNCHANGED <<phase, active, started, setting>>

Apply(c) ==
    /\ setting' = [setting EXCEPT ![c.key] = c.value]
    /\ UNCHANGED <<phase, active, started>>

\* A compaction is refused without credentials, or while a subagent runs.
StartCompaction ==
    /\ phase' = phase \/ (phase' = "compaction" /\ setting.model \notin Keyless)
    /\ UNCHANGED <<active, setting, started>>

\* What the idle loop does with a command c, rest being what it keeps deferred.
Handle(c, rest) ==
    /\ deferred' = IF c.kind \in {"withdraw", "cancel"} THEN Without(rest, c.id) ELSE rest
    /\ \/ c.kind \in MessageKinds /\ StartTurn(c)
       \/ c.kind = "set" /\ Apply(c)
       \/ c.kind = "compact" /\ StartCompaction
       \/ /\ c.kind \in {"withdraw", "cancel", "interrupt"}
          /\ UNCHANGED <<phase, active, setting, started>>
    /\ UNCHANGED <<parked, boundary, unsent, inserts>>

\* Nothing is deferred: the loop takes one control and looks at no other.
\* A peer message is deferred first, so that an interrupt behind it is seen.
ReceivesOne == deferred = <<>> /\ channel # <<>> /\ Head(channel).kind \notin Peers

IdleReceive ==
    /\ phase = "idle" /\ ReceivesOne
    /\ Head(channel).kind # "shutdown"
    /\ Handle(Head(channel), <<>>)
    /\ channel' = Tail(channel)
    /\ Received(<<Head(channel)>>, {})

DrainsIdle == deferred # <<>> \/ (channel # <<>> /\ Head(channel).kind \in Peers)

\* An interrupt found while draining is all the loop acts on in this round.
IdleInterrupt ==
    /\ phase = "idle" /\ DrainsIdle
    /\ ~ Holds(channel, "shutdown") /\ Holds(channel, "interrupt")
    /\ deferred' = Drained /\ channel' = <<>>
    /\ Received(channel, {})
    /\ UNCHANGED <<parked, boundary, phase, active, setting, unsent, started, inserts>>

IdleCommand ==
    /\ phase = "idle" /\ DrainsIdle
    /\ ~ Holds(channel, "shutdown") /\ ~ Holds(channel, "interrupt")
    /\ Handle(Head(Drained), Tail(Drained))
    /\ channel' = <<>>
    /\ Received(channel, {})

IdleShutdown ==
    /\ phase = "idle"
    /\ \/ ReceivesOne /\ Head(channel).kind = "shutdown"
       \/ DrainsIdle /\ Holds(channel, "shutdown")
    /\ Stop

-----------------------------------------------------------------------------
(* The loop in a turn.                                                     *)

\* Fault: a turn that ends forgets what it parked.
EndTurnForgetting(def, park, bound) ==
    /\ phase' = "idle" /\ active' = None
    /\ deferred' = bound \o Flush(<<>>, def)
    /\ parked' = park /\ boundary' = <<>>
    /\ UNCHANGED <<setting, unsent, started, inserts>>

\* The end of a turn that no prompt cut short: what it parked, then the
\* boundary prompts put in front.
EndTurn(def, park, bound) ==
    /\ phase' = "idle" /\ active' = None
    /\ deferred' = bound \o Flush(park, def)
    /\ parked' = <<>> /\ boundary' = <<>>
    /\ UNCHANGED <<setting, unsent, started, inserts>>

\* Interrupt has priority over every command received before it.
TurnInterrupted ==
    /\ phase = "turn"
    /\ ~ Holds(channel, "shutdown") /\ Holds(channel, "interrupt")
    /\ EndTurn(Drained, WithoutPeers(parked), WithoutPeers(boundary))
    /\ channel' = <<>>
    /\ Received(channel, PeersBefore(boundary, Len(boundary) + 1))

\* One command received during a turn is dealt with, the rest stays deferred.
Park(c, rest) ==
    /\ deferred' = IF c.kind \in {"withdraw", "cancel"} THEN Without(rest, c.id) ELSE rest
    /\ \/ /\ c.kind \in MessageKinds /\ mode = "insert"
          /\ boundary' = Append(boundary, c) /\ inserts' = inserts \cup {c.id}
          /\ UNCHANGED parked
       \/ /\ c.kind \in MessageKinds /\ mode = "queue"
          /\ parked' = Append(parked, c)
          /\ UNCHANGED <<boundary, inserts>>
       \/ /\ c.kind = "set"
          /\ parked' = Enqueue(parked, c)
          /\ UNCHANGED <<boundary, inserts>>
       \/ /\ c.kind \in {"withdraw", "cancel"}
          /\ parked' = Without(parked, c.id) /\ boundary' = Without(boundary, c.id)
          /\ UNCHANGED inserts
       \/ c.kind = "compact" /\ UNCHANGED <<parked, boundary, inserts>>
    /\ UNCHANGED <<phase, active, setting, unsent, started>>

TurnCommand ==
    /\ phase = "turn"
    /\ ~ Holds(channel, "shutdown") /\ ~ Holds(channel, "interrupt")
    /\ Drained # <<>>
    /\ LET c == Head(Drained)
       IN  /\ IF c.kind = "cancel" /\ c.id = active.id
              THEN EndTurn(Tail(Drained), parked, boundary)
              ELSE Park(c, Tail(Drained))
           /\ Received(channel, IF c.kind \in {"withdraw", "cancel"} THEN {c.id} ELSE {})
    /\ channel' = <<>>

\* The runner's events and its result are looked at when no command is left.
TurnCompletes ==
    /\ phase = "turn" /\ deferred = <<>>
    /\ EndTurn(<<>>, parked, boundary)
    /\ UNCHANGED <<channel, revoked, spared>>

\* A tool batch ends and a prompt waits for it: the turn is closed and the
\* prompt put in front of everything; the other boundary prompts stay.
ToolBatchEnds ==
    /\ phase = "turn" /\ deferred = <<>>
    /\ mode = "insert" /\ boundary # <<>>
    /\ deferred' = <<Head(boundary)>> \o Flush(parked, <<>>)
    /\ parked' = <<>> /\ boundary' = Tail(boundary)
    /\ phase' = "idle" /\ active' = None
    /\ UNCHANGED <<channel, setting, unsent, started, revoked, spared, inserts>>

TurnShutdown == phase = "turn" /\ Holds(channel, "shutdown") /\ Stop

\* The end of a turn cannot be written to the transcript: the loop stops.
TurnUnrecorded == phase = "turn" /\ Stop

-----------------------------------------------------------------------------
(* The loop in a manual compaction: everything waits.                      *)

CompactionReceives ==
    /\ phase = "compaction" /\ channel # <<>>
    /\ ~ Holds(channel, "shutdown")
    /\ deferred' = Drained /\ channel' = <<>>
    /\ phase' = IF Holds(channel, "interrupt") THEN "idle" ELSE phase
    /\ Received(channel, {})
    /\ UNCHANGED <<parked, boundary, active, setting, unsent, started, inserts>>

CompactionEnds ==
    /\ phase = "compaction"
    /\ phase' = "idle"
    /\ UNCHANGED <<channel, queues, active, setting, unsent, started, revoked, spared, inserts>>

CompactionShutdown == phase = "compaction" /\ Holds(channel, "shutdown") /\ Stop

-----------------------------------------------------------------------------
Outside == SendMessage \/ SendSetting \/ SendOther \/ Reload

Commands ==
    \/ IdleReceive \/ IdleInterrupt \/ IdleCommand \/ IdleShutdown
    \/ TurnInterrupted \/ TurnCommand \/ TurnShutdown
    \/ CompactionReceives \/ CompactionShutdown

Next ==
    \/ Outside \/ Commands
    \/ TurnCompletes \/ ToolBatchEnds \/ TurnUnrecorded \/ CompactionEnds

Spec == Init /\ [][Next]_vars

\* The loop polls the channel before anything else; model calls, tools and
\* compactions run under deadlines, so turns and compactions end.
FairSpec == Spec /\ WF_vars(Commands) /\ WF_vars(TurnCompletes) /\ WF_vars(CompactionEnds)

-----------------------------------------------------------------------------
\* A turn runs under the settings that had been asked for when its message
\* was sent, neither earlier ones nor later ones, however settings, prompts
\* and interrupts were received, parked and merged in between.  (A message
\* that went through the boundary queue overtakes settings on purpose.)
SettingsInForce ==
    phase = "turn" /\ active.id \notin inserts => setting = active.under

\* No message runs while one sent before it waits, unless exactly one of the
\* two was to be inserted at a tool boundary.
StartsInOrder ==
    phase = "turn" =>
        \A id \in Waiting : id < active.id => (id \in inserts) # (active.id \in inserts)

\* Once the loop has received the cancellation of a message that has not
\* started, or an interrupt after a peer message, no turn starts for it.
\* Excepted: a message that waited in the boundary queue at that moment and
\* was not taken out of it, because the turn ended before the cancellation
\* was looked at, or the loop was not in a turn.  (The code does not keep
\* docs/components/session.md:20, by which any input that is not consumed
\* yet can be withdrawn, for those.)
RevokedNeverStarts == started \cap revoked \subseteq spared

\* Prompts left in the boundary queue by a loop that waits for input.
Stranded == IF phase = "idle" /\ channel = <<>> /\ deferred = <<>> THEN MessagesOf(boundary) ELSE {}

\* A message that waits in one of the queues leaves them: it runs, is
\* refused, is cancelled, or the loop stops.  Excepted: a message that is
\* still in the boundary queue when the loop has nothing left to do.  (By
\* docs/components/configuration.md:80 it runs when its turn has ended; the
\* code leaves it there until another turn has begun.)
MessagesSettle ==
    \A id \in 1..MaxControls : id \in Waiting ~> (id \notin Waiting \/ id \in Stranded)
=============================================================================
