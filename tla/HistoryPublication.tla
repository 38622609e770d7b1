-------------------------- MODULE HistoryPublication --------------------------
(***************************************************************************)
(* How a session's older messages are replaced by summaries                *)
(* (agent/history_runtime.rs, session/historian.rs, context_history.rs,    *)
(* the history events of transcript_projection.rs).                        *)
(*                                                                         *)
(* At a request boundary the agent's loop asks a background historian to   *)
(* summarise the oldest messages.  The historian's task writes its result  *)
(* (a publication) to the transcript itself; the loop later writes that    *)
(* the publication replaces its messages (an application).  The recorder   *)
(* checks both against the transcript at that moment.  In between the user *)
(* may interrupt, undo, or the process may die.                            *)
(*                                                                         *)
(* A message stands for a protocol group that is never cut and has left    *)
(* the tail that is preserved; how many of them the budgets allow is left  *)
(* open; the facts, tiers and texts of a publication are left out.  Child  *)
(* sessions, which summarise in the foreground, are not modelled.          *)
(***************************************************************************)
EXTENDS Naturals, Sequences, SequencesExt

CONSTANTS
    MaxAttempts,   \* MAX_HISTORIAN_ATTEMPTS
    ShrinkRounds,  \* retries of one blocking preparation
    MaxMessages,   \* bound: messages on a path
    MaxFits,       \* bound: the longest prefix the provider may accept
    MaxBreaks      \* bound: interrupts, checkouts and restarts

ASSUME HistoryAssumption ==
    /\ MaxAttempts \in Nat \ {0} /\ MaxFits \in Nat \ {0}
    /\ {ShrinkRounds, MaxMessages, MaxBreaks} \subseteq Nat

VARIABLES
    path,      \* the records on the selected branch, oldest first
    revision,  \* the checkout that selected it
    job,       \* the historian's pending job
    orphans,   \* cancelled jobs whose task still runs
    failure,   \* the last attempt that failed
    limit,     \* pass_limit: the longest prefix to ask for
    pc,        \* where the loop is in advance()
    blocking,  \* whether this advance() holds up the request
    rounds,    \* shrink rounds of this advance()
    plan,      \* the application computed and not yet written
    fits,      \* the longest prefix the provider accepts
    breaks,    \* history: what MaxBreaks bounds
    refused,   \* history: the recorder refused a publication or an application
    asked      \* history: jobs started for one region since its last pause

loop == <<pc, blocking, rounds, plan>>
vars == <<path, revision, job, orphans, failure, limit, loop, fits, breaks, refused, asked>>

None == [kind |-> "none"]
Unlimited == 0

\* A message is named by where it was written: its place and the checkout.
MessageRecord(m) == [kind |-> "message", src |-> <<m>>]
Published(src) == [kind |-> "published", src |-> src]
Applied(src) == [kind |-> "applied", src |-> src]

\* The messages that the records of one kind name: in order, and as a set.
Sources(p, kind) == FlattenSeq([i \in DOMAIN p |-> IF p[i].kind = kind THEN p[i].src ELSE <<>>])
Named(p, kind) == UNION {ToSet(p[i].src) : i \in {i \in DOMAIN p : p[i].kind = kind}}
MessagesOn(p) == Sources(p, "message")
PublishedOn(p) == Sources(p, "published")
Retired(p) == Sources(p, "applied")

\* The messages of a path that are in a set.
Select(p, S) ==
    FlattenSeq([i \in DOMAIN p |->
        IF p[i].kind = "message" /\ p[i].src[1] \in S THEN p[i].src ELSE <<>>])

\* The raw messages the model still sees, and those of them no publication covers.
Raw(p) == Select(p, Named(p, "message") \ Named(p, "applied"))
Candidates(p) == Select(p, Named(p, "message") \ (Named(p, "applied") \cup Named(p, "published")))

-----------------------------------------------------------------------------
(* The recorder's checks (record_history_event).                           *)

\* A publication must be of this checkout and cover the next raw messages.
AcceptsPublication(src, at) == at = revision /\ IsPrefix(src, Candidates(path))

\* An application must retire exactly the messages of its publications, the oldest ones.
AcceptsApplication(src) ==
    /\ src # <<>> /\ IsPrefix(src, Raw(path))
    /\ \E i \in DOMAIN path : PublishedOn(SubSeq(path, 1, i)) = Retired(path) \o src

-----------------------------------------------------------------------------
(* The historian runtime.                                                  *)

Job(src) == [kind |-> "job", src |-> src, at |-> revision, result |-> "none"]
Running == job # None

\* Fault: a region that failed too often is parked for the rest of the session.
ExhaustedForGood(first) ==
    /\ failure # None /\ failure.first = first
    /\ failure.attempts >= MaxAttempts

\* exhausted
Exhausted(first) ==
    /\ failure # None /\ failure.first = first
    /\ failure.attempts >= MaxAttempts /\ failure.fresh

\* shrinks: the prefix was too long or the answer unusable; a shorter prefix may help.
Shrinks(f) == f # None /\ f.class = "rejected"

\* reduce_pass_limit
Reduced(n) ==
    LET half == IF n \div 2 = 0 THEN 1 ELSE n \div 2
    IN  IF limit = Unlimited \/ half < limit THEN half ELSE limit

\* What the loop does about the last failure before it asks again.
LimitNow ==
    IF Shrinks(failure) THEN Reduced(failure.len) ELSE limit

\* record_failure
Failure(j) ==
    [kind |-> "failure", first |-> Head(j.src), len |-> Len(j.src),
     class |-> j.result, fresh |-> TRUE,
     attempts |-> IF failure # None /\ failure.first = Head(j.src) /\ failure.fresh
                  THEN failure.attempts + 1 ELSE 1]

\* cancel
CancelJob ==
    /\ job' = None
    /\ orphans' = IF Running /\ job.result = "none" THEN orphans \cup {job} ELSE orphans

\* The pending job is of this checkout; it has ended, or the checkout left it behind.
Current == Running /\ job.at = revision
Answered == Running => (job.at # revision \/ job.result # "none")

\* poll, and cancel for a job of another checkout.
Poll ==
    IF ~ Running \/ ~ Answered
    THEN UNCHANGED <<job, orphans, failure, asked>>
    ELSE /\ CancelJob
         /\ CASE ~ Current -> UNCHANGED <<failure, asked>>
              [] Current /\ job.result = "ok" -> failure' = None /\ asked' = None
              [] Current /\ job.result # "ok" -> failure' = Failure(job) /\ UNCHANGED asked

\* History: the pending job was cancelled and does not count.
Uncounted ==
    IF Running /\ asked # None
    THEN IF asked.times = 1 THEN None ELSE [asked EXCEPT !.times = @ - 1]
    ELSE asked

-----------------------------------------------------------------------------
Init ==
    /\ path = <<>> /\ revision = 0
    /\ job = None /\ orphans = {}
    /\ failure = None /\ limit = Unlimited
    /\ pc = "away" /\ blocking = FALSE /\ rounds = 0 /\ plan = <<>>
    /\ fits \in 1..MaxFits
    /\ breaks = 0 /\ refused = FALSE /\ asked = None

(* The agent's loop.                                                       *)

\* Between boundaries the conversation grows.
Converse ==
    /\ pc = "away" /\ Len(MessagesOn(path)) < MaxMessages
    /\ path' = Append(path, MessageRecord([n |-> Len(MessagesOn(path)) + 1, at |-> revision]))
    /\ UNCHANGED <<revision, job, orphans, failure, limit, loop, fits, breaks, refused, asked>>

\* advance() returns, or goes on.
Leave == pc' = "away" /\ blocking' = FALSE /\ rounds' = 0 /\ plan' = <<>>
Go(next) ==
    IF next = "away" THEN Leave ELSE pc' = next /\ UNCHANGED <<blocking, rounds, plan>>

\* advance(): take the historian's answer; go on if the context is near its budget.
Advance(hold, near) ==
    /\ pc = "away"
    /\ Poll
    /\ pc' = IF hold \/ near THEN "plan" ELSE "away"
    /\ blocking' = hold
    /\ UNCHANGED <<path, revision, limit, rounds, plan, fits, breaks, refused>>

\* pending_application: the raw messages that publications cover already.
Pending == Select(path, Named(path, "published") \ Named(path, "applied"))

\* Fault: the next work is chosen although a publication waits to be applied.
PlanWorkFirst(next) ==
    IF Pending = <<>> \/ Candidates(path) # <<>>
    THEN Go(next) ELSE pc' = "apply" /\ plan' = Pending /\ UNCHANGED <<blocking, rounds>>

PlanApplication(next) ==
    IF Pending = <<>>
    THEN Go(next) ELSE pc' = "apply" /\ plan' = Pending /\ UNCHANGED <<blocking, rounds>>

Plan ==
    /\ pc = "plan" /\ PlanApplication("work")
    /\ UNCHANGED <<path, revision, job, orphans, failure, limit, fits, breaks, refused, asked>>

\* After a blocking preparation the loop looks once more, then returns.
PlanAgain ==
    /\ pc = "published" /\ PlanApplication("away")
    /\ UNCHANGED <<path, revision, job, orphans, failure, limit, fits, breaks, refused, asked>>

Apply ==
    /\ pc = "apply"
    /\ IF AcceptsApplication(plan)
       THEN path' = Append(path, Applied(plan)) /\ UNCHANGED refused
       ELSE refused' = TRUE /\ UNCHANGED path
    /\ Leave
    /\ UNCHANGED <<revision, job, orphans, failure, limit, fits, breaks, asked>>

\* History: the job about to start is one more for its region, or the first.
Asked(first) ==
    [kind |-> "asked", first |-> first,
     times |-> IF asked # None /\ asked.first = first THEN asked.times + 1 ELSE 1]

\* A pass limit caps the prefix, unless nothing would be left of it.
Capped(n, lim) == IF lim = Unlimited \/ lim > n THEN n ELSE lim

\* Fault: a blocking preparation asks again however often the region has failed.
GivenUpUnlessBlocking(first) == ~ blocking /\ Exhausted(first)

GivenUp(first) == Exhausted(first)

\* work and start: the oldest raw messages, as many as the budgets allow.
Work ==
    /\ pc = "work" /\ ~ Running
    /\ limit' = LimitNow
    /\ IF Raw(path) = <<>> \/ GivenUp(Head(Raw(path)))
       THEN Leave /\ UNCHANGED <<job, asked>>
       ELSE \E n \in 1..Len(Raw(path)) :
                /\ job' = Job(SubSeq(Raw(path), 1, Capped(n, LimitNow)))
                /\ asked' = Asked(Head(Raw(path)))
                /\ Go(IF blocking THEN "wait" ELSE "away")
    /\ UNCHANGED <<path, revision, orphans, failure, fits, breaks, refused>>

\* A job runs already: the request goes on without it, or waits for it.
Join ==
    /\ pc = "work" /\ Running
    /\ limit' = IF blocking THEN limit ELSE LimitNow
    /\ Go(IF blocking THEN "wait" ELSE "away")
    /\ UNCHANGED <<path, revision, job, orphans, failure, fits, breaks, refused, asked>>

\* The answer, or the job was cancelled; a failure that shrinks is retried at once.
Wait ==
    /\ pc = "wait" /\ Answered
    /\ Poll
    /\ \/ /\ Current /\ job.result = "ok"
          /\ Go("published") /\ UNCHANGED limit
       \/ /\ ~ (Current /\ job.result = "ok")
          /\ IF Shrinks(failure') /\ rounds < ShrinkRounds
             THEN /\ limit' = Reduced(failure'.len)
                  /\ pc' = "work" /\ rounds' = rounds + 1 /\ UNCHANGED <<blocking, plan>>
             ELSE Leave /\ UNCHANGED limit
    /\ UNCHANGED <<path, revision, fits, breaks, refused>>

\* The historian's answer takes longer than the loop waits.
WaitTimesOut ==
    /\ pc = "wait" /\ Running /\ job.result = "none"
    /\ Leave
    /\ UNCHANGED <<path, revision, job, orphans, failure, limit, fits, breaks, refused, asked>>

\* The pause after a failure is over.
CooldownEnds ==
    /\ failure # None /\ failure.fresh
    /\ failure' = [failure EXCEPT !.fresh = FALSE]
    /\ asked' = None
    /\ UNCHANGED <<path, revision, job, orphans, limit, loop, fits, breaks, refused>>

-----------------------------------------------------------------------------
(* The historian's task.                                                   *)

\* The response covers a prefix of the messages it was given.
TaskPublishes ==
    /\ Running /\ job.result = "none" /\ Len(job.src) <= fits
    /\ \E n \in 1..Len(job.src) :
           LET src == SubSeq(job.src, 1, n)
           IN  IF AcceptsPublication(src, job.at)
               THEN /\ path' = Append(path, Published(src))
                    /\ job' = [job EXCEPT !.result = "ok"] /\ UNCHANGED refused
               ELSE /\ job' = [job EXCEPT !.result = "rejected"] /\ UNCHANGED path
                    /\ refused' = (refused \/ job.at = revision)
    /\ UNCHANGED <<revision, orphans, failure, limit, loop, fits, breaks, asked>>

TaskFails(class) ==
    /\ Running /\ job.result = "none"
    /\ job' = [job EXCEPT !.result = class]
    /\ UNCHANGED <<path, revision, orphans, failure, limit, loop, fits, breaks, refused, asked>>

\* The provider rejects the size; or the call fails, whatever the size.
TaskOversized == Running /\ Len(job.src) > fits /\ TaskFails("rejected")
TaskBreaks == \E class \in {"rejected", "transport"} : TaskFails(class)

\* Fault: only the recorder stops the answer of a cancelled task.
LateAnswerCounts(j) == AcceptsPublication(j.src, j.at)

\* Fault: nothing does.
LateAnswerLands(j) == TRUE

LateAnswer(j) == FALSE

\* A cancelled task ends; its answer is not published.
OrphanEnds ==
    \E j \in orphans :
        /\ orphans' = orphans \ {j}
        /\ path' = IF LateAnswer(j) THEN Append(path, Published(j.src)) ELSE path
        /\ UNCHANGED <<revision, job, failure, limit, loop, fits, breaks, refused, asked>>

-----------------------------------------------------------------------------
(* Interrupts, checkouts, restarts.                                        *)

\* The turn is interrupted, wherever advance() is, and its job cancelled.
Interrupt ==
    /\ breaks < MaxBreaks /\ breaks' = breaks + 1
    /\ CancelJob /\ asked' = Uncounted /\ Leave
    /\ UNCHANGED <<path, revision, failure, limit, fits, refused>>

\* Undo: the branch goes back to just before one of its messages.
Undo ==
    /\ pc = "away" /\ breaks < MaxBreaks /\ breaks' = breaks + 1
    /\ \E i \in DOMAIN path : path[i].kind = "message" /\ path' = SubSeq(path, 1, i - 1)
    /\ revision' = revision + 1
    /\ CancelJob /\ asked' = Uncounted
    /\ UNCHANGED <<failure, limit, loop, fits, refused>>

\* The process dies and the session is resumed: only the transcript is left.
Restart ==
    /\ breaks < MaxBreaks /\ breaks' = breaks + 1
    /\ job' = None /\ orphans' = {} /\ failure' = None /\ limit' = Unlimited /\ asked' = None
    /\ Leave
    /\ UNCHANGED <<path, revision, fits, refused>>

-----------------------------------------------------------------------------
Step == Plan \/ PlanAgain \/ Apply \/ Work \/ Join \/ Wait
Answer == TaskPublishes \/ TaskOversized

Next ==
    \/ Converse \/ \E hold, near \in BOOLEAN : Advance(hold, near)
    \/ Step \/ WaitTimesOut \/ CooldownEnds \/ Answer \/ TaskBreaks \/ OrphanEnds
    \/ Interrupt \/ Undo \/ Restart

Spec == Init /\ [][Next]_vars

\* The session is used on and its requests need room (the pressure path calls
\* advance in its blocking form), pauses end, and a provider that is asked
\* again and again answers in the end, or says that the prefix is too long.
FairSpec ==
    /\ Spec
    /\ WF_vars(Advance(TRUE, TRUE) \/ Step) /\ WF_vars(CooldownEnds) /\ SF_vars(Answer)

-----------------------------------------------------------------------------
\* Whatever was published, applied, undone or lost, the messages of the
\* branch are those the applied summaries replace followed by the raw ones:
\* none is missing, none appears twice, none changes its place.
EachMessageOnce ==
    /\ MessagesOn(path) = Retired(path) \o Raw(path)
    /\ IsPrefix(PublishedOn(path), MessagesOn(path))
    /\ IsPrefix(Retired(path), PublishedOn(path))

\* What the loop decided from its last look at the transcript still stands
\* when it is written, and so does what a task of this checkout prepared,
\* although task and loop write to the transcript independently.
NeverRefused == ~ refused

\* A region of messages that cannot be summarised is asked for a bounded
\* number of times between two pauses, by blocking and by background
\* preparation together; only a job that was cancelled is not counted.
AttemptsBounded == asked # None => asked.times <= MaxAttempts

\* A session under pressure gets room: its older messages are replaced in the
\* end, although prefixes were too long for the provider, attempts failed
\* and the region was parked for a while.
RoomIsMade == Raw(path) # <<>> ~> Raw(path) = <<>>
=============================================================================
