-------------------------- MODULE TranscriptJournal --------------------------
(***************************************************************************)
(* One session's transcript file, the recorders that append to it, and     *)
(* what is read back after failed writes, killed processes and power loss. *)
(* Source: src/transcript/recorder.rs and src/transcript/journal.rs.       *)
(*                                                                         *)
(* The file is the sequence of its complete lines and the state of what    *)
(* follows the last newline.  A line is a record of its own, a member of a *)
(* transaction, or a transaction's commit mark; what an event contains is  *)
(* left out.  Several processes may open the file, and one process again   *)
(* and again: each open is a recorder.                                     *)
(***************************************************************************)
EXTENDS Integers, Sequences, FiniteSetsExt

CONSTANT Recorders,
         NoRecorder,
         Sizes,       \* the sizes of transactions
         MaxAppends   \* bound: appends in a behaviour

ASSUME JournalAssumption ==
    NoRecorder \notin Recorders /\ Sizes \subseteq Nat \ {0} /\ MaxAppends \in Nat

VARIABLES file,      \* its complete lines
          ending,    \* what follows the last newline
          synced,    \* how many lines survive a power loss
          lock,      \* who holds the writer lock
          recorder,  \* state of each recorder
          sequence,  \* its sequence
          writing,   \* revisions it has written and not yet counted
          loaded,    \* the file it has read before it asks for the lock
          promised,  \* how many lines were reported as durable
          appends

diskVars     == <<file, ending, synced>>
recorderVars == <<lock, recorder, sequence, writing, loaded>>
vars == <<diskVars, recorderVars, promised, appends>>

(* "undelimited": the last line is complete but for its newline; "torn":   *)
(* an incomplete line; "tornCharacter": one that ends inside a character.  *)
Endings == {"newline", "undelimited", "torn", "tornCharacter"}
States  == {"closed", "idle", "written", "poisoned"}
Kinds   == {"record", "member", "commit", "garbage"}
Lines   == [kind : Kinds, rev : Nat, append : Nat, index : Nat, of : Nat]

NotLoaded == [file |-> <<>>, ending |-> "newline"]

-----------------------------------------------------------------------------
(* Reading                                                                 *)

(* parse_records_content: what may start a file and what may follow what.  *)
Free(l) == l.kind \in {"record", "commit"}

MayFollow(l, m) ==
    \/ /\ m.kind = "record" \/ (m.kind = "member" /\ m.index = 1)
       /\ Free(l) /\ m.rev = l.rev + 1
    \/ /\ m.kind = "member" /\ l.kind = "member"
       /\ m.append = l.append /\ m.of = l.of
       /\ m.index = l.index + 1 /\ m.index <= m.of /\ m.rev = l.rev + 1
    \/ /\ m.kind = "commit" /\ l.kind = "member"
       /\ m.append = l.append /\ m.of = l.of /\ l.index = l.of /\ m.rev = l.rev

MayStart(m) == m.rev = 1 /\ (m.kind = "record" \/ (m.kind = "member" /\ m.index = 1))

Parses(f) ==
    /\ f # <<>> => MayStart(f[1])
    /\ \A i \in 1 .. Len(f) - 1 : MayFollow(f[i], f[i + 1])

(* The lines whose records a reader returns: a transaction's are visible   *)
(* when its commit mark is there.                                          *)
Frontier(f) == Max({0} \cup {i \in 1 .. Len(f) : Free(f[i])})

(* Fault: so are the records of a transaction without its commit mark.      *)
VisibleUncommitted(f) == f

Visible(f)  == SubSeq(f, 1, Frontier(f))
Revision(f) == IF Frontier(f) = 0 THEN 0 ELSE f[Frontier(f)].rev

(* content_tail_is_uncommitted_transaction                                 *)
Uncommitted(f) == Frontier(f) < Len(f)

(* read_records, and read_records_allow_partial_tail.  The file is read as *)
(* UTF-8: if it ends inside a character, nothing of it is read.            *)
StrictlyReadable  == Parses(file) /\ ending \in {"newline", "undelimited"}
LenientlyReadable == Parses(file) /\ ending # "tornCharacter"

-----------------------------------------------------------------------------
TypeOK ==
    /\ file \in Seq(Lines) /\ ending \in Endings /\ synced \in 0 .. Len(file)
    /\ lock \in Recorders \cup {NoRecorder}
    /\ recorder \in [Recorders -> States]
    /\ sequence \in [Recorders -> Nat] /\ writing \in [Recorders -> Nat]
    /\ loaded \in [Recorders -> [file : Seq(Lines), ending : Endings]]
    /\ promised \in 0 .. synced
    /\ appends \in 0 .. MaxAppends

(* TranscriptRecorder::create, by one of the recorders.                    *)
Init ==
    /\ file = <<>> /\ ending = "newline" /\ synced = 0
    /\ \E p \in Recorders :
           /\ lock = p
           /\ recorder = [q \in Recorders |-> IF q = p THEN "idle" ELSE "closed"]
    /\ sequence = [q \in Recorders |-> 0] /\ writing = [q \in Recorders |-> 0]
    /\ loaded = [q \in Recorders |-> NotLoaded]
    /\ promised = 0 /\ appends = 0

-----------------------------------------------------------------------------
(* Appending                                                               *)

Line(kind, rev, index, of) ==
    [kind |-> kind, rev |-> rev, append |-> appends, index |-> index, of |-> of]

RecordBatch(p) == << Line("record", sequence[p] + 1, 0, 0) >>

TransactionBatch(p, n) ==
    [i \in 1 .. n + 1 |-> IF i <= n THEN Line("member", sequence[p] + i, i, n)
                                    ELSE Line("commit", sequence[p] + n, n, n)]

(* The bytes join what follows the last newline, whatever that is.         *)
Garbage == Line("garbage", 0, 0, 0)
Joined(lines) ==
    IF lines = <<>> \/ ending = "newline" THEN file \o lines
    ELSE (IF ending = "undelimited" THEN SubSeq(file, 1, Len(file) - 1) ELSE file)
         \o <<Garbage>> \o Tail(lines)

Counted(p, n) == sequence' = [sequence EXCEPT ![p] = @ + n]

(* The write succeeds; a record that need not be durable is counted.       *)
Write(p, batch, n, durable) ==
    /\ recorder[p] = "idle" /\ appends < MaxAppends
    /\ appends' = appends + 1
    /\ file' = Joined(batch) /\ ending' = "newline" /\ UNCHANGED synced
    /\ IF durable
       THEN /\ recorder' = [recorder EXCEPT ![p] = "written"]
            /\ writing' = [writing EXCEPT ![p] = n]
            /\ UNCHANGED sequence
       ELSE Counted(p, n) /\ UNCHANGED <<recorder, writing>>
    /\ UNCHANGED <<lock, loaded, promised>>

(* poison_after_io_failure: no more appends, and the writer lock is free.  *)
Poison(p) ==
    /\ recorder' = [recorder EXCEPT ![p] = "poisoned"]
    /\ lock' = IF lock = p THEN NoRecorder ELSE lock
    /\ UNCHANGED <<sequence, writing, loaded, promised>>

(* A part of the batch, or all of it, is in the file all the same.         *)
LandsInPart(batch) ==
    \E n \in 0 .. Len(batch), e \in Endings :
        /\ e = "undelimited" => n > 0
        /\ e \in {"torn", "tornCharacter"} => n < Len(batch)
        /\ file' = Joined(SubSeq(batch, 1, n)) /\ ending' = e /\ UNCHANGED synced

(* Fault: the error is returned and the recorder goes on.                  *)
WriteFailsUnpoisoned(p, batch) ==
    /\ recorder[p] = "idle" /\ appends < MaxAppends
    /\ appends' = appends + 1
    /\ LandsInPart(batch)
    /\ UNCHANGED <<recorderVars, promised>>

WriteFails(p, batch) ==
    /\ recorder[p] = "idle" /\ appends < MaxAppends
    /\ appends' = appends + 1
    /\ LandsInPart(batch)
    /\ Poison(p)

AppendRecord(p) ==
    \/ \E durable \in BOOLEAN : Write(p, RecordBatch(p), 1, durable)
    \/ WriteFails(p, RecordBatch(p))

AppendTransaction(p, n) ==
    \/ Write(p, TransactionBatch(p, n), n, TRUE)
    \/ WriteFails(p, TransactionBatch(p, n))

(* Fault: the append is reported before the file is synced.                *)
SyncNothing(p) ==
    /\ recorder[p] = "written"
    /\ recorder' = [recorder EXCEPT ![p] = "idle"]
    /\ Counted(p, writing[p])
    /\ promised' = Frontier(file)
    /\ UNCHANGED <<diskVars, lock, writing, loaded, appends>>

(* sync_data succeeds and the append is reported as durable.               *)
Sync(p) ==
    /\ recorder[p] = "written"
    /\ synced' = Len(file)
    /\ promised' = Frontier(file)
    /\ recorder' = [recorder EXCEPT ![p] = "idle"]
    /\ Counted(p, writing[p])
    /\ UNCHANGED <<file, ending, lock, writing, loaded, appends>>

SyncFails(p) ==
    /\ recorder[p] = "written"
    /\ Poison(p)
    /\ UNCHANGED <<diskVars, appends>>

-----------------------------------------------------------------------------
(* Opening                                                                 *)

(* ensure_resumable_content, and no uncommitted transaction at the end.    *)
Appendable == file # <<>> /\ ending = "newline" /\ Parses(file) /\ ~ Uncommitted(file)

Opened(p, revision) ==
    /\ lock' = p
    /\ recorder' = [recorder EXCEPT ![p] = "idle"]
    /\ sequence' = [sequence EXCEPT ![p] = revision]
    /\ writing' = [writing EXCEPT ![p] = 0]
    /\ loaded' = [loaded EXCEPT ![p] = NotLoaded]
    /\ UNCHANGED <<promised, appends>>

(* open_existing                                                           *)
Open(p) ==
    /\ recorder[p] = "closed" /\ lock = NoRecorder
    /\ Appendable
    /\ Opened(p, Revision(file))
    /\ UNCHANGED diskVars

(* read_resumable_records_with_fingerprint, without the writer lock.       *)
Load(p) ==
    /\ recorder[p] = "closed"
    /\ file # <<>> /\ StrictlyReadable
    /\ loaded' = [loaded EXCEPT ![p] = [file |-> file, ending |-> ending]]
    /\ UNCHANGED <<diskVars, lock, recorder, sequence, writing, promised, appends>>

(* Fault: the file may have changed since it was loaded.                   *)
OpenStale(p) ==
    /\ recorder[p] = "closed" /\ lock = NoRecorder
    /\ loaded[p] # NotLoaded
    /\ Appendable
    /\ Opened(p, Revision(loaded[p].file))
    /\ UNCHANGED diskVars

(* open_existing_with_records_at_fingerprint                               *)
OpenLoaded(p) ==
    /\ recorder[p] = "closed" /\ lock = NoRecorder
    /\ loaded[p] # NotLoaded
    /\ Appendable /\ loaded[p] = [file |-> file, ending |-> ending]
    /\ Opened(p, Revision(loaded[p].file))
    /\ UNCHANGED diskVars

(* repair_partial_tail: a missing newline is added, an incomplete line cut *)
(* off, and the file synced.                                               *)
Repaired ==
    /\ LenientlyReadable
    /\ ending' = "newline"
    /\ synced' = IF ending = "newline" THEN synced ELSE Len(file)
    /\ UNCHANGED file

(* Fault: an uncommitted transaction is no obstacle.                       *)
OpenUncommitted(p) ==
    /\ recorder[p] = "closed" /\ lock = NoRecorder
    /\ Repaired
    /\ Opened(p, Revision(file))

(* open_after_partial_tail_repair; it may refuse the file it repaired.     *)
OpenRepaired(p) ==
    /\ recorder[p] = "closed" /\ lock = NoRecorder
    /\ Repaired
    /\ IF Uncommitted(file) THEN UNCHANGED <<recorderVars, promised, appends>>
                            ELSE Opened(p, Revision(file))

-----------------------------------------------------------------------------
(* Closing                                                                 *)

(* The recorder is dropped, or its process dies, perhaps before the sync.  *)
Close(p) ==
    /\ recorder[p] # "closed"
    /\ recorder' = [recorder EXCEPT ![p] = "closed"]
    /\ lock' = IF lock = p THEN NoRecorder ELSE lock
    /\ UNCHANGED <<diskVars, sequence, writing, loaded, promised, appends>>

(* The system goes down: what was not synced is lost from some byte on.    *)
PowerLoss ==
    /\ \E n \in synced .. Len(file), e \in Endings :
           /\ e = "newline" => n < Len(file) \/ ending # "undelimited"
           /\ e = "undelimited" => n > synced
           /\ e \in {"torn", "tornCharacter"}
                  => n < Len(file) \/ ending \in {"torn", "tornCharacter"}
           /\ file' = SubSeq(file, 1, n) /\ ending' = e
    /\ recorder' = [p \in Recorders |-> "closed"]
    /\ lock' = NoRecorder
    /\ loaded' = [p \in Recorders |-> NotLoaded]
    /\ UNCHANGED <<synced, sequence, writing, promised, appends>>

-----------------------------------------------------------------------------
Next ==
    \/ \E p \in Recorders :
           \/ AppendRecord(p)
           \/ \E n \in Sizes : AppendTransaction(p, n)
           \/ Sync(p) \/ SyncFails(p)
           \/ Open(p) \/ Load(p) \/ OpenLoaded(p) \/ OpenRepaired(p)
           \/ Close(p)
    \/ PowerLoss

Spec == Init /\ [][Next]_vars

-----------------------------------------------------------------------------
(* The file stays a transcript: whatever failed or was interrupted, its    *)
(* complete lines parse, revisions are continuous and no record follows a  *)
(* transaction that was not committed.                                     *)
FileParses == Parses(file)

(* There is one writer, and it continues exactly where the file ends.      *)
WriterAtFrontier ==
    \A p \in Recorders : recorder[p] \in {"idle", "written"} =>
        /\ lock = p /\ ending = "newline" /\ ~ Uncommitted(file)
        /\ Revision(file) = sequence[p] + IF recorder[p] = "written" THEN writing[p] ELSE 0

(* What readers see is a durable log: see DurableLog.                      *)
Closes(l) == Free(l)
Log == INSTANCE DurableLog WITH log <- Visible(file)
ImplementsDurableLog == Log!LogSpec

(* What the documentation says: reading ignores an incomplete last line,   *)
(* if all that precedes it is valid, and the repair cuts it off.           *)
TornTailIsIgnored == Parses(file) => LenientlyReadable
=============================================================================
