----------------------------- MODULE DurableLog -----------------------------
(***************************************************************************)
(* What a session's transcript promises its readers: a log that grows by   *)
(* whole batches, each closed by its last entry, and may lose batches from *)
(* its end, but none that was reported as durable.                         *)
(* TranscriptJournal implements this log.                                  *)
(***************************************************************************)
EXTENDS Integers, Sequences

CONSTANT Closes(_)  \* the entry ends a batch

VARIABLES log,      \* the entries a reader sees
          promised  \* how many of them are reported as durable

logVars == <<log, promised>>

LogInit == log = <<>> /\ promised = 0

(* One batch more is visible, as a whole.                                  *)
Extend ==
    /\ Len(log') > Len(log)
    /\ SubSeq(log', 1, Len(log)) = log
    /\ \A i \in Len(log)+1 .. Len(log') : Closes(log'[i]) <=> i = Len(log')
    /\ UNCHANGED promised

(* All that is visible is reported as durable.                             *)
Promise == promised' = Len(log) /\ UNCHANGED log

Lose ==
    /\ \E n \in promised .. Len(log) :
           log' = SubSeq(log, 1, n) /\ (n > 0 => Closes(log[n]))
    /\ UNCHANGED promised

LogSpec == LogInit /\ [][Extend \/ Promise \/ Lose]_logVars
=============================================================================
