---------------------------- MODULE SessionStore ----------------------------
(***************************************************************************)
(* What the sessions directory promises of a session's records, wherever   *)
(* its transcript happens to be: they grow by one at a time, and nothing   *)
(* that the archive does changes them.  Only those of a session that       *)
(* somebody deletes go away.  SessionArchive implements this.              *)
(***************************************************************************)
EXTENDS Naturals

CONSTANT Members

VARIABLES records,  \* how many records each session has; 0: there is none
          doomed    \* the sessions that somebody began to delete

StoreInit == records \in [Members -> {0, 1}] /\ doomed = {}

Record ==
    /\ \E m \in Members : records' = [records EXCEPT ![m] = @ + 1]
    /\ UNCHANGED doomed

GiveUp == doomed \subseteq doomed' /\ UNCHANGED records

(* A deletion that stops may leave an older copy.                          *)
Forget ==
    /\ \A m \in Members :
          /\ records'[m] <= records[m]
          /\ m \notin doomed => records'[m] = records[m]
    /\ UNCHANGED doomed

StoreNext == Record \/ GiveUp \/ Forget

StoreSpec == StoreInit /\ [][StoreNext]_<<records, doomed>>
=============================================================================
