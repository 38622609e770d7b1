------------------------ MODULE SessionArchive_proofs ------------------------
(***************************************************************************)
(* Proofs about SessionArchive, for a family of any shape, any number of   *)
(* processes, and processes that stop anywhere: no record of a session is  *)
(* lost or rolled back unless the session is being deleted, no transcript  *)
(* is taken away from its writer, what was deleted does not come back, a   *)
(* family is restored as a whole, and saved artifacts are kept.            *)
(*                                                                         *)
(* The argument is one of ownership.  What a process relies on is guarded  *)
(* by the writer locks that it holds: Owner(p) says what they guarantee in *)
(* each phase, and Undisturbed(q) what the steps of others leave alone.    *)
(***************************************************************************)
EXTENDS SessionArchive, TLAPS

Absent(m) == live[m] = 0 /\ archived[m] > 0

(* An archive pass holds the locks of its family, whose originals are      *)
(* there until everything is published, and then equal to the copies.      *)
ArchivePass(p) ==
    /\ Root \in family[p] /\ todo[p] \subseteq family[p]
    /\ \A m \in family[p] : lock[m] = p
    /\ at[p] = "publish" =>
          \A m \in family[p] : live[m] > 0 /\ (m \notin todo[p] => archived[m] = live[m])
    /\ at[p] = "pack" => \A m \in family[p] : live[m] > 0 /\ archived[m] = live[m]
    /\ at[p] \in {"remove", "empty"} =>
          \A m \in todo[p] : archived[m] > 0 /\ live[m] \in {0, archived[m]}

(* A restore holds the root's lock; its members are absent until they land. *)
Restore(p) ==
    /\ lock[Root] = p
    /\ at[p] = "unpack" => \A m \in family[p] : Absent(m)
    /\ at[p] = "land" =>
          \A m \in family[p] : IF m \in todo[p] THEN Absent(m) ELSE live[m] > 0
    /\ at[p] \in {"land", "drop", "dropPacked"} => todo[p] \subseteq family[p]
    /\ at[p] \in {"drop", "dropPacked"} => \A m \in family[p] : live[m] > 0
    /\ at[p] = "dropStale" => \A m \in todo[p] : live[m] > 0

(* A deletion holds the locks of its family, which is doomed.              *)
Deletion(p) ==
    /\ Root \in family[p] /\ todo[p] \subseteq family[p]
    /\ family[p] \subseteq doomed
    /\ \A m \in family[p] : lock[m] = p

Owner(p) ==
    /\ at[p] \in {"idle", "collected", "chosen", "restored"} => \A m \in Members : lock[m] # p
    /\ at[p] \in {"collected", "chosen"} => Root \in family[p]
    /\ at[p] \in {"open", "cleaning"} => \A m \in Members : lock[m] = p => live[m] > 0
    /\ at[p] = "cleaning" => \A m \in todo[p] : lock[m] = p
    /\ at[p] \in Archiving => ArchivePass(p)
    /\ at[p] \in Restoring => Restore(p)
    /\ at[p] \in Erasing => Deletion(p)

(* An archived copy beside a live transcript is not ahead of it.           *)
Behind == \A m \in Members : live[m] > 0 => archived[m] <= live[m]

Inv == TypeOK /\ Behind /\ \A p \in Processes : Owner(p)

(* What a step of another process leaves alone for q.                      *)
Undisturbed(q) ==
    /\ at'[q] = at[q] /\ family'[q] = family[q] /\ todo'[q] = todo[q]
    /\ doomed \subseteq doomed'
    /\ \A m \in Members :
          /\ lock'[m] = q <=> lock[m] = q
          /\ lock[m] = q => live'[m] = live[m]
          /\ lock[Root] = q =>
                /\ lock[m] = q => archived'[m] = archived[m]
                /\ live[m] > 0 => live'[m] > 0
                /\ Absent(m) => live'[m] = live[m] /\ archived'[m] = archived[m]

Others(p) == \A q \in Processes \ {p} : Undisturbed(q)

(* The records that the store shows.                                       *)
Kept == doomed \subseteq doomed' /\ \A m \in Members : Content(m)' = Content(m)

Grown(m) ==
    /\ UNCHANGED doomed
    /\ \A n \in Members : Content(n)' = IF n = m THEN Content(m) + 1 ELSE Content(n)

Lost ==
    /\ UNCHANGED doomed
    /\ \A n \in Members :
          Content(n)' <= Content(n) /\ (n \notin doomed => Content(n)' = Content(n))

LEMMA UndisturbedOwner ==
    ASSUME TypeOK, NEW q \in Processes, Owner(q), Undisturbed(q)
    PROVE  Owner(q)'
<1> USE ArchiveAssumption DEF Undisturbed, Owner, Archiving, Restoring, Erasing
<1>1. family[q] \subseteq Members /\ todo[q] \subseteq Members
  BY DEF TypeOK
<1>2. at[q] \in Archiving => ArchivePass(q)'
  BY <1>1 DEF ArchivePass
<1>3. at[q] \in Restoring => Restore(q)'
  BY <1>1 DEF Restore, Absent, TypeOK
<1>4. at'[q] \in {"idle", "collected", "chosen", "restored"} => \A m \in Members : lock'[m] # q
  OBVIOUS
<1>5. at'[q] \in {"open", "cleaning"} => \A m \in Members : lock'[m] = q => live'[m] > 0
  OBVIOUS
<1>6. at'[q] = "cleaning" => \A m \in todo'[q] : lock'[m] = q
  BY <1>1
<1>7. at[q] \in Erasing => Deletion(q)'
  BY <1>1 DEF Deletion
<1> QED BY <1>2, <1>3, <1>4, <1>5, <1>6, <1>7

(* What a step has to show of the process that takes it.                   *)
Sound(p) == Owner(p)' /\ Others(p)

(* Steps that touch no transcript and no lock: artifacts come and go.      *)
LEMMA ArtifactStep ==
    ASSUME Inv, NEW p \in Processes, NEW m \in Members,
           UNCHANGED <<live, archived, lock, at, family, doomed>>,
           \/ UNCHANGED todo
           \/ at[p] \notin {"publish", "land"} /\ Done(p, m)
    PROVE  Sound(p) /\ Kept
<1>1. /\ family[p] \subseteq Members /\ todo'[p] \subseteq todo[p]
      /\ at[p] \in {"publish", "land"} => todo'[p] = todo[p]
  BY DEF Inv, TypeOK, Done
<1>2. Owner(p)'
  <2> USE <1>1 DEF Inv, Owner, Archiving, Restoring, Erasing
  <2>1. at[p] \in Archiving => ArchivePass(p)'
    BY DEF ArchivePass
  <2>2. at[p] \in Restoring => Restore(p)'
    BY DEF Restore, Absent
  <2>3. at[p] \in Erasing => Deletion(p)'
    BY DEF Deletion
  <2> QED BY <2>1, <2>2, <2>3
<1>3. Others(p)
  BY DEF Inv, TypeOK, Done, Others, Undisturbed
<1>4. Kept
  BY DEF Kept, Content
<1> QED BY <1>2, <1>3, <1>4 DEF Sound

(* Steps of an open session that add a record to a transcript it holds, or *)
(* create one.                                                             *)
LEMMA WriterStep ==
    ASSUME Inv, NEW p \in Processes, NEW m \in Members, at[p] = "open",
           UNCHANGED <<archived, at, family, todo, doomed>>,
           live' = [live EXCEPT ![m] = @ + 1],
           \/ lock[m] = p /\ UNCHANGED lock
           \/ Content(m) = 0 /\ Free(m) /\ lock' = Locked(p, {m})
    PROVE  /\ Sound(p)
           /\ \A n \in Members : Content(n)' = IF n = m THEN Content(m) + 1 ELSE Content(n)
<1>1. live[m] \in Nat /\ archived[m] \in Nat
  BY ArchiveAssumption DEF Inv, TypeOK
<1>2. \A n \in Members \ {m} : live'[n] = live[n] /\ lock'[n] = lock[n]
  BY DEF Inv, TypeOK, Locked
<1>3. live'[m] > 0 /\ lock'[m] = p /\ lock[m] \in {p, NoProcess} /\ ~Absent(m)
  BY <1>1 DEF Inv, TypeOK, Locked, Free, Content, Absent, Owner
<1>4. Owner(p)'
  BY <1>2, <1>3 DEF Inv, Owner, Archiving, Restoring, Erasing
<1>5. Others(p)
  BY <1>1, <1>2, <1>3, ArchiveAssumption DEF Others, Undisturbed, Inv, TypeOK
<1>6. \A n \in Members : Content(n)' = IF n = m THEN Content(m) + 1 ELSE Content(n)
  BY <1>1, <1>2 DEF Inv, TypeOK, Owner, Content
<1> QED BY <1>4, <1>5, <1>6 DEF Sound

(* An open session takes another lock of the family or gives one back.     *)
LEMMA SessionLockStep ==
    ASSUME Inv, NEW p \in Processes, NEW m \in Members, at'[p] = "open",
           UNCHANGED <<live, archived, family, todo, doomed>>,
           \A q \in Processes \ {p} : at'[q] = at[q],
           \/ /\ at[p] \in {"restored", "open"}
              /\ Free(m) /\ live[m] > 0 /\ lock' = Locked(p, {m})
           \/ /\ at[p] = "open"
              /\ lock[m] = p /\ lock' = [lock EXCEPT ![m] = NoProcess]
    PROVE  Sound(p) /\ Kept
<1>1. \A n \in Members \ {m} : lock'[n] = lock[n]
  BY DEF Inv, TypeOK, Locked
<1>2. lock[m] \in {p, NoProcess} /\ lock'[m] \in {p, NoProcess}
  BY DEF Inv, TypeOK, Locked, Free
<1>3. lock'[m] = p => live[m] > 0
  BY ArchiveAssumption DEF Inv, TypeOK, Locked, Owner
<1>4. \A n \in Members : lock'[n] = p => live[n] > 0
  BY <1>1, <1>3, ArchiveAssumption DEF Inv, Owner
<1>5. Owner(p)'
  BY <1>4 DEF Owner, Archiving, Restoring, Erasing
<1>6. Others(p)
  BY <1>1, <1>2, ArchiveAssumption DEF Others, Undisturbed, Inv, TypeOK
<1>7. Kept
  BY DEF Kept, Content
<1> QED BY <1>5, <1>6, <1>7 DEF Sound

(* A process that holds nothing takes the locks of free members and begins *)
(* a phase with them.                                                      *)
LEMMA BeginStep ==
    ASSUME Inv, NEW p \in Processes, NEW members \in SUBSET Members,
           at[p] \in {"idle", "collected", "chosen", "restored"},
           \A m \in members : Free(m),
           UNCHANGED <<live, archived>>, doomed \subseteq doomed',
           lock' = Locked(p, members),
           NEW F \in SUBSET Members, family' = [family EXCEPT ![p] = F],
           NEW phase, NEW T, Goes(p, phase, T),
           \/ phase = "cleaning" /\ T \subseteq members /\ \A m \in members : live[m] > 0
           \/ /\ phase = "publish" /\ F = members /\ T = members
              /\ Root \in members /\ \A m \in members : live[m] > 0
           \/ phase = "unpack" /\ Root \in members /\ \A m \in F : Absent(m)
           \/ /\ phase = "erase" /\ F = members /\ T = members
              /\ Root \in members /\ F \subseteq doomed'
    PROVE  Sound(p) /\ Kept
<1>1. /\ at'[p] = phase /\ todo'[p] = T /\ family'[p] = F
      /\ \A m \in Members : lock'[m] = IF m \in members THEN p ELSE lock[m]
  BY DEF Inv, TypeOK, Goes, Locked
<1>2. \A q \in Processes \ {p} : at'[q] = at[q] /\ family'[q] = family[q] /\ todo'[q] = todo[q]
  BY DEF Inv, TypeOK, Goes
<1>3. Owner(p)'
  <2>1. CASE phase = "cleaning"
    BY <1>1, <2>1 DEF Inv, Owner, Archiving, Restoring, Erasing
  <2>2. CASE phase = "publish"
    BY <1>1, <2>2 DEF Owner, Archiving, Restoring, Erasing, ArchivePass
  <2>3. CASE phase = "unpack"
    BY <1>1, <2>3, ArchiveAssumption DEF Owner, Archiving, Restoring, Erasing, Restore, Absent
  <2>4. CASE phase = "erase"
    BY <1>1, <2>4 DEF Owner, Archiving, Restoring, Erasing, Deletion
  <2> QED BY <2>1, <2>2, <2>3, <2>4
<1>4. Others(p)
  BY <1>1, <1>2, ArchiveAssumption DEF Others, Undisturbed, Free, Inv, TypeOK
<1>5. Kept
  BY DEF Kept, Content
<1> QED BY <1>3, <1>4, <1>5 DEF Sound

(* Steps that leave transcripts and locks as they are and begin the next   *)
(* phase, or none.                                                         *)
LEMMA PhaseStep ==
    ASSUME Inv, NEW p \in Processes, UNCHANGED <<live, archived, lock, doomed>>,
           NEW F, family' = [family EXCEPT ![p] = F],
           NEW phase, NEW T, Goes(p, phase, T), Owner(p)'
    PROVE  Sound(p) /\ Kept
<1>1. Others(p)
  BY DEF Others, Undisturbed, Inv, TypeOK, Goes
<1>2. Kept
  BY DEF Kept, Content
<1> QED BY <1>1, <1>2 DEF Sound

LEMMA AdvanceStep ==
    ASSUME Inv, NEW p \in Processes, Advance(p)
    PROVE  Sound(p) /\ Kept
<1> DEFINE phase == Following[at[p]]
           T == MembersFor(p, phase)
<1>1. /\ todo[p] = {} /\ family' = family /\ UNCHANGED <<live, archived, lock, doomed>>
      /\ at'[p] = phase /\ todo'[p] = T /\ Goes(p, phase, T)
  BY DEF Advance, Goes, Inv, TypeOK, files, history, deleted
<1>2. family[p] \subseteq Members /\ family' = [family EXCEPT ![p] = family[p]]
  BY <1>1 DEF Inv, TypeOK
<1>3. Owner(p)
  BY DEF Inv
<1>4. Owner(p)'
  <2>1. CASE at[p] = "publish"
    <3>1. phase = "pack" /\ T \subseteq family[p]
      BY <2>1 DEF Following, MembersFor
    <3> QED BY <1>1, <1>2, <1>3, <2>1, <3>1 DEF Owner, Archiving, Restoring, Erasing, ArchivePass
  <2>2. CASE at[p] = "pack"
    <3>1. phase = "remove" /\ T = family[p]
      BY <2>2 DEF Following, MembersFor
    <3> QED BY <1>1, <1>2, <1>3, <2>2, <3>1 DEF Owner, Archiving, Restoring, Erasing, ArchivePass
  <2>3. CASE at[p] = "unpack"
    <3>1. phase = "land" /\ T = family[p]
      BY <2>3 DEF Following, MembersFor
    <3> QED BY <1>1, <1>2, <1>3, <2>3, <3>1 DEF Owner, Archiving, Restoring, Erasing, Restore, Absent
  <2>4. CASE at[p] \in {"land", "drop"}
    <3>1. phase \in {"drop", "dropPacked"} /\ T = family[p]
      BY <2>4 DEF Following, MembersFor
    <3> QED BY <1>1, <1>2, <1>3, <2>4, <3>1 DEF Owner, Archiving, Restoring, Erasing, Restore
  <2>5. CASE at[p] = "dropPacked"
    <3>1. phase = "dropStale" /\ \A m \in T : live[m] > 0
      BY <2>5 DEF Following, MembersFor, Stale
    <3> QED BY <1>1, <1>3, <2>5, <3>1 DEF Owner, Archiving, Restoring, Erasing, Restore
  <2>6. CASE at[p] = "dropStale"
    <3>1. phase = "returning"
      BY <2>6 DEF Following
    <3> QED BY <1>1, <1>3, <2>6, <3>1 DEF Owner, Archiving, Restoring, Erasing, Restore
  <2>7. at[p] \in {"publish", "pack", "unpack", "land", "drop", "dropPacked", "dropStale"}
    BY DEF Advance, Following
  <2> QED BY <2>1, <2>2, <2>3, <2>4, <2>5, <2>6, <2>7
<1> HIDE DEF phase, T
<1> QED BY <1>1, <1>2, <1>4, PhaseStep

(* A process ends what it did and lets go of its locks.                    *)
LEMMA ReleaseStep ==
    ASSUME Inv, NEW p \in Processes, Finish(p) \/ Stop(p) \/ EndDelete(p)
    PROVE  Sound(p) /\ Kept
<1>1. /\ UNCHANGED <<live, archived, doomed>> /\ lock' = Released(p)
      /\ at'[p] \in {"idle", "restored"}
      /\ \A q \in Processes \ {p} :
            at'[q] = at[q] /\ family'[q] = family[q] /\ todo'[q] = todo[q]
  BY DEF Finish, Stop, Goes, EndDelete, files, history, deleted, Inv, TypeOK
<1>2. \A m \in Members : lock'[m] = IF lock[m] = p THEN NoProcess ELSE lock[m]
  BY <1>1 DEF Released
<1>3. Owner(p)'
  BY <1>1, <1>2, ArchiveAssumption DEF Owner, Archiving, Restoring, Erasing
<1>4. Others(p)
  BY <1>1, <1>2, ArchiveAssumption DEF Others, Undisturbed
<1>5. Kept
  BY <1>1 DEF Kept, Content
<1> QED BY <1>3, <1>4, <1>5 DEF Sound

(* Steps that write or remove one copy of a transcript.                    *)
LEMMA PublishStep ==
    ASSUME Inv, NEW p \in Processes, NEW m \in Members, Publish(p, m)
    PROVE  Sound(p) /\ Kept
<1>1. /\ ArchivePass(p) /\ m \in family[p] /\ live[m] > 0 /\ lock[m] = p /\ lock[Root] = p
      /\ family[p] \subseteq Members
  BY DEF Publish, Foremost, Inv, Owner, Archiving, ArchivePass, TypeOK
<1>2. /\ UNCHANGED <<live, lock, at, family, doomed>> /\ todo'[p] = todo[p] \ {m}
      /\ \A n \in Members : archived'[n] = IF n = m THEN live[m] ELSE archived[n]
      /\ \A q \in Processes \ {p} : todo'[q] = todo[q]
  BY DEF Publish, Done, Inv, TypeOK, history, deleted
<1>3. ArchivePass(p)'
  BY <1>1, <1>2 DEF Publish, ArchivePass
<1>4. Owner(p)'
  BY <1>2, <1>3 DEF Publish, Owner, Archiving, Restoring, Erasing
<1>5. Others(p)
  BY <1>1, <1>2 DEF Others, Undisturbed
<1>6. Kept
  BY <1>1, <1>2 DEF Kept, Content
<1> QED BY <1>4, <1>5, <1>6 DEF Sound

(* The copy that an original leaves behind is equal to it.                 *)
LEMMA RemoveStep ==
    ASSUME Inv, NEW p \in Processes, NEW m \in Members, RemoveTranscript(p, m)
    PROVE  Sound(p) /\ Kept
<1>1. /\ ArchivePass(p) /\ m \in family[p] /\ archived[m] > 0 /\ live[m] \in {0, archived[m]}
      /\ lock[m] = p /\ lock[Root] = p /\ family[p] \subseteq Members
  BY DEF RemoveTranscript, Foremost, Inv, Owner, Archiving, ArchivePass, TypeOK
<1>2. /\ UNCHANGED <<archived, lock, family, todo, doomed>> /\ at'[p] = "empty"
      /\ \A n \in Members : n # m => live'[n] = live[n]
      /\ live'[m] \in {0, live[m]}
      /\ \A q \in Processes \ {p} : at'[q] = at[q]
  BY DEF RemoveTranscript, Inv, TypeOK, deleted
<1>3. ArchivePass(p)'
  BY <1>1, <1>2 DEF RemoveTranscript, ArchivePass
<1>4. Owner(p)'
  BY <1>2, <1>3 DEF Owner, Archiving, Restoring, Erasing
<1>5. Others(p)
  BY <1>1, <1>2 DEF Others, Undisturbed
<1>6. Kept
  BY <1>1, <1>2 DEF Kept, Content
<1> QED BY <1>4, <1>5, <1>6 DEF Sound

LEMMA RemoveFolderStep ==
    ASSUME Inv, NEW p \in Processes, NEW m \in Members, RemoveFolder(p, m)
    PROVE  Sound(p) /\ Kept
<1>1. ArchivePass(p)
  BY DEF RemoveFolder, Inv, Owner, Archiving
<1>2. /\ UNCHANGED <<live, archived, lock, family, doomed>>
      /\ at'[p] = "remove" /\ todo'[p] = todo[p] \ {m}
      /\ \A q \in Processes \ {p} : at'[q] = at[q] /\ todo'[q] = todo[q]
  BY DEF RemoveFolder, Done, Inv, TypeOK, deleted
<1>3. ArchivePass(p)'
  BY <1>1, <1>2 DEF RemoveFolder, ArchivePass
<1>4. Owner(p)'
  BY <1>2, <1>3 DEF Owner, Archiving, Restoring, Erasing
<1>5. Others(p)
  BY <1>2 DEF Others, Undisturbed
<1>6. Kept
  BY <1>2 DEF Kept, Content
<1> QED BY <1>4, <1>5, <1>6 DEF Sound

(* What lands was absent, so nothing newer is overwritten.                 *)
LEMMA LandStep ==
    ASSUME Inv, NEW p \in Processes, NEW m \in Members, Land(p, m)
    PROVE  Sound(p) /\ Kept
<1>1. /\ Restore(p) /\ m \in family[p] /\ Absent(m) /\ lock[Root] = p
      /\ family[p] \subseteq Members
  BY DEF Land, Foremost, Inv, Owner, Restoring, Restore, TypeOK
<1>2. /\ UNCHANGED <<archived, lock, at, family, doomed>> /\ todo'[p] = todo[p] \ {m}
      /\ \A n \in Members : live'[n] = IF n = m THEN archived[m] ELSE live[n]
      /\ \A q \in Processes \ {p} : todo'[q] = todo[q]
  BY DEF Land, Done, Inv, TypeOK, history, deleted
<1>3. Restore(p)'
  BY <1>1, <1>2 DEF Land, Restore, Absent
<1>4. Owner(p)'
  BY <1>2, <1>3 DEF Land, Owner, Archiving, Restoring, Erasing
<1>5. lock[m] \notin Processes \ {p}
  <2> SUFFICES ASSUME NEW q \in Processes \ {p}, lock[m] = q PROVE FALSE
    OBVIOUS
  <2>1. Owner(q) /\ lock[Root] # q /\ ~(live[m] > 0) /\ at[q] \in Phases
    BY <1>1 DEF Inv, TypeOK, Absent
  <2> QED BY <2>1 DEF Owner, ArchivePass, Restore, Deletion, Phases
<1>6. Others(p)
  BY <1>1, <1>2, <1>5 DEF Others, Undisturbed
<1>7. Kept
  BY <1>1, <1>2 DEF Kept, Content, Absent
<1> QED BY <1>4, <1>6, <1>7 DEF Sound

(* An archived copy is dropped where there is a live transcript.           *)
LEMMA DropStep ==
    ASSUME Inv, NEW p \in Processes, NEW m \in Members,
           DropTranscript(p, m) \/ Drop(p, m)
    PROVE  Sound(p) /\ Kept
<1>1. /\ live[m] > 0 /\ (lock[Root] = p \/ lock[m] = p) /\ family[p] \subseteq Members
      /\ at[p] \in {"cleaning", "dropStale", "drop"} /\ todo[p] \subseteq Members
  BY DEF DropTranscript, Drop, Foremost, Inv, Owner, Restoring, Restore, TypeOK
<1>2. /\ UNCHANGED <<live, lock, at, family, doomed>> /\ todo'[p] \subseteq todo[p]
      /\ \A n \in Members : n # m => archived'[n] = archived[n]
      /\ \A q \in Processes \ {p} : todo'[q] = todo[q]
  BY DEF DropTranscript, Drop, Done, process, history, deleted, Inv, TypeOK
<1>3. Owner(p)'
  BY <1>1, <1>2 DEF Inv, Owner, Archiving, Restoring, Erasing, Restore
<1>4. Others(p)
  BY <1>1, <1>2 DEF Others, Undisturbed, Absent
<1>5. Kept
  BY <1>1, <1>2 DEF Kept, Content
<1> QED BY <1>3, <1>4, <1>5 DEF Sound

-----------------------------------------------------------------------------
LEMMA Walked ==
    ASSUME NEW children
    PROVE  Root \in Walk(children) /\ Walk(children) \subseteq Members
BY ArchiveAssumption DEF Walk

(* A folder that exists holds itself, whatever else it holds.              *)
LEMMA FolderSets ==
    ASSUME NEW S
    PROVE  S \in Folders <=> S \subseteq Artifacts \cup {Dir} /\ (S # {} => Dir \in S)
<1>1. ASSUME S \in Folders PROVE S \subseteq Artifacts \cup {Dir} /\ (S # {} => Dir \in S)
  BY <1>1 DEF Folders, NoFolder
<1>2. ASSUME S \subseteq Artifacts \cup {Dir}, S # {} => Dir \in S PROVE S \in Folders
  <2>1. CASE S = {}
    BY <2>1 DEF Folders, NoFolder
  <2>2. CASE S # {}
    <3>1. S \ {Dir} \in SUBSET Artifacts /\ S = {Dir} \cup (S \ {Dir})
      BY <1>2, <2>2
    <3> QED BY <3>1 DEF Folders
  <2> QED BY <2>1, <2>2
<1> QED BY <1>1, <1>2

LEMMA InitInv == Init => Inv
<1> SUFFICES ASSUME Init PROVE Inv
  OBVIOUS
<1>1. TypeOK
  BY ArchiveAssumption DEF Init, TypeOK, Phases, Folders, NoFolder
<1>2. ASSUME NEW p \in Processes PROVE Owner(p)
  BY ArchiveAssumption DEF Init, Owner, Archiving, Restoring, Erasing
<1>3. Behind
  BY ArchiveAssumption DEF Init, Behind
<1> QED BY <1>1, <1>2, <1>3 DEF Inv

LEMMA TypeStep == TypeOK /\ [Next]_vars => TypeOK'
<1> SUFFICES ASSUME TypeOK, [Next]_vars PROVE TypeOK'
  OBVIOUS
<1> USE ArchiveAssumption
<1> USE DEF files, process, history, deleted, Goes, Done, Locked, Released, Fault
<1>1. CASE UNCHANGED vars
  BY <1>1 DEF TypeOK, vars
<1>2. ASSUME NEW p \in Processes,
             Open(p) \/ Collect(p) \/ LockFamily(p) \/ Resume(p) \/ ResumeWithout(p)
      PROVE  TypeOK'
  <2>1. LiveFamily \subseteq Members /\ Planned \subseteq Members
    BY Walked DEF LiveFamily, Planned, Reach
  <2>2. CASE Open(p) \/ ResumeWithout(p)
    BY <2>2 DEF TypeOK, Open, ResumeWithout, Phases
  <2>3. CASE Collect(p)
    BY <2>1, <2>3 DEF TypeOK, Collect, Phases
  <2>4. CASE LockFamily(p)
    BY <2>4 DEF TypeOK, LockFamily, Phases, Archiving
  <2>5. CASE Resume(p)
    BY <2>1, <2>5 DEF TypeOK, Resume, Phases, Restoring, Packed
  <2> QED BY <1>2, <2>2, <2>3, <2>4, <2>5
<1>3. ASSUME NEW p \in Processes, Advance(p) PROVE TypeOK'
  <2>1. Following[at[p]] \in Phases
    BY <1>3 DEF Advance, Following, Phases, Archiving, Restoring, Erasing
  <2>2. MembersFor(p, Following[at[p]]) \subseteq Members
    BY <1>3, Walked DEF Advance, Following, MembersFor, Stale, Reach, TypeOK
  <2> QED BY <1>3, <2>1, <2>2 DEF TypeOK, Advance
<1>4. ASSUME NEW p \in Processes, Finish(p) \/ Stop(p) \/ EndDelete(p) PROVE TypeOK'
  BY <1>4 DEF TypeOK, Finish, Stop, EndDelete, Emptied, Phases
<1>5. ASSUME NEW p \in Processes, NEW c \in Children,
             CreateChild(p, c) \/ RecordChild(p, c) \/ OpenChild(p, c) \/ CloseChild(p, c)
      PROVE  TypeOK'
  <2>1. c \in Members /\ ParentOf[c] \in Members
    BY DEF Children
  <2> QED BY <1>5, <2>1 DEF TypeOK, CreateChild, RecordChild, OpenChild, CloseChild
<1>6. ASSUME NEW p \in Processes, NEW m \in Members,
             Append(p, m) \/ Publish(p, m) \/ Land(p, m) \/ DropTranscript(p, m) \/ Drop(p, m)
      PROVE  TypeOK'
  BY <1>6 DEF TypeOK, Append, Publish, Land, DropTranscript, Drop
<1>7. ASSUME NEW p \in Processes, NEW m \in Members, NEW a \in Artifacts,
             Save(p, m, a) \/ RemoveArtifact(p, m, a)
      PROVE  TypeOK'
  <2>1. folder[m] \in Folders /\ Dir # a
    BY DEF TypeOK
  <2>2. folder[m] \cup {Dir, a} \in Folders
    BY <2>1, FolderSets
  <2>3. folder[m] \ {a} \in Folders
    BY <2>1, FolderSets
  <2>4. saved[m] \cup {a} \in SUBSET Artifacts
    BY DEF TypeOK
  <2>5. CASE Save(p, m, a)
    <3>1. folder' \in [Members -> Folders] /\ saved' \in [Members -> SUBSET Artifacts]
      BY <2>2, <2>4, <2>5 DEF TypeOK, Save
    <3> QED BY <2>5, <3>1 DEF TypeOK, Save
  <2>6. CASE RemoveArtifact(p, m, a)
    <3>1. folder' \in [Members -> Folders]
      BY <2>3, <2>6 DEF TypeOK, RemoveArtifact
    <3> QED BY <2>6, <3>1 DEF TypeOK, RemoveArtifact
  <2> QED BY <1>7, <2>5, <2>6
<1>8. ASSUME NEW p \in Processes, NEW m \in Members,
             Pack(p, m) \/ Unpack(p, m) \/ DropPacked(p, m) \/ DropArtifacts(p, m)
      PROVE  TypeOK'
  <2>1. NoFolder \in Folders
    BY DEF Folders
  <2> QED BY <1>8, <2>1 DEF TypeOK, Pack, Unpack, DropPacked, DropArtifacts
<1>9. ASSUME NEW p \in Processes, NEW m \in Members,
             Clean(p, m) \/ RemoveTranscript(p, m) \/ RemoveFolder(p, m)
      PROVE  TypeOK'
  <2>1. NoFolder \in Folders
    BY DEF Folders
  <2>2. CASE Clean(p, m)
    BY <2>2 DEF TypeOK, Clean, Phases
  <2>3. CASE RemoveTranscript(p, m)
    BY <2>3 DEF TypeOK, RemoveTranscript, Phases, Archiving
  <2>4. CASE RemoveFolder(p, m)
    BY <2>1, <2>4 DEF TypeOK, RemoveFolder, Emptied, Phases, Archiving
  <2> QED BY <1>9, <2>2, <2>3, <2>4
<1>10. ASSUME NEW p \in Processes, Choose(p) \/ LockForDelete(p) PROVE TypeOK'
  <2>1. {m \in Reach : Content(m) > 0} \subseteq Members
    BY Walked DEF Reach
  <2>2. CASE Choose(p)
    <3>1. family'[p] \subseteq Members /\ family' = [family EXCEPT ![p] = family'[p]]
      BY <2>1, <2>2 DEF TypeOK, Choose
    <3> QED BY <2>2, <3>1 DEF TypeOK, Choose, Phases
  <2>3. CASE LockForDelete(p)
    BY <2>3 DEF TypeOK, LockForDelete, Phases, Erasing
  <2> QED BY <1>10, <2>2, <2>3
<1>11. ASSUME NEW p \in Processes, NEW m \in Members,
              \/ EraseTranscript(p, m) \/ EraseArchive(p, m)
              \/ ErasePacked(p, m) \/ EraseFolder(p, m)
       PROVE  TypeOK'
  <2>1. NoFolder \in Folders
    BY DEF Folders
  <2>2. ASSUME NEW records PROVE Forgotten(m, records) \in [Children -> 0 .. MaxRecords]
    BY DEF TypeOK, Forgotten
  <2>3. recorded' \in [Children -> 0 .. MaxRecords]
    BY <1>11, <2>2 DEF TypeOK, EraseTranscript, EraseArchive, ErasePacked, EraseFolder
  <2> QED BY <1>11, <2>1, <2>3
        DEF TypeOK, EraseTranscript, EraseArchive, ErasePacked, EraseFolder, Phases, Erasing
<1> QED BY <1>1, <1>2, <1>3, <1>4, <1>5, <1>6, <1>7, <1>8, <1>9, <1>10, <1>11 DEF Next

-----------------------------------------------------------------------------
(* A process that holds nothing looks at the family, or has nothing to do. *)
LEMMA WaitStep ==
    ASSUME Inv, NEW p \in Processes,
           Collect(p) \/ Choose(p) \/ ResumeWithout(p) \/ (Resume(p) /\ Planned \cup Stale = {})
    PROVE  Sound(p) /\ Kept
<1>1. /\ UNCHANGED <<live, archived, lock, todo, doomed>>
      /\ at[p] \in {"idle", "restored"} /\ at'[p] \in {"collected", "chosen", "restored"}
      /\ \A q \in Processes \ {p} : at'[q] = at[q] /\ family'[q] = family[q]
  BY DEF Collect, Choose, ResumeWithout, Resume, files, history, deleted, Inv, TypeOK
<1>2. at'[p] \in {"collected", "chosen"} => Root \in family'[p]
  <2>1. Root \in LiveFamily /\ Root \in Reach
    BY Walked DEF LiveFamily, Reach
  <2>2. Choose(p) => Root \in family'[p]
    BY <2>1 DEF Choose, Inv, TypeOK
  <2> QED BY <2>1, <2>2 DEF Collect, ResumeWithout, Resume, Inv, TypeOK
<1>3. Owner(p)'
  BY <1>1, <1>2 DEF Inv, Owner, Archiving, Restoring, Erasing
<1>4. Others(p)
  BY <1>1 DEF Others, Undisturbed
<1>5. Kept
  BY <1>1 DEF Kept, Content
<1> QED BY <1>3, <1>4, <1>5 DEF Sound

Step(p) == Sound(p) /\ (Kept \/ Lost \/ \E m \in Members : Grown(m))

LEMMA SessionStep ==
    ASSUME Inv, NEW p \in Processes, NEW m \in Members, Open(p) \/ Append(p, m)
    PROVE  Step(p)
<1> USE DEF Step, Grown, Writes, files, process, history, deleted
<1>1. CASE Open(p)
  BY <1>1, SessionLockStep, ArchiveAssumption DEF Open, Inv, TypeOK
<1>2. CASE Append(p, m)
  BY <1>2, WriterStep DEF Append
<1> QED BY <1>1, <1>2

LEMMA ChildStep ==
    ASSUME Inv, NEW p \in Processes, NEW c \in Children,
           CreateChild(p, c) \/ RecordChild(p, c) \/ OpenChild(p, c) \/ CloseChild(p, c)
    PROVE  Step(p)
<1> USE DEF Step, Grown, Writes, files, process, history, deleted
<1>1. c \in Members /\ ParentOf[c] \in Members
  BY ArchiveAssumption DEF Children
<1>2. CASE CreateChild(p, c)
  <2>1. live' = [live EXCEPT ![c] = @ + 1]
    <3>1. live[c] = 0
      BY <1>1, <1>2, ArchiveAssumption DEF CreateChild, Content, Inv, TypeOK
    <3>2. live[c] + 1 = 1
      BY <3>1
    <3> QED BY <1>2, <3>2 DEF CreateChild
  <2> QED BY <1>1, <1>2, <2>1, WriterStep DEF CreateChild
<1>3. CASE RecordChild(p, c)
  BY <1>1, <1>3, WriterStep DEF RecordChild
<1>4. CASE OpenChild(p, c)
  BY <1>1, <1>4, SessionLockStep DEF OpenChild
<1>5. CASE CloseChild(p, c)
  BY <1>1, <1>5, SessionLockStep DEF CloseChild
<1> QED BY <1>2, <1>3, <1>4, <1>5

LEMMA LockStep ==
    ASSUME Inv, NEW p \in Processes, NEW m \in Members,
           Clean(p, m) \/ LockFamily(p) \/ Resume(p) \/ LockForDelete(p)
    PROVE  Sound(p) /\ Kept
<1> USE ArchiveAssumption DEF files, history, deleted
<1>1. \A F : family' = family => family' = [family EXCEPT ![p] = family[p]]
  BY DEF Inv, TypeOK
<1>2. family[p] \subseteq Members /\ Planned \subseteq Members
  BY Walked DEF Inv, TypeOK, Planned, Reach
<1>3. CASE Clean(p, m)
  <2>1. {m} \in SUBSET Members /\ \A n \in {m} : Free(n) /\ live[n] > 0
    BY <1>3 DEF Clean
  <2>2. UNCHANGED <<live, archived, doomed, family>> /\ Goes(p, "cleaning", {m})
    BY <1>3 DEF Clean
  <2> QED BY <1>1, <1>2, <1>3, <2>1, <2>2, BeginStep DEF Clean
<1>4. CASE LockFamily(p)
  <2>1. Root \in family[p]
    BY <1>4 DEF LockFamily, Inv, Owner
  <2> QED BY <1>1, <1>2, <1>4, <2>1, BeginStep DEF LockFamily
<1>5. CASE Resume(p) /\ Planned \cup Stale # {}
  <2>1. \A n \in Planned : Absent(n)
    BY DEF Planned, Absent, Inv, TypeOK
  <2> QED BY <1>2, <1>5, <2>1, BeginStep DEF Resume
<1>6. CASE LockForDelete(p)
  <2>1. Root \in family[p]
    BY <1>6 DEF LockForDelete, Inv, Owner
  <2> QED BY <1>1, <1>2, <1>6, <2>1, BeginStep DEF LockForDelete
<1> QED BY <1>3, <1>4, <1>5, <1>6, WaitStep

(* What a deletion removes belongs to its family.                          *)
LEMMA EraseStep ==
    ASSUME Inv, NEW p \in Processes, NEW m \in Members,
           EraseTranscript(p, m) \/ EraseArchive(p, m) \/ ErasePacked(p, m) \/ EraseFolder(p, m)
    PROVE  Sound(p) /\ Lost
<1> USE DEF EraseTranscript, EraseArchive, ErasePacked, EraseFolder
<1>1. /\ Deletion(p) /\ m \in family[p] /\ m \in doomed /\ lock[m] = p /\ lock[Root] = p
      /\ family[p] \subseteq Members
  BY DEF Foremost, Inv, Owner, Erasing, Deletion, TypeOK
<1>2. /\ UNCHANGED <<lock, family, doomed>> /\ at'[p] \in Erasing /\ todo'[p] \subseteq todo[p]
      /\ \A q \in Processes \ {p} : at'[q] = at[q] /\ todo'[q] = todo[q]
  BY DEF Inv, TypeOK, Erasing, Done, deleted
<1>3. /\ \A n \in Members : n # m => live'[n] = live[n] /\ archived'[n] = archived[n]
      /\ live'[m] \in {0, live[m]} /\ archived'[m] \in {0, archived[m]}
      /\ at[p] # "erase" => live'[m] = live[m]
  BY DEF Inv, TypeOK
<1>4. Owner(p)'
  BY <1>1, <1>2 DEF Owner, Archiving, Restoring, Erasing, Deletion
<1>5. Others(p)
  BY <1>1, <1>2, <1>3 DEF Others, Undisturbed
<1>6. Lost
  <2>1. live[m] \in Nat /\ archived[m] \in Nat /\ (live[m] > 0 => archived[m] <= live[m])
    BY ArchiveAssumption DEF Inv, TypeOK, Behind
  <2>2. \A n \in Members : Content(n) \in Nat
    BY ArchiveAssumption DEF Inv, TypeOK, Content
  <2>3. Content(m)' <= Content(m)
    BY <1>3, <2>1 DEF Content
  <2> QED BY <1>1, <1>2, <1>3, <2>2, <2>3 DEF Lost, Content
<1> QED BY <1>4, <1>5, <1>6 DEF Sound

LEMMA FileStep ==
    ASSUME Inv, NEW p \in Processes, NEW m \in Members,
           \/ \E a \in Artifacts : Save(p, m, a) \/ RemoveArtifact(p, m, a)
           \/ Pack(p, m) \/ Unpack(p, m) \/ DropPacked(p, m) \/ DropArtifacts(p, m)
    PROVE  Sound(p) /\ Kept
<1>1. UNCHANGED <<live, archived, lock, at, family, doomed>>
  BY DEF Save, RemoveArtifact, Pack, Unpack, DropPacked, DropArtifacts, process, history, deleted
<1>2. UNCHANGED todo \/ (at[p] \notin {"publish", "land"} /\ Done(p, m))
  BY DEF Save, RemoveArtifact, Pack, Unpack, DropPacked, DropArtifacts, process, history, deleted
<1> QED BY <1>1, <1>2, ArtifactStep

Acts(p) ==
    \/ Open(p) \/ Collect(p) \/ LockFamily(p) \/ Resume(p) \/ ResumeWithout(p)
    \/ Advance(p) \/ Finish(p) \/ Stop(p)
    \/ Choose(p) \/ LockForDelete(p) \/ EndDelete(p)
    \/ \E c \in Children :
          CreateChild(p, c) \/ RecordChild(p, c) \/ OpenChild(p, c) \/ CloseChild(p, c)
    \/ \E m \in Members :
          \/ Append(p, m) \/ \E a \in Artifacts : Save(p, m, a)
          \/ Clean(p, m) \/ DropTranscript(p, m) \/ DropArtifacts(p, m)
          \/ Publish(p, m) \/ Pack(p, m)
          \/ RemoveTranscript(p, m) \/ RemoveFolder(p, m)
          \/ \E a \in Artifacts : RemoveArtifact(p, m, a)
          \/ Unpack(p, m) \/ Land(p, m) \/ Drop(p, m) \/ DropPacked(p, m)
          \/ EraseTranscript(p, m) \/ EraseArchive(p, m)
          \/ ErasePacked(p, m) \/ EraseFolder(p, m)

LEMMA ActStep == ASSUME Inv, NEW p \in Processes, Acts(p) PROVE Step(p)
<1>2. Root \in Members
  BY ArchiveAssumption
<1>3. CASE \/ Collect(p) \/ Choose(p) \/ ResumeWithout(p)
           \/ LockFamily(p) \/ LockForDelete(p) \/ Resume(p)
  BY <1>2, <1>3, WaitStep, LockStep DEF Step
<1>4. CASE Advance(p) \/ Finish(p) \/ Stop(p) \/ EndDelete(p)
  BY <1>4, AdvanceStep, ReleaseStep DEF Step
<1>5. ASSUME NEW c \in Children,
             CreateChild(p, c) \/ RecordChild(p, c) \/ OpenChild(p, c) \/ CloseChild(p, c)
      PROVE  Step(p)
  BY <1>5, ChildStep
<1>6. ASSUME NEW m \in Members,
             \/ \E a \in Artifacts : Save(p, m, a) \/ RemoveArtifact(p, m, a)
             \/ Pack(p, m) \/ Unpack(p, m) \/ DropPacked(p, m) \/ DropArtifacts(p, m)
      PROVE  Step(p)
  BY <1>6, FileStep DEF Step
<1>7. ASSUME NEW m \in Members,
             \/ Clean(p, m) \/ DropTranscript(p, m) \/ Drop(p, m) \/ Publish(p, m)
             \/ RemoveTranscript(p, m) \/ RemoveFolder(p, m) \/ Land(p, m)
      PROVE  Step(p)
  BY <1>7, LockStep, DropStep, PublishStep, RemoveStep, RemoveFolderStep, LandStep DEF Step
<1>8. ASSUME Open(p) \/ (\E m \in Members : Append(p, m)) PROVE Step(p)
  BY <1>2, <1>8, SessionStep
<1>9. ASSUME NEW m \in Members,
             EraseTranscript(p, m) \/ EraseArchive(p, m) \/ ErasePacked(p, m) \/ EraseFolder(p, m)
      PROVE  Step(p)
  BY <1>9, EraseStep DEF Step
<1> QED BY <1>3, <1>4, <1>5, <1>6, <1>7, <1>8, <1>9 DEF Acts

LEMMA NextActs == Next => \E p \in Processes : Acts(p)
BY DEF Next, Acts

LEMMA NextStep == Inv /\ Next => \E p \in Processes : Step(p)
BY ActStep, NextActs

(* A live transcript only grows, and is copied whole.                      *)
LEMMA BehindStep == Inv /\ Next => Behind'
<1> SUFFICES ASSUME Inv, Next, NEW n \in Members, live'[n] > 0
             PROVE  archived'[n] <= live'[n]
  BY DEF Behind
<1> USE ArchiveAssumption DEF Inv, TypeOK, Behind, files
<1>1. live[n] \in Nat /\ archived[n] \in Nat /\ (live[n] > 0 => archived[n] <= live[n])
  OBVIOUS
<1>2. CASE live'[n] = live[n] /\ archived'[n] \in {0, archived[n]}
  BY <1>1, <1>2
<1>3. ASSUME NEW p \in Processes, NEW c \in Children, CreateChild(p, c) \/ RecordChild(p, c)
      PROVE  archived'[n] <= live'[n]
  BY <1>1, <1>2, <1>3 DEF CreateChild, RecordChild, Content, Owner, Writes, Children
<1>4. ASSUME NEW p \in Processes, NEW m \in Members,
             Append(p, m) \/ Publish(p, m) \/ Land(p, m)
      PROVE  archived'[n] <= live'[n]
  <2>1. CASE Append(p, m)
    BY <1>1, <1>2, <2>1 DEF Append, Writes, Owner
  <2>2. CASE Publish(p, m) \/ Land(p, m)
    BY <1>1, <1>2, <2>2 DEF Publish, Land
  <2> QED BY <1>4, <2>1, <2>2
<1>5. ASSUME NEW p \in Processes, NEW m \in Members,
             \/ DropTranscript(p, m) \/ RemoveTranscript(p, m) \/ Drop(p, m)
             \/ EraseTranscript(p, m) \/ EraseArchive(p, m)
      PROVE  archived'[n] <= live'[n]
  <2>1. live'[n] \in {0, live[n]} /\ archived'[n] \in {0, archived[n]}
    BY <1>5 DEF DropTranscript, RemoveTranscript, Drop, EraseTranscript, EraseArchive
  <2> QED BY <1>1, <2>1
<1>6. ASSUME NEW p \in Processes,
             \/ Open(p) \/ Collect(p) \/ LockFamily(p) \/ Resume(p) \/ ResumeWithout(p)
             \/ Advance(p) \/ Finish(p) \/ Stop(p)
             \/ Choose(p) \/ LockForDelete(p) \/ EndDelete(p)
      PROVE  UNCHANGED <<live, archived>>
  BY <1>6 DEF Open, Collect, LockFamily, Resume, ResumeWithout, Advance, Finish, Stop,
              Choose, LockForDelete, EndDelete
<1>7. ASSUME NEW p \in Processes,
             \/ \E c \in Children : OpenChild(p, c) \/ CloseChild(p, c)
             \/ \E m \in Members :
                   \/ \E a \in Artifacts : Save(p, m, a) \/ RemoveArtifact(p, m, a)
                   \/ Clean(p, m) \/ DropArtifacts(p, m) \/ Pack(p, m) \/ RemoveFolder(p, m)
                   \/ Unpack(p, m) \/ DropPacked(p, m) \/ ErasePacked(p, m) \/ EraseFolder(p, m)
      PROVE  UNCHANGED <<live, archived>>
  BY <1>7 DEF OpenChild, CloseChild, Save, RemoveArtifact, Clean, DropArtifacts, Pack,
              RemoveFolder, Unpack, DropPacked, ErasePacked, EraseFolder
<1>8. CASE UNCHANGED <<live, archived>>
  BY <1>2, <1>8
<1> HIDE DEF Inv, TypeOK, Behind, files
<1> QED BY <1>3, <1>4, <1>5, <1>6, <1>7, <1>8 DEF Next

LEMMA StepInv == Inv /\ [Next]_vars => Inv'
<1> SUFFICES ASSUME Inv, [Next]_vars PROVE Inv'
  OBVIOUS
<1>1. TypeOK'
  BY TypeStep DEF Inv
<1>2. CASE UNCHANGED vars
  BY <1>1, <1>2 DEF vars, files, process, Inv, Owner, Archiving, Restoring, Erasing, ArchivePass,
                    Restore, Absent, Deletion, Erasing, Behind, history, deleted
<1>3. CASE Next
  <2>1. PICK p \in Processes : Step(p)
    BY <1>3, NextStep
  <2>2. ASSUME NEW q \in Processes PROVE Owner(q)'
    BY <2>1, UndisturbedOwner DEF Inv, Step, Sound, Others
  <2> QED BY <1>1, <1>3, <2>2, BehindStep DEF Inv
<1> QED BY <1>2, <1>3

LEMMA Invariance == Spec => []Inv
BY InitInv, StepInv, PTL DEF Spec

(* Every variable keeps its type, whatever the family and the processes.   *)
THEOREM ArchiveTypeCorrect == Spec => []TypeOK
BY Invariance, PTL DEF Inv

(* A session that is open for writing has its transcript in place: no      *)
(* archive pass takes it away under the writer lock.                       *)
THEOREM WritersKeepTheirs == Spec => []WritersKeepTheirFile
<1>1. Inv => WritersKeepTheirFile
  BY DEF Inv, Owner, WritersKeepTheirFile, Writes
<1> QED BY <1>1, Invariance, PTL

(* No step of an archive pass, a cleanup or a restore, wherever one of     *)
(* them stops, changes what a session's records are: only a session that   *)
(* is open adds to them, and only a deletion takes them away.              *)
THEOREM ArchiveIsStore == Spec => ImplementsSessionStore
<1>1. Init => Store!StoreInit
  BY DEF Init, Store!StoreInit, Content
<1>2. Inv /\ [Next]_vars => [Store!StoreNext]_<<[m \in Members |-> Content(m)], doomed>>
  <2> SUFFICES ASSUME Inv, [Next]_vars
               PROVE  [Store!StoreNext]_<<[m \in Members |-> Content(m)], doomed>>
    OBVIOUS
  <2>1. CASE UNCHANGED vars
    BY <2>1 DEF vars, files, history, deleted, Content
  <2>2. CASE Next
    <3>1. PICK p \in Processes : Step(p)
      BY <2>2, NextStep
    <3>2. CASE Kept
      BY <3>2 DEF Kept, Store!StoreNext, Store!GiveUp
    <3>3. ASSUME NEW m \in Members, Grown(m) PROVE Store!StoreNext
      BY <3>3 DEF Grown, Store!StoreNext, Store!Record
    <3>4. CASE Lost
      BY <3>4 DEF Lost, Store!StoreNext, Store!Forget
    <3> QED BY <3>1, <3>2, <3>3, <3>4 DEF Step
  <2> QED BY <2>1, <2>2
<1> QED BY <1>1, <1>2, Invariance, PTL DEF Spec, ImplementsSessionStore, Store!StoreSpec

-----------------------------------------------------------------------------
(* What a deletion has removed so far, member by member and copy by copy.  *)
Empty(m) ==
    /\ live[m] = 0 /\ archived[m] = 0 /\ folder[m] = NoFolder /\ packed[m] = NoFolder

Erased(p) ==
    /\ at[p] \in Erasing => \A m \in family[p] \ (todo[p] \cup torn) : Empty(m)
    /\ \A m \in Members \ torn : Foremost(p, m) =>
          /\ at[p] \in {"eraseArchive", "erasePacked", "eraseFolder"} => live[m] = 0
          /\ at[p] \in {"erasePacked", "eraseFolder"} => archived[m] = 0
          /\ at[p] = "eraseFolder" => packed[m] = NoFolder

Removed ==
    /\ gone \subseteq doomed /\ \A m \in gone : Empty(m)
    /\ \A p \in Processes : Erased(p)

(* What is gone has no writer, is nothing that a pass archives and nothing *)
(* that a restore lands.                                                   *)
LEMMA GoneKept ==
    ASSUME Inv, Removed, NEW p \in Processes, Acts(p), NEW m \in gone
    PROVE  Empty(m)'
<1> USE DEF files, Empty
<1>1. m \in Members /\ m \in doomed /\ Empty(m) /\ Owner(p)
  BY DEF Removed, Inv, TypeOK
<1>2. CASE UNCHANGED files
  BY <1>1, <1>2
<1>3. ASSUME NEW c \in Children, CreateChild(p, c) \/ RecordChild(p, c) PROVE Empty(m)'
  <2>1. CASE CreateChild(p, c)
    BY <1>1, <2>1 DEF CreateChild, Inv, TypeOK
  <2>2. CASE RecordChild(p, c)
    BY <1>1, <2>2 DEF RecordChild, Writes, Owner, Children, Inv, TypeOK
  <2> QED BY <1>3, <2>1, <2>2
<1>4. ASSUME NEW n \in Members, Append(p, n) PROVE Empty(m)'
  BY <1>1, <1>4 DEF Append, Writes, Owner, Inv, TypeOK
<1>5. ASSUME NEW n \in Members, NEW a \in Artifacts, Save(p, n, a) \/ RemoveArtifact(p, n, a)
      PROVE  Empty(m)'
  <2>1. CASE Save(p, n, a)
    BY <1>1, <2>1 DEF Save, Writes, Owner, Inv, TypeOK
  <2>2. CASE RemoveArtifact(p, n, a)
    BY <1>1, <2>2 DEF RemoveArtifact, NoFolder, Inv, TypeOK
  <2> QED BY <1>5, <2>1, <2>2
<1>6. ASSUME NEW n \in Members, Publish(p, n) \/ Pack(p, n) \/ Land(p, n) \/ Unpack(p, n)
      PROVE  Empty(m)'
  <2>1. CASE Publish(p, n) \/ Pack(p, n)
    <3>1. live[n] > 0
      BY <2>1 DEF Publish, Pack, Foremost, Inv, Owner, Archiving, ArchivePass
    <3> QED BY <1>1, <2>1, <3>1 DEF Publish, Pack, Inv, TypeOK
  <2>2. CASE Land(p, n) \/ Unpack(p, n)
    BY <1>1, <2>2 DEF Land, Unpack, Inv, TypeOK
  <2> QED BY <1>6, <2>1, <2>2
<1>7. ASSUME NEW n \in Members,
             \/ DropTranscript(p, n) \/ DropArtifacts(p, n) \/ Drop(p, n) \/ DropPacked(p, n)
             \/ RemoveTranscript(p, n) \/ RemoveFolder(p, n)
             \/ EraseTranscript(p, n) \/ EraseArchive(p, n)
             \/ ErasePacked(p, n) \/ EraseFolder(p, n)
      PROVE  Empty(m)'
  <2>1. /\ live'[m] \in {live[m], 0} /\ archived'[m] \in {archived[m], 0}
        /\ folder'[m] \in {folder[m], NoFolder} /\ packed'[m] \in {packed[m], NoFolder}
    BY <1>1, <1>7 DEF DropTranscript, DropArtifacts, Drop, DropPacked, RemoveTranscript,
       RemoveFolder, EraseTranscript, EraseArchive, ErasePacked, EraseFolder, Inv, TypeOK
  <2> QED BY <1>1, <2>1
<1>8. ASSUME \/ Open(p) \/ Collect(p) \/ LockFamily(p) \/ Resume(p) \/ ResumeWithout(p)
             \/ Advance(p) \/ Finish(p) \/ Stop(p)
             \/ Choose(p) \/ LockForDelete(p) \/ EndDelete(p)
             \/ \E c \in Children : OpenChild(p, c) \/ CloseChild(p, c)
             \/ \E n \in Members : Clean(p, n)
      PROVE  UNCHANGED files
  BY <1>8 DEF Open, Collect, LockFamily, Resume, ResumeWithout, Advance, Finish, Stop,
              Choose, LockForDelete, EndDelete, OpenChild, CloseChild, Clean
<1> HIDE DEF Empty, files
<1> QED BY <1>2, <1>3, <1>4, <1>6, <1>7, <1>8, <1>5 DEF Acts

(* A deletion goes on with its own members, copy by copy.                  *)
LEMMA ErasedByOwner ==
    ASSUME Inv, Removed, NEW p \in Processes, Acts(p), at'[p] \in Erasing
    PROVE  Erased(p)'
<1> USE DEF Empty, Erasing
<1>1. Erased(p) /\ (at[p] \in Erasing => Deletion(p)) /\ family[p] \subseteq Members
  BY DEF Removed, Inv, Owner, TypeOK
<1>2. CASE LockForDelete(p)
  <2>1. at'[p] = "erase" /\ todo'[p] = family[p] /\ family'[p] = family[p]
    BY <1>2 DEF LockForDelete, Goes, Inv, TypeOK
  <2> QED BY <2>1 DEF Erased
<1>3. ASSUME NEW m \in Members, EraseTranscript(p, m) \/ EraseArchive(p, m) \/ ErasePacked(p, m)
      PROVE  Erased(p)'
  <2> USE DEF EraseTranscript, EraseArchive, ErasePacked
  <2>1. /\ UNCHANGED <<family, todo, folder>> /\ at[p] \in Erasing /\ torn \subseteq torn'
        /\ m \in todo[p] /\ \A n \in Members : Foremost(p, n) => n = m
        /\ \A n \in Members \ {m} :
              live'[n] = live[n] /\ archived'[n] = archived[n] /\ packed'[n] = packed[n]
    BY <1>3 DEF Foremost, Inv, TypeOK
  <2>2. \A n \in family'[p] \ (todo'[p] \cup torn') : Empty(n)'
    BY <1>1, <2>1 DEF Erased
  <2>3. \A n \in Members : Foremost(p, n)' => n = m
    BY <2>1 DEF Foremost
  <2>4. m \notin torn' =>
          /\ at'[p] \in {"eraseArchive", "erasePacked", "eraseFolder"} => live'[m] = 0
          /\ at'[p] \in {"erasePacked", "eraseFolder"} => archived'[m] = 0
          /\ at'[p] = "eraseFolder" => packed'[m] = NoFolder
    BY <1>1, <1>3, <2>1 DEF Erased, Inv, TypeOK
  <2> QED BY <2>2, <2>3, <2>4 DEF Erased
<1>4. ASSUME NEW m \in Members, EraseFolder(p, m) PROVE Erased(p)'
  <2>1. /\ UNCHANGED <<family, live, archived, packed>> /\ torn \subseteq torn'
        /\ at[p] = "eraseFolder" /\ at'[p] = "erase" /\ Foremost(p, m)
        /\ todo'[p] = todo[p] \ {m}
        /\ \A n \in Members \ {m} : folder'[n] = folder[n]
        /\ m \notin torn' => folder'[m] = NoFolder
    BY <1>4 DEF EraseFolder, Done, Inv, TypeOK
  <2>2. \A n \in family'[p] \ (todo'[p] \cup torn') : Empty(n)'
    BY <1>1, <2>1 DEF Erased
  <2> QED BY <2>1, <2>2 DEF Erased
<1>5. ASSUME NEW m \in Members, NEW a \in Artifacts, RemoveArtifact(p, m, a)
      PROVE  Erased(p)'
  <2>1. /\ UNCHANGED <<family, todo, at, live, archived, packed, torn>> /\ m \in todo[p]
        /\ \A n \in Members \ {m} : folder'[n] = folder[n]
    BY <1>5 DEF RemoveArtifact, Foremost, Inv, TypeOK, process, history
  <2>2. \A n \in Members : Foremost(p, n)' <=> Foremost(p, n)
    BY <2>1 DEF Foremost
  <2> QED BY <1>1, <2>1, <2>2 DEF Erased
<1>6. \/ LockForDelete(p)
      \/ \E m \in Members :
            \/ EraseTranscript(p, m) \/ EraseArchive(p, m) \/ ErasePacked(p, m)
            \/ EraseFolder(p, m) \/ \E a \in Artifacts : RemoveArtifact(p, m, a)
  <2>1. \A c \in Children :
          ~ (CreateChild(p, c) \/ RecordChild(p, c) \/ OpenChild(p, c) \/ CloseChild(p, c))
    BY DEF CreateChild, RecordChild, OpenChild, CloseChild, Writes, process
  <2>2. \A m \in Members :
          ~ (\/ Append(p, m) \/ (\E a \in Artifacts : Save(p, m, a))
             \/ Clean(p, m) \/ DropTranscript(p, m) \/ DropArtifacts(p, m)
             \/ Publish(p, m) \/ Pack(p, m) \/ RemoveTranscript(p, m) \/ RemoveFolder(p, m)
             \/ Unpack(p, m) \/ Land(p, m) \/ Drop(p, m) \/ DropPacked(p, m))
    BY DEF Append, Save, Clean, DropTranscript, DropArtifacts, Publish, Pack, RemoveTranscript,
           RemoveFolder, Unpack, Land, Drop, DropPacked, Writes, process, Goes, Inv, TypeOK
  <2>3. ~ (\/ Open(p) \/ Collect(p) \/ LockFamily(p) \/ Resume(p) \/ ResumeWithout(p)
           \/ Finish(p) \/ Stop(p) \/ Choose(p) \/ EndDelete(p))
    BY DEF Open, Collect, LockFamily, Resume, ResumeWithout, Finish, Stop, Choose, EndDelete,
           Goes, Inv, TypeOK
  <2>4. ~ Advance(p)
    BY DEF Advance, Following, Goes, Inv, TypeOK
  <2> QED BY <2>1, <2>2, <2>3, <2>4 DEF Acts
<1> QED BY <1>2, <1>3, <1>4, <1>5, <1>6

(* Artifacts are only touched under the member's lock or the root's.       *)
LEMMA ArtifactsLocked ==
    ASSUME Inv, NEW p \in Processes, Acts(p), NEW m \in Members, lock[m] # p, lock[Root] # p
    PROVE  folder'[m] = folder[m] /\ packed'[m] = packed[m]
<1>1. Owner(p)
  BY DEF Inv
<1>2. ASSUME NEW n \in Members, NEW a \in Artifacts, Save(p, n, a)
      PROVE  folder'[m] = folder[m] /\ packed'[m] = packed[m]
  BY <1>2 DEF Save, Writes, Inv, TypeOK
<1>3. at[p] \notin Archiving \cup Restoring \cup Erasing
  BY <1>1 DEF Owner, ArchivePass, Restore, Deletion
<1>4. ASSUME NEW n \in Members, DropArtifacts(p, n)
      PROVE  folder'[m] = folder[m] /\ packed'[m] = packed[m]
  BY <1>1, <1>3, <1>4 DEF DropArtifacts, Owner, Restoring, Inv, TypeOK
<1>5. \A n \in Members :
        ~ (\/ Pack(p, n) \/ RemoveFolder(p, n) \/ (\E a \in Artifacts : RemoveArtifact(p, n, a))
           \/ Unpack(p, n) \/ DropPacked(p, n) \/ ErasePacked(p, n) \/ EraseFolder(p, n))
  BY <1>3 DEF Pack, RemoveFolder, RemoveArtifact, Unpack, DropPacked, ErasePacked, EraseFolder,
              Archiving, Restoring, Erasing
<1>6. ASSUME \/ Open(p) \/ Collect(p) \/ LockFamily(p) \/ Resume(p) \/ ResumeWithout(p)
             \/ Advance(p) \/ Finish(p) \/ Stop(p)
             \/ Choose(p) \/ LockForDelete(p) \/ EndDelete(p)
             \/ \E c \in Children :
                   CreateChild(p, c) \/ RecordChild(p, c) \/ OpenChild(p, c) \/ CloseChild(p, c)
      PROVE  UNCHANGED <<folder, packed>>
  BY <1>6 DEF Open, Collect, LockFamily, Resume, ResumeWithout, Advance, Finish, Stop, Choose,
              LockForDelete, EndDelete, CreateChild, RecordChild, OpenChild, CloseChild, files
<1>7. ASSUME NEW n \in Members,
             \/ Append(p, n) \/ Clean(p, n) \/ DropTranscript(p, n) \/ Publish(p, n)
             \/ RemoveTranscript(p, n) \/ Land(p, n) \/ Drop(p, n)
             \/ EraseTranscript(p, n) \/ EraseArchive(p, n)
      PROVE  UNCHANGED <<folder, packed>>
  BY <1>7 DEF Append, Clean, DropTranscript, Publish, RemoveTranscript, Land, Drop,
              EraseTranscript, EraseArchive, files
<1> QED BY <1>2, <1>4, <1>5, <1>6, <1>7 DEF Acts

LEMMA HistoryGrows ==
    ASSUME NEW p \in Processes, Acts(p)
    PROVE  torn \subseteq torn' /\ (UNCHANGED gone \/ EndDelete(p))
<1> USE DEF history, deleted
<1>1. ASSUME \/ Open(p) \/ Collect(p) \/ LockFamily(p) \/ Resume(p) \/ ResumeWithout(p)
             \/ Advance(p) \/ Finish(p) \/ Stop(p)
             \/ Choose(p) \/ LockForDelete(p)
             \/ \E c \in Children :
                   CreateChild(p, c) \/ RecordChild(p, c) \/ OpenChild(p, c) \/ CloseChild(p, c)
      PROVE  torn \subseteq torn' /\ UNCHANGED gone
  BY <1>1 DEF Open, Collect, LockFamily, Resume, ResumeWithout, Advance, Finish, Stop, Choose,
              LockForDelete, CreateChild, RecordChild, OpenChild, CloseChild
<1>2. ASSUME NEW n \in Members,
             \/ Append(p, n) \/ (\E a \in Artifacts : Save(p, n, a)) \/ Clean(p, n)
             \/ DropTranscript(p, n) \/ DropArtifacts(p, n) \/ Publish(p, n) \/ Pack(p, n)
             \/ RemoveTranscript(p, n) \/ RemoveFolder(p, n)
             \/ (\E a \in Artifacts : RemoveArtifact(p, n, a))
             \/ Unpack(p, n) \/ Land(p, n) \/ Drop(p, n) \/ DropPacked(p, n)
             \/ EraseTranscript(p, n) \/ EraseArchive(p, n)
             \/ ErasePacked(p, n) \/ EraseFolder(p, n)
      PROVE  torn \subseteq torn' /\ UNCHANGED gone
  BY <1>2 DEF Append, Save, Clean, DropTranscript, DropArtifacts, Publish, Pack,
              RemoveTranscript, RemoveFolder, RemoveArtifact, Unpack, Land, Drop, DropPacked,
              EraseTranscript, EraseArchive, ErasePacked, EraseFolder
<1>3. EndDelete(p) => UNCHANGED torn
  BY DEF EndDelete
<1> QED BY <1>1, <1>2, <1>3 DEF Acts

(* Nobody else disturbs a deletion, which holds the root's lock.           *)
LEMMA ErasedByOthers ==
    ASSUME Inv, Removed, NEW p \in Processes, Acts(p), NEW q \in Processes \ {p},
           at'[q] \in Erasing
    PROVE  Erased(q)'
<1>1. Undisturbed(q) /\ torn \subseteq torn'
  BY ActStep, HistoryGrows DEF Step, Sound, Others
<1>2. /\ at'[q] = at[q] /\ family'[q] = family[q] /\ todo'[q] = todo[q]
      /\ Deletion(q) /\ Erased(q) /\ family[q] \subseteq Members
  BY <1>1 DEF Undisturbed, Inv, Owner, TypeOK, Removed
<1>3. lock[Root] = q /\ \A m \in family[q] : lock[m] = q
  BY <1>2 DEF Deletion
<1>4. \A m \in family[q] :
        /\ live'[m] = live[m] /\ archived'[m] = archived[m]
        /\ folder'[m] = folder[m] /\ packed'[m] = packed[m]
  BY <1>1, <1>2, <1>3, ArtifactsLocked DEF Undisturbed
<1>5. \A m \in Members : Foremost(q, m)' => Foremost(q, m) /\ m \in family[q]
  BY <1>2 DEF Foremost, Deletion
<1> QED BY <1>1, <1>2, <1>4, <1>5 DEF Erased, Empty

LEMMA RemovedStep == ASSUME Inv, Removed, [Next]_vars PROVE Removed'
<1>1. CASE UNCHANGED vars
  <2>1. \A p \in Processes, m \in Members : Foremost(p, m)' <=> Foremost(p, m)
    BY <1>1 DEF vars, process, Foremost
  <2> QED BY <1>1, <2>1 DEF vars, files, process, history, deleted, Removed, Erased, Empty, Erasing
<1>2. CASE Next
  <2>1. PICK p \in Processes : Acts(p)
    BY <1>2, NextActs
  <2>2. ASSUME NEW q \in Processes PROVE Erased(q)'
    <3>1. CASE at'[q] \in Erasing
      BY <2>1, <3>1, ErasedByOwner, ErasedByOthers
    <3>2. CASE at'[q] \notin Erasing
      BY <3>2 DEF Erased, Erasing
    <3> QED BY <3>1, <3>2
  <2>3. doomed \subseteq doomed'
    BY <2>1, ActStep DEF Step, Kept, Lost, Grown
  <2>4. gone' = gone \/ EndDelete(p)
    BY <2>1, HistoryGrows
  <2>5. ASSUME EndDelete(p), NEW m \in gone' \ gone PROVE m \in doomed /\ Empty(m)'
    <3>1. /\ at[p] = "erase" /\ todo[p] = {} /\ UNCHANGED files
          /\ m \in family[p] \ torn
      BY <2>5 DEF EndDelete
    <3>2. Erased(p) /\ Deletion(p)
      BY <3>1 DEF Removed, Inv, Owner, Erasing
    <3> QED BY <3>1, <3>2 DEF Erased, Deletion, Erasing, Empty, files
  <2>6. \A m \in gone : Empty(m)'
    BY <2>1, GoneKept
  <2> QED BY <2>2, <2>3, <2>4, <2>5, <2>6 DEF Removed
<1> QED BY <1>1, <1>2

(* Nothing of a session that was deleted comes back, whatever ran beside   *)
(* the deletion or had begun before it.                                    *)
THEOREM NothingComesBack == Spec => []DeletedStaysGone
<1>1. Init => Removed
  BY DEF Init, Removed, Erased, Erasing
<1>2. Inv /\ Removed => DeletedStaysGone
  BY DEF Removed, Empty, DeletedStaysGone, Content
<1> QED BY <1>1, <1>2, RemovedStep, Invariance, PTL DEF Spec

-----------------------------------------------------------------------------
(* Where the artifacts are that a member saved.  An archive pass that      *)
(* removed only a part of its originals, and a deletion, are excused.      *)
Excused(m) == m \in torn \cup doomed
InPlace(m) == Excused(m) \/ saved[m] \subseteq folder[m]
Safe(m)    == Excused(m) \/ saved[m] \subseteq packed[m]

Emptying(m) == \E p \in Processes : at[p] = "empty" /\ Foremost(p, m)

(* They are in the folder, or, of a member that only the archive has, in   *)
(* its archive: then the folder is gone, or a pass is about to remove it.  *)
Settled(m) == InPlace(m) \/ (live[m] = 0 /\ Safe(m) /\ folder[m] = NoFolder)

Stored(m) ==
    /\ Settled(m) \/ (live[m] = 0 /\ Safe(m) /\ Emptying(m))
    /\ Content(m) = 0 /\ m \notin doomed => saved[m] = {}

(* What an archive pass has packed is safe until its folder is removed,    *)
(* and what a restore has unpacked is in place until it is dropped.  The   *)
(* members that a restore planned are all that it has to land.             *)
Handling(p) ==
    /\ at[p] = "open" => lock[Root] = p
    /\ at[p] = "pack" => \A m \in family[p] \ todo[p] : Safe(m)
    /\ at[p] \in {"remove", "empty"} => \A m \in todo[p] : Safe(m)
    /\ at[p] = "empty" =>
          \A m \in Members : Foremost(p, m) =>
              live[m] = 0 \/ m \in torn \/ folder[m] = NoFolder
    /\ at[p] = "unpack" => \A m \in family[p] \ todo[p] : InPlace(m)
    /\ at[p] \in {"land", "drop", "dropPacked"} => \A m \in family[p] : InPlace(m)
    /\ at[p] \in Restoring => Planned \subseteq family[p]
    /\ at[p] \in {"drop", "dropPacked", "dropStale", "returning"} =>
          \A m \in family[p] : live[m] > 0

Whereabouts ==
    (\A m \in Members : Stored(m)) /\ \A p \in Processes : Handling(p)

(* What a step has to show of the artifacts and of the process itself.     *)
Good(p) == Handling(p) /\ \A m \in Members : Stored(m)

Passive == {"idle", "restored", "collected", "chosen", "cleaning"}

LEMMA Holders ==
    ASSUME Inv, Whereabouts, NEW p \in Processes, at[p] \notin Passive
    PROVE  lock[Root] = p
<1>1. at[p] \in {"open"} \cup Archiving \cup Restoring \cup Erasing /\ Owner(p) /\ Handling(p)
  BY DEF Inv, TypeOK, Phases, Passive, Whereabouts
<1>2. at[p] \in Archiving => lock[Root] = p
  BY <1>1 DEF Owner, ArchivePass
<1>3. at[p] \in Restoring => lock[Root] = p
  BY <1>1 DEF Owner, Restore
<1>4. at[p] \in Erasing => lock[Root] = p
  BY <1>1 DEF Owner, Deletion
<1> QED BY <1>1, <1>2, <1>3, <1>4 DEF Handling

LEMMA ReachKept ==
    ASSUME UNCHANGED recorded, \A m \in Members : Content(m)' = Content(m)
    PROVE  Reach' = Reach
<1>1. \A c \in Children : ParentOf[c] \in Members
  BY ArchiveAssumption
<1>2. \A c \in Children :
         Names(Content(ParentOf[c]), c)' <=> Names(Content(ParentOf[c]), c)
  BY <1>1 DEF Names
<1>3. {c \in Children : Names(Content(ParentOf[c]), c)}'
         = {c \in Children : Names(Content(ParentOf[c]), c)}
  BY <1>2
<1> QED BY <1>3 DEF Reach

LEMMA PlannedShrinks ==
    ASSUME UNCHANGED recorded, \A m \in Members : Content(m)' = Content(m),
           \A m \in Members : archived'[m] > 0 /\ live'[m] = 0 =>
               archived[m] > 0 /\ live[m] = 0
    PROVE  Planned' \subseteq Planned
BY ReachKept, Walked DEF Planned, Reach

(* Beside somebody who holds the root's lock, another process can only     *)
(* clean up stale archives.                                                *)
LEMMA Bystander ==
    ASSUME Inv, Whereabouts, NEW p \in Processes, Acts(p), lock[Root] \notin {p, NoProcess}
    PROVE  /\ UNCHANGED <<live, folder, recorded, saved, doomed>> /\ at'[p] \in Passive
           /\ \A m \in Members :
                 live[m] = 0 => archived'[m] = archived[m] /\ packed'[m] = packed[m]
           /\ \A m \in Members : Content(m)' = Content(m)
<1>1. at[p] \in Passive /\ Owner(p)
  BY Holders DEF Inv
<1>2. \A m \in todo[p] : at[p] = "cleaning" => live[m] > 0
  BY <1>1 DEF Owner, Inv, TypeOK
<1>3. CASE \/ Collect(p) \/ ResumeWithout(p) \/ Finish(p) \/ Stop(p) \/ Choose(p)
           \/ \E m \in Members : Clean(p, m)
  <2>1. UNCHANGED <<files, recorded, saved, doomed>>
    BY <1>3 DEF Collect, ResumeWithout, Finish, Stop, Choose, Clean, history, deleted
  <2>2. at'[p] \in Passive
    BY <1>3 DEF Collect, ResumeWithout, Finish, Stop, Choose, Clean, Goes, Passive, Inv, TypeOK
  <2> QED BY <2>1, <2>2 DEF files, Content
<1>4. ASSUME NEW m \in Members, DropTranscript(p, m) \/ DropArtifacts(p, m)
      PROVE  /\ UNCHANGED <<live, folder, recorded, saved, doomed, at>> /\ live[m] > 0
             /\ \A n \in Members \ {m} : archived'[n] = archived[n] /\ packed'[n] = packed[n]
  BY <1>1, <1>2, <1>4 DEF DropTranscript, DropArtifacts, Passive, history, deleted, process,
                          Inv, TypeOK
<1>5. ASSUME NEW m \in Members, DropTranscript(p, m) \/ DropArtifacts(p, m)
      PROVE  \A n \in Members : Content(n)' = Content(n)
  BY <1>4, <1>5 DEF Content
<1>6. ~ (Open(p) \/ LockFamily(p) \/ LockForDelete(p) \/ Resume(p) \/ Advance(p) \/ EndDelete(p))
  BY <1>1 DEF Open, LockFamily, LockForDelete, Resume, Advance, EndDelete, Free, Owner, Passive,
              Following
<1>7. \A c \in Children :
        ~ (CreateChild(p, c) \/ RecordChild(p, c) \/ OpenChild(p, c) \/ CloseChild(p, c))
  BY <1>1 DEF CreateChild, RecordChild, OpenChild, CloseChild, Writes, Passive
<1>8. \A m \in Members :
        ~ (\/ Append(p, m) \/ (\E a \in Artifacts : Save(p, m, a)) \/ Publish(p, m) \/ Pack(p, m)
           \/ RemoveTranscript(p, m) \/ RemoveFolder(p, m)
           \/ (\E a \in Artifacts : RemoveArtifact(p, m, a))
           \/ Unpack(p, m) \/ Land(p, m) \/ Drop(p, m) \/ DropPacked(p, m)
           \/ EraseTranscript(p, m) \/ EraseArchive(p, m)
           \/ ErasePacked(p, m) \/ EraseFolder(p, m))
  BY <1>1 DEF Append, Save, Publish, Pack, RemoveTranscript, RemoveFolder, RemoveArtifact, Unpack,
              Land, Drop, DropPacked, EraseTranscript, EraseArchive, ErasePacked, EraseFolder,
              Writes, Passive
<1> QED BY <1>1, <1>3, <1>4, <1>5, <1>6, <1>7, <1>8 DEF Acts

(* So the holder of the root's lock finds everything as it left it.        *)
LEMMA HandlingKept ==
    ASSUME Inv, Whereabouts, NEW p \in Processes, Acts(p), NEW q \in Processes \ {p}
    PROVE  Handling(q)'
<1>1. Undisturbed(q) /\ torn \subseteq torn'
  BY ActStep, HistoryGrows DEF Step, Sound, Others
<1>2. /\ at'[q] = at[q] /\ family'[q] = family[q] /\ todo'[q] = todo[q]
      /\ family[q] \subseteq Members /\ todo[q] \subseteq Members
      /\ Handling(q)
  BY <1>1 DEF Undisturbed, Inv, TypeOK, Whereabouts
<1>3. CASE at[q] \in Passive
  BY <1>2, <1>3 DEF Handling, Passive, Restoring
<1>4. CASE at[q] \notin Passive
  <2>1. lock[Root] = q /\ lock[Root] \notin {p, NoProcess} /\ lock'[Root] = q
    BY <1>1, <1>4, Holders, ArchiveAssumption DEF Undisturbed
  <2>2. /\ UNCHANGED <<live, folder, recorded, saved, doomed>>
        /\ \A m \in Members :
              live[m] = 0 => archived'[m] = archived[m] /\ packed'[m] = packed[m]
        /\ \A m \in Members : Content(m)' = Content(m)
    BY <2>1, Bystander
  <2>3. Planned' \subseteq Planned
    BY <2>2, PlannedShrinks
  <2>4. \A m \in Members : InPlace(m) => InPlace(m)'
    BY <1>1, <2>2 DEF InPlace, Excused
  <2>5. at[q] \in {"pack", "remove", "empty"} => \A m \in family[q] : packed'[m] = packed[m]
    BY <1>2, <2>1, ArtifactsLocked DEF Inv, Owner, Archiving, ArchivePass
  <2>6. at[q] \in {"remove", "empty"} => todo[q] \subseteq family[q]
    BY DEF Inv, Owner, Archiving, ArchivePass
  <2>7. at[q] \in {"pack", "remove", "empty"} => \A m \in family[q] : Safe(m) => Safe(m)'
    BY <1>1, <2>2, <2>5 DEF Safe, Excused
  <2>8. \A m \in Members : Foremost(q, m)' => Foremost(q, m)
    BY <1>2 DEF Foremost
  <2>9. /\ at'[q] = "open" => lock'[Root] = q
        /\ at'[q] = "pack" => \A m \in family'[q] \ todo'[q] : Safe(m)'
        /\ at'[q] \in {"remove", "empty"} => \A m \in todo'[q] : Safe(m)'
    BY <1>2, <2>1, <2>6, <2>7 DEF Handling
  <2>10. at'[q] = "empty" =>
            \A m \in Members : Foremost(q, m)' =>
               live'[m] = 0 \/ m \in torn' \/ folder'[m] = NoFolder
    BY <1>1, <1>2, <2>2, <2>8 DEF Handling
  <2>11. /\ at'[q] = "unpack" => \A m \in family'[q] \ todo'[q] : InPlace(m)'
         /\ at'[q] \in {"land", "drop", "dropPacked"} => \A m \in family'[q] : InPlace(m)'
    BY <1>2, <2>4 DEF Handling
  <2>12. /\ at'[q] \in Restoring => Planned' \subseteq family'[q]
         /\ at'[q] \in {"drop", "dropPacked", "dropStale", "returning"} =>
               \A m \in family'[q] : live'[m] > 0
    BY <1>2, <2>2, <2>3 DEF Handling
  <2> QED BY <2>9, <2>10, <2>11, <2>12 DEF Handling
<1> QED BY <1>3, <1>4

LEMMA BystanderGood ==
    ASSUME Inv, Whereabouts, NEW p \in Processes, Acts(p), lock[Root] \notin {p, NoProcess}
    PROVE  Good(p)'
<1>1. /\ UNCHANGED <<live, folder, recorded, saved, doomed>> /\ at'[p] \in Passive
      /\ \A m \in Members :
            live[m] = 0 => archived'[m] = archived[m] /\ packed'[m] = packed[m]
      /\ \A m \in Members : Content(m)' = Content(m)
  BY Bystander
<1>2. torn \subseteq torn'
  BY HistoryGrows
<1>3. Handling(p)'
  BY <1>1 DEF Handling, Passive, Restoring
<1>4. ASSUME NEW m \in Members PROVE Stored(m)'
  <2>1. Stored(m)
    BY DEF Whereabouts
  <2>2. (InPlace(m) => InPlace(m)') /\ (live[m] = 0 /\ Safe(m) => Safe(m)')
    BY <1>1, <1>2 DEF InPlace, Safe, Excused
  <2>3. ASSUME Emptying(m) PROVE Emptying(m)'
    <3>1. PICK q \in Processes : at[q] = "empty" /\ Foremost(q, m)
      BY <2>3 DEF Emptying
    <3>2. lock[Root] = q
      BY <3>1, Holders DEF Passive
    <3>3. Undisturbed(q)
      BY <3>2, ActStep DEF Step, Sound, Others
    <3>4. at'[q] = "empty" /\ Foremost(q, m)'
      BY <3>1, <3>3 DEF Undisturbed, Foremost
    <3> QED BY <3>4 DEF Emptying
  <2> QED BY <1>1, <2>1, <2>2, <2>3 DEF Stored, Settled
<1> QED BY <1>3, <1>4 DEF Good

(* Otherwise the process is alone: nobody else empties a folder.           *)
LEMMA OnlyEmptier ==
    ASSUME Inv, Whereabouts, NEW p \in Processes, lock[Root] \in {p, NoProcess},
           NEW m \in Members, ~ (at[p] = "empty" /\ Foremost(p, m))
    PROVE  Settled(m)
<1>1. ASSUME NEW q \in Processes, at[q] = "empty" /\ Foremost(q, m) PROVE FALSE
  <2>1. lock[Root] = q
    BY <1>1, Holders DEF Passive
  <2> QED BY <1>1, <2>1, ArchiveAssumption
<1> QED BY <1>1 DEF Whereabouts, Stored, Emptying

LEMMA SettledIsStored ==
    ASSUME NEW m \in Members, Settled(m)', Content(m)' # 0 \/ saved'[m] = {} \/ m \in doomed'
    PROVE  Stored(m)'
BY DEF Stored

(* Steps that touch no file of the family, and what is lost of the pass    *)
(* that stops in the middle of a folder.                                   *)
LEMMA NoFileGood ==
    ASSUME Inv, Whereabouts, NEW p \in Processes, Acts(p), lock[Root] \in {p, NoProcess},
           UNCHANGED <<files, recorded, saved>>, doomed \subseteq doomed',
           at[p] # "empty" \/ Stop(p)
    PROVE  \A m \in Members : Stored(m)'
<1> SUFFICES ASSUME NEW m \in Members PROVE Stored(m)'
  OBVIOUS
<1> USE DEF files
<1>1. torn \subseteq torn' /\ Stored(m)
  BY HistoryGrows DEF Whereabouts
<1>2. Content(m)' = Content(m)
  BY DEF Content
<1>3. Settled(m) => Settled(m)'
  BY <1>1 DEF Settled, InPlace, Safe, Excused
<1>4. CASE ~ (at[p] = "empty" /\ Foremost(p, m))
  BY <1>1, <1>2, <1>3, <1>4, OnlyEmptier DEF Stored
<1>5. CASE at[p] = "empty" /\ Foremost(p, m)
  <2>1. m \in todo[p] /\ Stop(p) /\ torn' = torn \cup Emptied(p)
    BY <1>5 DEF Foremost, Stop
  <2>2. Safe(m)
    BY <1>5, <2>1 DEF Whereabouts, Handling
  <2>3. CASE folder[m] \in {NoFolder, packed[m]}
    <3>1. Settled(m)
      BY <1>1, <2>2, <2>3 DEF Stored, Settled, InPlace, Safe, NoFolder
    <3> QED BY <1>1, <1>2, <1>3, <3>1 DEF Stored
  <2>4. CASE folder[m] \notin {NoFolder, packed[m]}
    BY <1>1, <1>2, <1>5, <2>1, <2>4 DEF Emptied, Stored, Settled, InPlace, Excused
  <2> QED BY <2>3, <2>4
<1> QED BY <1>4, <1>5

LEMMA WaitGood ==
    ASSUME Inv, Whereabouts, NEW p \in Processes, Acts(p), lock[Root] \in {p, NoProcess},
           \/ Open(p) \/ Collect(p) \/ LockFamily(p) \/ ResumeWithout(p)
           \/ Finish(p) \/ Stop(p) \/ Choose(p) \/ LockForDelete(p) \/ EndDelete(p)
           \/ \E c \in Children : OpenChild(p, c) \/ CloseChild(p, c)
           \/ \E m \in Members : Clean(p, m)
    PROVE  Good(p)'
<1> USE DEF Open, Collect, LockFamily, ResumeWithout, Finish, Stop, Choose, LockForDelete,
            EndDelete, OpenChild, CloseChild, Clean
<1>1. /\ UNCHANGED <<files, recorded, saved>> /\ doomed \subseteq doomed'
      /\ at[p] # "empty" \/ Stop(p)
  BY DEF history, deleted, Writes
<1>2. at'[p] \in Passive \cup {"open", "publish", "erase"}
  BY DEF Goes, Writes, Passive, Inv, TypeOK
<1>3. at'[p] = "open" => lock'[Root] = p
  <2>1. CASE Open(p)
    BY <2>1, ArchiveAssumption DEF Locked
  <2>2. ASSUME NEW c \in Children, OpenChild(p, c) \/ CloseChild(p, c) PROVE lock'[Root] = p
    <3>1. at[p] = "open" /\ c # Root
      BY <2>2, ArchiveAssumption DEF Writes, Children
    <3>2. lock[Root] = p
      BY <3>1, Holders DEF Passive
    <3> QED BY <2>2, <3>1, <3>2, ArchiveAssumption DEF Locked, Inv, TypeOK
  <2>3. ASSUME \/ Collect(p) \/ LockFamily(p) \/ ResumeWithout(p)
               \/ Finish(p) \/ Stop(p) \/ Choose(p) \/ LockForDelete(p) \/ EndDelete(p)
               \/ \E m \in Members : Clean(p, m)
        PROVE  at'[p] # "open"
    BY <2>3 DEF Goes, Inv, TypeOK
  <2> QED BY <2>1, <2>2, <2>3
<1>4. Handling(p)'
  BY <1>2, <1>3 DEF Handling, Passive, Restoring
<1> QED BY <1>1, <1>4, NoFileGood DEF Good

(* What is to be landed and has no packed folder had no artifacts.         *)
LEMMA ResumeGood ==
    ASSUME Inv, Whereabouts, NEW p \in Processes, Resume(p)
    PROVE  Good(p)'
<1>1. /\ UNCHANGED <<files, recorded, saved, doomed>> /\ lock[Root] = NoProcess
      /\ at[p] # "empty" /\ Acts(p)
  BY DEF Resume, history, deleted, Free, Acts
<1>2. \A m \in Members : Stored(m)'
  BY <1>1, NoFileGood
<1>3. CASE Planned \cup Stale = {}
  <2>1. at'[p] = "restored"
    BY <1>3 DEF Resume, Inv, TypeOK
  <2> QED BY <1>2, <2>1 DEF Good, Handling, Restoring
<1>4. CASE Planned \cup Stale # {}
  <2>1. at'[p] = "unpack" /\ family'[p] = Planned /\ todo'[p] = Packed(Planned)
    BY <1>4 DEF Resume, Goes, Inv, TypeOK
  <2>2. \A m \in Members : Content(m)' = Content(m)
    BY <1>1 DEF files, Content
  <2>3. Planned' \subseteq Planned
    BY <1>1, <2>2, PlannedShrinks DEF files
  <2>4. ASSUME NEW m \in Planned \ Packed(Planned) PROVE InPlace(m)'
    <3>1. m \in Members /\ packed[m] = NoFolder /\ live[m] = 0
      BY <2>4, Walked DEF Planned, Reach, Packed
    <3>2. Settled(m)
      BY <1>1, <3>1, OnlyEmptier
    <3> QED BY <1>1, <3>1, <3>2 DEF Settled, InPlace, Safe, Excused, NoFolder, files, Resume,
               history
  <2>5. Handling(p)'
    BY <2>1, <2>3, <2>4 DEF Handling
  <2> QED BY <1>2, <2>5 DEF Good
<1> QED BY <1>3, <1>4

(* A phase that is through has done it to the whole family.                *)
LEMMA AdvanceGood ==
    ASSUME Inv, Whereabouts, NEW p \in Processes, Advance(p)
    PROVE  Good(p)'
<1> DEFINE phase == Following[at[p]]
<1>1. /\ UNCHANGED <<files, recorded, lock, family, saved, torn, doomed>> /\ todo[p] = {}
      /\ at'[p] = phase /\ todo'[p] = MembersFor(p, phase)
      /\ at[p] \in {"publish", "pack", "unpack", "land", "drop", "dropPacked", "dropStale"}
      /\ at[p] \notin Passive
  BY DEF Advance, Goes, history, deleted, Inv, TypeOK, Following, Passive
<1>2. Handling(p) /\ Owner(p) /\ lock[Root] = p /\ family[p] \subseteq Members
  BY <1>1, Holders DEF Whereabouts, Inv, TypeOK
<1>3. \A m \in Members : Stored(m)'
  BY <1>1, <1>2, NoFileGood DEF Acts
<1>4. \A m \in Members : (InPlace(m) <=> InPlace(m)') /\ (Safe(m) <=> Safe(m)')
  BY <1>1 DEF InPlace, Safe, Excused, files
<1>5. Planned' \subseteq Planned
  <2>1. \A m \in Members : Content(m)' = Content(m)
    BY <1>1 DEF files, Content
  <2> QED BY <1>1, <2>1, PlannedShrinks DEF files
<1>6. Handling(p)'
  <2>1. CASE at[p] = "publish"
    <3>1. phase = "pack" /\ todo'[p] = {m \in family[p] : folder[m] # NoFolder}
      BY <1>1, <2>1 DEF Following, MembersFor
    <3>2. ASSUME NEW m \in family[p] \ todo'[p] PROVE Safe(m)'
      <4>1. folder[m] = NoFolder /\ Settled(m)
        BY <1>1, <1>2, <2>1, <3>1, <3>2, OnlyEmptier
      <4> QED BY <1>2, <1>4, <4>1 DEF Settled, InPlace, Safe, NoFolder
    <3> QED BY <1>1, <3>1, <3>2 DEF Handling, Restoring
  <2>2. CASE at[p] = "pack"
    <3>1. phase = "remove" /\ todo'[p] = family[p]
      BY <1>1, <2>2 DEF Following, MembersFor
    <3> QED BY <1>1, <1>2, <1>4, <2>2, <3>1 DEF Handling, Restoring
  <2>3. CASE at[p] = "unpack"
    <3>1. phase = "land"
      BY <2>3 DEF Following
    <3> QED BY <1>1, <1>2, <1>4, <1>5, <2>3, <3>1 DEF Handling, Restoring
  <2>4. CASE at[p] = "land"
    <3>1. phase = "drop" /\ \A m \in family[p] : live[m] > 0
      BY <1>1, <1>2, <2>4 DEF Following, Owner, Restoring, Restore
    <3> QED BY <1>1, <1>2, <1>4, <1>5, <2>4, <3>1 DEF Handling, Restoring, files
  <2>5. CASE at[p] \in {"drop", "dropPacked", "dropStale"}
    <3>1. /\ phase \in {"dropPacked", "dropStale", "returning"}
          /\ phase = "dropPacked" <=> at[p] = "drop"
      BY <2>5 DEF Following
    <3> QED BY <1>1, <1>2, <1>4, <1>5, <2>5, <3>1 DEF Handling, Restoring, files
  <2> QED BY <1>1, <2>1, <2>2, <2>3, <2>4, <2>5
<1> QED BY <1>3, <1>6 DEF Good

(* An open session saves artifacts only of a member whose transcript it    *)
(* has, and a new one has none.                                            *)
LEMMA SessionGood ==
    ASSUME Inv, Whereabouts, NEW p \in Processes, lock[Root] \in {p, NoProcess},
           \/ \E c \in Children : CreateChild(p, c) \/ RecordChild(p, c)
           \/ \E m \in Members : Append(p, m) \/ \E a \in Artifacts : Save(p, m, a)
    PROVE  Good(p)'
<1>1. at[p] = "open" /\ UNCHANGED <<at, torn, doomed>>
  BY DEF CreateChild, RecordChild, Append, Save, Writes, process, history, deleted
<1>2. lock[Root] = p /\ Owner(p)
  BY <1>1, Holders DEF Passive, Inv
<1>3. lock'[Root] = p
  <2>1. ASSUME NEW c \in Children, CreateChild(p, c) PROVE lock'[Root] = p
    BY <1>2, <2>1, ArchiveAssumption DEF CreateChild, Locked, Children
  <2> QED BY <1>2, <2>1 DEF RecordChild, Append, Save, process
<1>4. Handling(p)'
  BY <1>1, <1>3 DEF Handling, Restoring
<1>5. ASSUME NEW n \in Members PROVE Stored(n)'
  <2>1. Settled(n) /\ Stored(n)
    BY <1>1, <1>2, OnlyEmptier DEF Whereabouts
  <2>2. ASSUME NEW c \in Children, CreateChild(p, c) PROVE Stored(n)'
    <3>1. UNCHANGED <<archived, folder, packed, saved>>
      BY <2>2 DEF CreateChild, history
    <3>2. CASE n = c
      <4>1. saved[n] = {}
        BY <2>1, <2>2, <3>2 DEF CreateChild, Stored
      <4> QED BY <3>1, <4>1 DEF Stored, Settled, InPlace
    <3>3. CASE n # c
      BY <1>1, <2>1, <2>2, <3>1, <3>3 DEF CreateChild, Stored, Settled, InPlace, Safe, Excused,
                                          Content, Inv, TypeOK
    <3> QED BY <3>2, <3>3
  <2>3. ASSUME NEW m \in Members, live' = [live EXCEPT ![m] = @ + 1], Writes(p, m),
               UNCHANGED <<archived, folder, packed, saved>>
        PROVE  Stored(n)'
    <3>1. live[m] > 0 /\ live[m] \in Nat
      BY <1>2, <2>3, ArchiveAssumption DEF Writes, Owner, Inv, TypeOK
    <3>2. live'[n] > 0 <=> live[n] > 0
      BY <2>3, <3>1 DEF Inv, TypeOK
    <3>3. live'[n] = 0 <=> live[n] = 0
      BY <2>3, <3>1 DEF Inv, TypeOK
    <3>4. Content(n)' = 0 => Content(n) = 0
      BY <2>3, <3>2, <3>3, ArchiveAssumption DEF Content, Inv, TypeOK
    <3> QED BY <1>1, <2>1, <2>3, <3>3, <3>4 DEF Stored, Settled, InPlace, Safe, Excused
  <2>4. ASSUME NEW c \in Children, RecordChild(p, c) PROVE Stored(n)'
    BY <2>3, <2>4, ArchiveAssumption DEF RecordChild, history
  <2>5. ASSUME NEW m \in Members, Append(p, m) PROVE Stored(n)'
    BY <2>3, <2>5 DEF Append, history
  <2>6. ASSUME NEW m \in Members, NEW a \in Artifacts, Save(p, m, a) PROVE Stored(n)'
    <3>1. /\ UNCHANGED <<live, archived, packed>> /\ Writes(p, m)
          /\ \A k \in Members \ {m} : folder'[k] = folder[k] /\ saved'[k] = saved[k]
          /\ folder'[m] = folder[m] \cup {Dir, a} /\ saved'[m] = saved[m] \cup {a}
      BY <2>6 DEF Save, Inv, TypeOK
    <3>2. CASE n = m
      <4>1. live[n] > 0 /\ InPlace(n)
        BY <1>2, <2>1, <3>1, <3>2, ArchiveAssumption DEF Writes, Owner, Settled, Inv, TypeOK
      <4>2. InPlace(n)' /\ Content(n)' # 0
        BY <1>1, <3>1, <3>2, <4>1 DEF InPlace, Excused, Content
      <4> QED BY <4>2 DEF Stored, Settled
    <3>3. CASE n # m
      BY <1>1, <2>1, <3>1, <3>3 DEF Stored, Settled, InPlace, Safe, Excused, Content
    <3> QED BY <3>2, <3>3
  <2> QED BY <2>2, <2>4, <2>5, <2>6
<1> QED BY <1>4, <1>5 DEF Good

(* Steps at one member: the others keep what they have.                    *)
LEMMA ElsewhereStored ==
    ASSUME Inv, Whereabouts, NEW p \in Processes, lock[Root] \in {p, NoProcess},
           NEW m \in Members, at[p] = "empty" => Foremost(p, m),
           torn \subseteq torn', UNCHANGED <<saved, doomed>>,
           NEW n \in Members \ {m},
           live'[n] = live[n], archived'[n] = archived[n],
           folder'[n] = folder[n], packed'[n] = packed[n]
    PROVE  Stored(n)'
<1>1. Settled(n)
  <2>1. ~ (at[p] = "empty" /\ Foremost(p, n))
    BY DEF Foremost
  <2> QED BY <2>1, OnlyEmptier
<1>2. Settled(n)'
  BY <1>1 DEF Settled, InPlace, Safe, Excused
<1>3. Content(n)' = Content(n)
  BY DEF Content
<1> QED BY <1>2, <1>3 DEF Stored, Whereabouts

(* Archives of live members are dropped: theirs is the folder.             *)
LEMMA CleaningGood ==
    ASSUME Inv, Whereabouts, NEW p \in Processes, lock[Root] \in {p, NoProcess},
           NEW m \in Members,
           DropTranscript(p, m) \/ DropArtifacts(p, m) \/ Drop(p, m) \/ DropPacked(p, m)
    PROVE  Good(p)'
<1> USE DEF DropTranscript, DropArtifacts, Drop, DropPacked
<1>1. /\ UNCHANGED <<live, folder, recorded, family, at, saved, torn, doomed>>
      /\ at[p] \in {"cleaning", "dropStale", "drop", "dropPacked"} /\ m \in todo[p]
      /\ \A n \in Members \ {m} : archived'[n] = archived[n] /\ packed'[n] = packed[n]
      /\ archived'[m] \in {0, archived[m]}
  BY DEF Foremost, process, history, deleted, Inv, TypeOK
<1>2. Handling(p) /\ Owner(p) /\ Stored(m) /\ family[p] \subseteq Members
  BY DEF Whereabouts, Inv, TypeOK
<1>3. live[m] > 0
  BY <1>1, <1>2 DEF Owner, Restoring, Restore, Inv, TypeOK
<1>4. \A n \in Members : Content(n)' = Content(n)
  BY <1>1, <1>3 DEF Content
<1>5. Planned' \subseteq Planned
  BY <1>1, <1>3, <1>4, PlannedShrinks
<1>6. \A n \in Members : InPlace(n) => InPlace(n)'
  BY <1>1 DEF InPlace, Excused
<1>7. Handling(p)'
  BY <1>1, <1>2, <1>5, <1>6 DEF Handling, Restoring
<1>8. Stored(m)'
  BY <1>2, <1>3, <1>4, <1>6, ArchiveAssumption DEF Stored, Settled, Content, Inv, TypeOK
<1>9. \A n \in Members \ {m} : Stored(n)'
  BY <1>1, ElsewhereStored
<1> QED BY <1>7, <1>8, <1>9 DEF Good

LEMMA PackingGood ==
    ASSUME Inv, Whereabouts, NEW p \in Processes, lock[Root] \in {p, NoProcess},
           NEW m \in Members, Publish(p, m) \/ Pack(p, m)
    PROVE  Good(p)'
<1> USE DEF Publish, Pack
<1>1. /\ UNCHANGED <<live, folder, at, family, saved, torn, doomed>>
      /\ at[p] \in {"publish", "pack"} /\ m \in todo[p] /\ todo'[p] = todo[p] \ {m}
      /\ \A n \in Members \ {m} : archived'[n] = archived[n] /\ packed'[n] = packed[n]
  BY DEF Foremost, Done, history, deleted, Inv, TypeOK
<1>2. live[m] > 0 /\ Handling(p) /\ family[p] \subseteq Members
  BY <1>1 DEF Whereabouts, Inv, Owner, Archiving, ArchivePass, TypeOK
<1>3. Settled(m) /\ Stored(m)
  BY <1>1, OnlyEmptier DEF Whereabouts
<1>4. InPlace(m)
  BY <1>2, <1>3, ArchiveAssumption DEF Settled, Inv, TypeOK
<1>5. Stored(m)'
  BY <1>1, <1>2, <1>4 DEF Stored, Settled, InPlace, Excused, Content
<1>6. \A n \in Members \ {m} : Stored(n)'
  BY <1>1, ElsewhereStored
<1>7. at[p] = "pack" => Safe(m)'
  BY <1>1, <1>4 DEF InPlace, Safe, Excused, Inv, TypeOK
<1>8. \A n \in Members \ {m} : Safe(n) => Safe(n)'
  BY <1>1 DEF Safe, Excused
<1>9. Handling(p)'
  BY <1>1, <1>2, <1>7, <1>8 DEF Handling, Restoring
<1> QED BY <1>5, <1>6, <1>9 DEF Good

(* Originals go when there is a safe copy; a folder of which only a part   *)
(* goes is torn.                                                           *)
LEMMA RemovalGood ==
    ASSUME Inv, Whereabouts, NEW p \in Processes, Acts(p), lock[Root] \in {p, NoProcess},
           NEW m \in Members, RemoveTranscript(p, m) \/ RemoveFolder(p, m)
    PROVE  Good(p)'
<1> USE DEF RemoveTranscript, RemoveFolder
<1>1. /\ UNCHANGED <<archived, packed, family, saved, doomed>> /\ torn \subseteq torn'
      /\ at[p] \in {"remove", "empty"} /\ Foremost(p, m) /\ m \in todo[p]
      /\ todo'[p] \subseteq todo[p]
      /\ \A n \in Members \ {m} : live'[n] = live[n] /\ folder'[n] = folder[n]
  BY HistoryGrows DEF Foremost, Done, deleted, Inv, TypeOK
<1>2. /\ Handling(p) /\ Stored(m) /\ Safe(m) /\ todo[p] \subseteq Members
      /\ archived[m] > 0
  BY <1>1 DEF Whereabouts, Handling, Inv, TypeOK, Owner, Archiving, ArchivePass
<1>3. \A n \in Members : Safe(n) => Safe(n)'
  BY <1>1 DEF Safe, Excused
<1>4. \A n \in Members \ {m} : Stored(n)'
  BY <1>1, ElsewhereStored
<1>5. Content(m)' # 0
  BY <1>1, <1>2, ArchiveAssumption DEF Content, Inv, TypeOK
<1>6. CASE RemoveTranscript(p, m)
  <2>1. /\ at[p] = "remove" /\ at'[p] = "empty" /\ UNCHANGED <<folder, todo>>
        /\ live'[m] = 0 \/ m \in torn' \/ folder[m] = NoFolder
        /\ live'[m] \in {0, live[m]}
    BY <1>6 DEF Inv, TypeOK
  <2>2. Settled(m)
    BY <2>1, OnlyEmptier
  <2>3. Settled(m)'
    BY <1>1, <2>1, <2>2 DEF Settled, InPlace, Safe, Excused
  <2>4. \A n \in Members : Foremost(p, n)' => n = m
    BY <1>1, <2>1 DEF Foremost
  <2>5. Handling(p)'
    BY <1>1, <1>2, <1>3, <2>1, <2>4 DEF Handling, Restoring
  <2> QED BY <1>4, <1>5, <2>3, <2>5 DEF Good, Stored
<1>7. CASE RemoveFolder(p, m)
  <2>1. at[p] = "empty" /\ at'[p] = "remove" /\ UNCHANGED live
    BY <1>7 DEF Inv, TypeOK
  <2>2. live[m] = 0 \/ m \in torn \/ folder[m] = NoFolder
    BY <1>1, <1>2, <2>1 DEF Handling
  <2>3. \/ folder'[m] = NoFolder
        \/ UNCHANGED folder /\ torn' = torn \cup Emptied(p)
    BY <1>7 DEF Inv, TypeOK
  <2>4. Settled(m)'
    <3>1. CASE folder'[m] = NoFolder
      BY <1>1, <1>2, <1>3, <2>1, <2>2, <3>1 DEF Stored, Settled, InPlace, Safe, Excused, NoFolder
    <3>2. CASE UNCHANGED folder /\ torn' = torn \cup Emptied(p)
      <4>1. folder[m] \in {NoFolder, packed[m]} \/ m \in torn'
        BY <1>1, <2>1, <3>2 DEF Emptied
      <4> QED BY <1>1, <1>2, <1>3, <2>1, <2>2, <3>2, <4>1
              DEF Stored, Settled, InPlace, Safe, Excused, NoFolder
    <3> QED BY <2>3, <3>1, <3>2
  <2>5. Handling(p)'
    BY <1>1, <1>2, <1>3, <2>1 DEF Handling, Restoring
  <2> QED BY <1>4, <1>5, <2>4, <2>5 DEF Good, Stored
<1> QED BY <1>6, <1>7

LEMMA EmptyingGood ==
    ASSUME Inv, Whereabouts, NEW p \in Processes, lock[Root] \in {p, NoProcess},
           NEW m \in Members, NEW a \in Artifacts, RemoveArtifact(p, m, a)
    PROVE  Good(p)'
<1> USE DEF RemoveArtifact
<1>1. /\ UNCHANGED <<live, archived, packed, at, family, todo, saved, torn, doomed>>
      /\ at[p] \in {"empty", "eraseFolder"} /\ Foremost(p, m) /\ m \in todo[p]
      /\ folder[m] # NoFolder
      /\ \A n \in Members \ {m} : folder'[n] = folder[n]
  BY DEF Foremost, process, history, deleted, NoFolder, Inv, TypeOK
<1>2. Handling(p) /\ Owner(p) /\ Stored(m) /\ family[p] \subseteq Members
  BY DEF Whereabouts, Inv, TypeOK
<1>3. \A n \in Members \ {m} : Stored(n)'
  BY <1>1, ElsewhereStored
<1>4. \A n \in Members : (Safe(n) => Safe(n)') /\ (Foremost(p, n)' <=> Foremost(p, n))
  BY <1>1 DEF Safe, Excused, Foremost
<1>5. Handling(p)'
  <2>1. \A n \in Members : Foremost(p, n) => n = m
    BY <1>1 DEF Foremost
  <2> QED BY <1>1, <1>2, <1>4, <2>1 DEF Handling, Restoring, Inv, TypeOK
<1>6. Content(m)' = Content(m)
  BY <1>1 DEF Content
<1>7. CASE at[p] = "empty"
  <2>1. Safe(m) /\ (live[m] = 0 \/ m \in torn)
    BY <1>1, <1>2, <1>7 DEF Handling
  <2>2. Emptying(m)'
    BY <1>1, <1>4, <1>7 DEF Emptying
  <2> QED BY <1>1, <1>2, <1>3, <1>4, <1>5, <1>6, <2>1, <2>2
          DEF Good, Stored, Settled, InPlace, Excused
<1>8. CASE at[p] = "eraseFolder"
  <2>1. m \in doomed
    BY <1>1, <1>2, <1>8 DEF Owner, Erasing, Deletion
  <2> QED BY <1>1, <1>3, <1>5, <2>1 DEF Good, Stored, Settled, InPlace, Excused
<1> QED BY <1>1, <1>7, <1>8

(* A restored folder holds what was saved, and so does one that is there.  *)
LEMMA LandingGood ==
    ASSUME Inv, Whereabouts, NEW p \in Processes, lock[Root] \in {p, NoProcess},
           NEW m \in Members, Unpack(p, m) \/ Land(p, m)
    PROVE  Good(p)'
<1> USE DEF Unpack, Land
<1>1. /\ UNCHANGED <<archived, packed, recorded, at, family, saved, torn, doomed>>
      /\ at[p] \in {"unpack", "land"} /\ m \in todo[p] /\ todo'[p] = todo[p] \ {m}
      /\ \A n \in Members \ {m} : live'[n] = live[n] /\ folder'[n] = folder[n]
  BY DEF Foremost, Done, history, deleted, Inv, TypeOK
<1>2. Handling(p) /\ Owner(p) /\ family[p] \subseteq Members
  BY DEF Whereabouts, Inv, TypeOK
<1>3. Settled(m) /\ Stored(m)
  BY <1>1, OnlyEmptier DEF Whereabouts
<1>4. at[p] = "land" => m \in family[p] /\ Absent(m) /\ UNCHANGED folder /\ live'[m] = archived[m]
  BY <1>1, <1>2 DEF Owner, Restoring, Restore, Inv, TypeOK
<1>5. at[p] = "unpack" =>
        UNCHANGED live /\ folder'[m] = IF folder[m] = NoFolder THEN packed[m] ELSE folder[m]
  BY DEF Inv, TypeOK
<1>6. \A n \in Members : Content(n)' = Content(n)
  BY <1>1, <1>4, <1>5 DEF Content, Absent
<1>7. Planned' \subseteq Planned
  <2>1. \A n \in Members : archived'[n] > 0 /\ live'[n] = 0 => archived[n] > 0 /\ live[n] = 0
    BY <1>1, <1>4, <1>5 DEF Absent
  <2> QED BY <1>1, <1>6, <2>1, PlannedShrinks
<1>8. InPlace(m)'
  <2>1. CASE at[p] = "unpack"
    BY <1>1, <1>3, <1>5, <2>1 DEF Settled, InPlace, Safe, Excused, NoFolder
  <2>2. CASE at[p] = "land"
    BY <1>1, <1>2, <1>4, <2>2 DEF Handling, InPlace, Excused
  <2> QED BY <1>1, <2>1, <2>2
<1>9. \A n \in Members : InPlace(n) => InPlace(n)'
  BY <1>1, <1>8 DEF InPlace, Excused
<1>10. Stored(m)'
  BY <1>1, <1>3, <1>6, <1>8 DEF Stored, Settled
<1>11. \A n \in Members \ {m} : Stored(n)'
  BY <1>1, ElsewhereStored
<1>12. Handling(p)'
  BY <1>1, <1>2, <1>7, <1>8, <1>9 DEF Handling, Restoring
<1> QED BY <1>10, <1>11, <1>12 DEF Good

LEMMA ErasingGood ==
    ASSUME Inv, Whereabouts, NEW p \in Processes, Acts(p), lock[Root] \in {p, NoProcess},
           NEW m \in Members,
           EraseTranscript(p, m) \/ EraseArchive(p, m) \/ ErasePacked(p, m) \/ EraseFolder(p, m)
    PROVE  Good(p)'
<1> USE DEF EraseTranscript, EraseArchive, ErasePacked, EraseFolder
<1>1. /\ UNCHANGED <<family, saved, doomed>> /\ torn \subseteq torn'
      /\ at[p] \in Erasing /\ at'[p] \in Erasing /\ m \in todo[p]
      /\ \A n \in Members \ {m} :
            /\ live'[n] = live[n] /\ archived'[n] = archived[n]
            /\ folder'[n] = folder[n] /\ packed'[n] = packed[n]
  BY HistoryGrows DEF Foremost, Erasing, deleted, Inv, TypeOK
<1>2. m \in doomed
  BY <1>1 DEF Inv, Owner, Deletion
<1>3. Stored(m)'
  BY <1>1, <1>2 DEF Stored, Settled, InPlace, Excused
<1>4. \A n \in Members \ {m} : Stored(n)'
  BY <1>1, ElsewhereStored DEF Erasing
<1>5. Handling(p)'
  BY <1>1 DEF Handling, Erasing, Restoring
<1> QED BY <1>3, <1>4, <1>5 DEF Good

LEMMA ActGood == ASSUME Inv, Whereabouts, NEW p \in Processes, Acts(p) PROVE Good(p)'
<1>1. CASE lock[Root] \notin {p, NoProcess}
  BY <1>1, BystanderGood
<1>2. CASE lock[Root] \in {p, NoProcess}
  <2>1. CASE \/ Open(p) \/ Collect(p) \/ LockFamily(p) \/ ResumeWithout(p)
             \/ Finish(p) \/ Stop(p) \/ Choose(p) \/ LockForDelete(p) \/ EndDelete(p)
             \/ (\E c \in Children : OpenChild(p, c) \/ CloseChild(p, c))
             \/ (\E m \in Members : Clean(p, m))
    BY <1>2, <2>1, WaitGood
  <2>2. CASE Resume(p) \/ Advance(p)
    BY <2>2, ResumeGood, AdvanceGood
  <2>3. CASE \/ (\E c \in Children : CreateChild(p, c) \/ RecordChild(p, c))
             \/ (\E m \in Members : Append(p, m) \/ \E a \in Artifacts : Save(p, m, a))
    BY <1>2, <2>3, SessionGood
  <2>4. ASSUME NEW m \in Members,
               \/ DropTranscript(p, m) \/ DropArtifacts(p, m) \/ Drop(p, m) \/ DropPacked(p, m)
               \/ Publish(p, m) \/ Pack(p, m) \/ RemoveTranscript(p, m) \/ RemoveFolder(p, m)
               \/ (\E a \in Artifacts : RemoveArtifact(p, m, a)) \/ Unpack(p, m) \/ Land(p, m)
        PROVE  Good(p)'
    BY <1>2, <2>4, CleaningGood, PackingGood, RemovalGood, EmptyingGood, LandingGood
  <2>5. ASSUME NEW m \in Members,
               EraseTranscript(p, m) \/ EraseArchive(p, m) \/ ErasePacked(p, m) \/ EraseFolder(p, m)
        PROVE  Good(p)'
    BY <1>2, <2>5, ErasingGood
  <2> QED BY <2>1, <2>2, <2>3, <2>4, <2>5 DEF Acts
<1> QED BY <1>1, <1>2

LEMMA WhereaboutsStep == ASSUME Inv, Whereabouts, [Next]_vars PROVE Whereabouts'
<1>1. CASE UNCHANGED vars
  <2> USE DEF vars, files, process, history, deleted
  <2>1. \A m \in Members : Content(m)' = Content(m)
    BY <1>1 DEF Content
  <2>2. Planned' = Planned
    BY <1>1, <2>1, ReachKept DEF Planned
  <2>3. \A p \in Processes, m \in Members : Foremost(p, m)' <=> Foremost(p, m)
    BY <1>1 DEF Foremost
  <2>4. \A m \in Members : /\ InPlace(m)' <=> InPlace(m)
                           /\ Safe(m)' <=> Safe(m)
                           /\ Emptying(m)' <=> Emptying(m)
    BY <1>1, <2>3 DEF InPlace, Safe, Excused, Emptying
  <2>5. \A m \in Members : Stored(m)'
    BY <1>1, <2>1, <2>4 DEF Whereabouts, Stored, Settled
  <2>6. ASSUME NEW p \in Processes PROVE Handling(p)'
    <3>1. Handling(p) /\ family[p] \subseteq Members /\ todo[p] \subseteq Members
      BY DEF Whereabouts, Inv, TypeOK
    <3> QED BY <1>1, <2>2, <2>3, <2>4, <3>1 DEF Handling
  <2> QED BY <2>5, <2>6 DEF Whereabouts
<1>2. CASE Next
  <2>1. PICK p \in Processes : Acts(p)
    BY <1>2, NextActs
  <2> QED BY <2>1, ActGood, HandlingKept DEF Whereabouts, Good
<1> QED BY <1>1, <1>2

LEMMA WhereaboutsAlways == Spec => []Whereabouts
<1>1. Init => Whereabouts
  BY DEF Init, Whereabouts, Stored, Settled, InPlace, Handling, Restoring
<1> QED BY <1>1, WhereaboutsStep, Invariance, PTL DEF Spec

(* When a restore returns, whatever is found from the root is live, though *)
(* an earlier pass or restore stopped half-way, and others worked beside.  *)
THEOREM FamiliesReturnWhole == Spec => []RestoredWhole
<1>1. Inv /\ Whereabouts => RestoredWhole
  <2> SUFFICES ASSUME Inv, Whereabouts, NEW p \in Processes, at[p] = "returning",
                      NEW m \in Reach, Content(m) > 0
               PROVE  live[m] > 0
    BY DEF RestoredWhole
  <2>1. m \in Members /\ live[m] \in Nat
    BY Walked, ArchiveAssumption DEF Reach, Inv, TypeOK
  <2>2. live[m] = 0 => m \in Planned
    BY <2>1 DEF Planned, Content
  <2>3. Planned \subseteq family[p] /\ \A n \in family[p] : live[n] > 0
    BY DEF Whereabouts, Handling, Restoring
  <2> QED BY <2>1, <2>2, <2>3
<1> QED BY <1>1, WhereaboutsAlways, Invariance, PTL

(* No artifact that a member saved is lost, but by a deletion or by a pass *)
(* that removed a part of its originals.                                   *)
THEOREM SavedArtifactsKept == Spec => []ArtifactsKept
<1>1. Whereabouts => ArtifactsKept
  BY DEF Whereabouts, Stored, Settled, InPlace, Safe, Excused, ArtifactsKept
<1> QED BY <1>1, WhereaboutsAlways, PTL
=============================================================================
