--------------------------- MODULE SessionArchive ---------------------------
(***************************************************************************)
(* The background archive of idle sessions.  A session and its subagents'  *)
(* sessions are a family, and a family moves to the archive and back as a  *)
(* whole: the pass compresses every transcript and artifacts folder and    *)
(* then removes the originals, a resume lands them again and then drops    *)
(* the archived copies.  A family that is deleted is removed from both     *)
(* places.  Any of this may stop half-way.                                 *)
(* Source: src/session/archive.rs.                                         *)
(*                                                                         *)
(* One family in the sessions directory, and the processes that work on    *)
(* it.  A transcript is the number of its records.  How old a family is,   *)
(* the rows of the listing and the files a stopped restore leaves in its   *)
(* staging directory are left out.                                         *)
(***************************************************************************)
EXTENDS Integers, FiniteSets

CONSTANT Members,     \* the sessions of the family
         Root,
         ParentOf,    \* of each other member
         Processes,
         NoProcess,
         Artifacts,
         Dir,         \* the folder itself, beside what is in it
         Savers,      \* bound: members that save artifacts
         MaxRecords,  \* bound: records of a session
         MaxFaults    \* bound: files that cannot be removed

Children == Members \ {Root}

ASSUME ArchiveAssumption ==
    /\ Root \in Members /\ ParentOf \in [Children -> Members]
    /\ NoProcess \notin Processes /\ Dir \notin Artifacts
    /\ Savers \subseteq Members
    /\ MaxRecords \in Nat \ {0} /\ MaxFaults \in Nat

VARIABLES live,      \* records of each member's transcript; 0: there is none
          archived,  \* records of its archived transcript
          folder,    \* its artifacts
          packed,    \* its archived artifacts
          recorded,  \* which record of its parent names it; 0: none
          lock,      \* who holds its writer lock
          at,        \* what each process does
          family,    \* the members it does it to
          todo,      \* those that are left
          saved,     \* history: every artifact a member saved
          torn,      \* history: whose originals were removed only in part
          doomed,    \* history: whose deletion has begun
          gone,      \* history: whose deletion was completed
          faults

files   == <<live, archived, folder, packed>>
process == <<lock, at, family, todo>>
deleted == <<doomed, gone>>
history == <<saved, torn, deleted>>
vars    == <<files, recorded, process, history, faults>>

NoFolder == {}
Folders  == {NoFolder} \cup {{Dir} \cup s : s \in SUBSET Artifacts}

Archiving == {"publish", "pack", "remove", "empty"}
Restoring == {"unpack", "land", "drop", "dropPacked", "dropStale", "returning"}
Erasing   == {"erase", "eraseArchive", "erasePacked", "eraseFolder"}
Phases    == {"idle", "restored", "open", "cleaning", "collected", "chosen"}
             \cup Archiving \cup Restoring \cup Erasing

(* The transcript that counts is the live one.                             *)
Content(m) == IF live[m] > 0 THEN live[m] ELSE archived[m]

TypeOK ==
    /\ live \in [Members -> 0 .. MaxRecords]
    /\ archived \in [Members -> 0 .. MaxRecords]
    /\ folder \in [Members -> Folders] /\ packed \in [Members -> Folders]
    /\ recorded \in [Children -> 0 .. MaxRecords]
    /\ lock \in [Members -> Processes \cup {NoProcess}]
    /\ at \in [Processes -> Phases]
    /\ family \in [Processes -> SUBSET Members]
    /\ todo \in [Processes -> SUBSET Members]
    /\ saved \in [Members -> SUBSET Artifacts]
    /\ torn \in SUBSET Members
    /\ doomed \in SUBSET Members /\ gone \in SUBSET Members
    /\ faults \in 0 .. MaxFaults

Init ==
    /\ live = [m \in Members |-> IF m = Root THEN 1 ELSE 0]
    /\ archived = [m \in Members |-> 0]
    /\ folder = [m \in Members |-> NoFolder]
    /\ packed = [m \in Members |-> NoFolder]
    /\ recorded = [c \in Children |-> 0]
    /\ lock = [m \in Members |-> NoProcess]
    /\ at = [p \in Processes |-> "idle"]
    /\ family = [p \in Processes |-> {}] /\ todo = [p \in Processes |-> {}]
    /\ saved = [m \in Members |-> {}] /\ torn = {}
    /\ doomed = {} /\ gone = {}
    /\ faults = 0

-----------------------------------------------------------------------------
(* The family                                                              *)

(* What is found from the root through those of the children.              *)
Walk(children) ==
    {m \in Members : \A S \in SUBSET Members :
        (Root \in S /\ \A c \in children : ParentOf[c] \in S => c \in S) => m \in S}

Names(records, c) == recorded[c] > 0 /\ recorded[c] <= records

(* collect_family_members: the live transcripts.                           *)
LiveFamily ==
    Walk({c \in Children : Names(live[ParentOf[c]], c) /\ live[c] > 0})

(* plan_family_restore: whichever copy of each transcript there is.        *)
Reach == Walk({c \in Children : Names(Content(ParentOf[c]), c)})

Free(m)  == lock[m] = NoProcess

Locked(p, members) == [m \in Members |-> IF m \in members THEN p ELSE lock[m]]
Released(p)        == [m \in Members |-> IF lock[m] = p THEN NoProcess ELSE lock[m]]

(* The members are taken in an order in which parents come first.          *)
First(members) ==
    CHOOSE m \in members : m \in Children => ParentOf[m] \notin members

Foremost(p, m) == m \in todo[p] /\ m = First(todo[p])

Fault == faults < MaxFaults /\ faults' = faults + 1

-----------------------------------------------------------------------------
(* An open session                                                         *)

(* load_and_open_for_resume, after the family is restored.                 *)
Open(p) ==
    /\ at[p] = "restored" /\ Free(Root) /\ live[Root] > 0
    /\ lock' = Locked(p, {Root}) /\ at' = [at EXCEPT ![p] = "open"]
    /\ UNCHANGED <<files, recorded, family, todo, history, faults>>

Writes(p, m) == at[p] = "open" /\ lock[m] = p

Append(p, m) ==
    /\ Writes(p, m) /\ live[m] < MaxRecords
    /\ live' = [live EXCEPT ![m] = @ + 1]
    /\ UNCHANGED <<archived, folder, packed, recorded, process, history, faults>>

(* persist_artifact                                                        *)
Save(p, m, a) ==
    /\ m \in Savers /\ Writes(p, m) /\ a \notin folder[m]
    /\ folder' = [folder EXCEPT ![m] = @ \cup {Dir, a}]
    /\ saved' = [saved EXCEPT ![m] = @ \cup {a}]
    /\ UNCHANGED <<live, archived, packed, recorded, process, torn, deleted, faults>>

(* A subagent's transcript is created, and only then named by its parent's. *)
(* Its id is new: that of a deleted one does not return.                   *)
CreateChild(p, c) ==
    /\ Writes(p, ParentOf[c]) /\ Content(c) = 0 /\ Free(c) /\ c \notin doomed
    /\ live' = [live EXCEPT ![c] = 1] /\ lock' = Locked(p, {c})
    /\ UNCHANGED <<archived, folder, packed, recorded, at, family, todo, history, faults>>

RecordChild(p, c) ==
    /\ Writes(p, ParentOf[c]) /\ lock[c] = p /\ recorded[c] = 0
    /\ live[ParentOf[c]] < MaxRecords
    /\ live' = [live EXCEPT ![ParentOf[c]] = @ + 1]
    /\ recorded' = [recorded EXCEPT ![c] = live[ParentOf[c]] + 1]
    /\ UNCHANGED <<archived, folder, packed, process, history, faults>>

OpenChild(p, c) ==
    /\ Writes(p, ParentOf[c]) /\ Names(live[ParentOf[c]], c)
    /\ live[c] > 0 /\ Free(c)
    /\ lock' = Locked(p, {c})
    /\ UNCHANGED <<files, recorded, at, family, todo, history, faults>>

CloseChild(p, c) ==
    /\ Writes(p, c) /\ \A d \in Children : ParentOf[d] = c => lock[d] # p
    /\ lock' = [lock EXCEPT ![c] = NoProcess]
    /\ UNCHANGED <<files, recorded, at, family, todo, history, faults>>

-----------------------------------------------------------------------------
(* The archive pass                                                        *)

(* A process goes to a phase with the members it is for.                   *)
Goes(p, phase, members) ==
    /\ at' = [at EXCEPT ![p] = phase] /\ todo' = [todo EXCEPT ![p] = members]

Done(p, m) == todo' = [todo EXCEPT ![p] = @ \ {m}]

(* Fault: without the writer lock.                                         *)
CleanUnlocked(p, m) ==
    /\ at[p] = "idle" /\ live[m] > 0 /\ archived[m] > 0
    /\ Goes(p, "cleaning", {m})
    /\ UNCHANGED <<files, recorded, lock, family, history, faults>>

(* remove_stale_archives: of a member that is live again.                  *)
Clean(p, m) ==
    /\ at[p] = "idle" /\ live[m] > 0 /\ archived[m] > 0 /\ Free(m)
    /\ lock' = Locked(p, {m}) /\ Goes(p, "cleaning", {m})
    /\ UNCHANGED <<files, recorded, family, history, faults>>

(* remove_file_if_present, which only reports that it could not: the       *)
(* transcript's archive and then the artifacts'.                           *)
DropTranscript(p, m) ==
    /\ at[p] \in {"cleaning", "dropStale"} /\ m \in todo[p] /\ archived[m] > 0
    /\ archived' = [archived EXCEPT ![m] = 0]
    /\ UNCHANGED <<live, folder, packed, recorded, process, history, faults>>

DropArtifacts(p, m) ==
    /\ at[p] \in {"cleaning", "dropStale"} /\ m \in todo[p]
    /\ \/ archived[m] = 0 /\ UNCHANGED faults
       \/ archived[m] > 0 /\ Fault
    /\ packed' = [packed EXCEPT ![m] = NoFolder] /\ Done(p, m)
    /\ UNCHANGED <<live, archived, folder, recorded, lock, at, family, history>>

Collect(p) ==
    /\ at[p] = "idle" /\ live[Root] > 0
    /\ at' = [at EXCEPT ![p] = "collected"]
    /\ family' = [family EXCEPT ![p] = LiveFamily]
    /\ UNCHANGED <<files, recorded, lock, todo, history, faults>>

(* Fault: it is enough that the locks were free.                           *)
LockNothing(p) ==
    /\ at[p] = "collected" /\ \A m \in family[p] : Free(m) /\ live[m] > 0
    /\ Goes(p, "publish", family[p])
    /\ UNCHANGED <<files, recorded, lock, family, history, faults>>

(* All the writer locks, or none: with one of them taken, or a transcript  *)
(* gone since it was collected, the family is left for another pass (Stop). *)
(* Compressing writes to temporary files that the locks keep current.      *)
LockFamily(p) ==
    /\ at[p] = "collected" /\ \A m \in family[p] : Free(m) /\ live[m] > 0
    /\ lock' = Locked(p, family[p]) /\ Goes(p, "publish", family[p])
    /\ UNCHANGED <<files, recorded, family, history, faults>>

Publish(p, m) ==
    /\ at[p] = "publish" /\ Foremost(p, m) /\ Done(p, m)
    /\ archived' = [archived EXCEPT ![m] = live[m]]
    /\ UNCHANGED <<live, folder, packed, recorded, lock, at, family, history, faults>>

(* Fault: the artifacts are not archived.                                  *)
PackNothing(p, m) ==
    /\ at[p] = "pack" /\ Foremost(p, m) /\ Done(p, m)
    /\ UNCHANGED <<files, recorded, lock, at, family, history, faults>>

Pack(p, m) ==
    /\ at[p] = "pack" /\ Foremost(p, m) /\ Done(p, m)
    /\ packed' = [packed EXCEPT ![m] = folder[m]]
    /\ UNCHANGED <<live, archived, folder, recorded, lock, at, family, history, faults>>

(* The originals: a member's transcript and then its artifacts, file by    *)
(* file.  What cannot be removed is reported and left.                     *)
RemoveTranscript(p, m) ==
    /\ at[p] = "remove" /\ Foremost(p, m) /\ at' = [at EXCEPT ![p] = "empty"]
    /\ \/ live' = [live EXCEPT ![m] = 0] /\ UNCHANGED <<torn, faults>>
       \/ /\ Fault /\ UNCHANGED live
          /\ torn' = IF folder[m] = NoFolder THEN torn ELSE torn \cup {m}
    /\ UNCHANGED <<archived, folder, packed, recorded, lock, family, todo, saved, deleted>>

RemoveArtifact(p, m, a) ==
    /\ at[p] \in {"empty", "eraseFolder"} /\ Foremost(p, m) /\ a \in folder[m]
    /\ folder' = [folder EXCEPT ![m] = @ \ {a}]
    /\ UNCHANGED <<live, archived, packed, recorded, process, history, faults>>

Emptied(p) ==
    {m \in todo[p] : at[p] = "empty" /\ folder[m] \notin {NoFolder, packed[m]}}

RemoveFolder(p, m) ==
    /\ at[p] = "empty" /\ Foremost(p, m) /\ at' = [at EXCEPT ![p] = "remove"]
    /\ \/ /\ folder[m] \in {NoFolder, {Dir}}
          /\ folder' = [folder EXCEPT ![m] = NoFolder] /\ UNCHANGED <<torn, faults>>
       \/ /\ folder[m] # NoFolder /\ Fault /\ UNCHANGED folder
          /\ torn' = torn \cup Emptied(p)
    /\ Done(p, m)
    /\ UNCHANGED <<live, archived, packed, recorded, lock, family, saved, deleted>>

-----------------------------------------------------------------------------
(* Resuming a session                                                      *)

(* Fault: the children of a member that is live are not looked for.        *)
PlannedOfArchived ==
    {m \in Walk({c \in Children : Names(archived[ParentOf[c]], c)}) :
        archived[m] > 0 /\ live[m] = 0}

Planned == {m \in Reach : archived[m] > 0 /\ live[m] = 0}
Stale   == {m \in Reach : archived[m] > 0 /\ live[m] > 0}
Packed(members) == {m \in members : packed[m] # NoFolder}

(* restore_session_family_for_resume: with the root's writer lock, what is *)
(* only in the archive is staged before anything is changed.               *)
Resume(p) ==
    /\ at[p] \in {"idle", "restored"} /\ Free(Root)
    /\ IF Planned \cup Stale = {}
       THEN at' = [at EXCEPT ![p] = "restored"] /\ UNCHANGED <<lock, family, todo>>
       ELSE /\ lock' = Locked(p, {Root})
            /\ family' = [family EXCEPT ![p] = Planned]
            /\ Goes(p, "unpack", Packed(Planned))
    /\ UNCHANGED <<files, recorded, history, faults>>

(* The lock is not to be had: a session that is live is left to its owner. *)
ResumeWithout(p) ==
    /\ at[p] = "idle" /\ ~Free(Root) /\ live[Root] > 0
    /\ at' = [at EXCEPT ![p] = "restored"]
    /\ UNCHANGED <<files, recorded, lock, family, todo, history, faults>>

(* commit_restore.  A folder that is already there is left as it is.       *)
Unpack(p, m) ==
    /\ at[p] = "unpack" /\ Foremost(p, m) /\ Done(p, m)
    /\ folder' = [folder EXCEPT ![m] = IF @ = NoFolder THEN packed[m] ELSE @]
    /\ UNCHANGED <<live, archived, packed, recorded, lock, at, family, history, faults>>

Land(p, m) ==
    /\ at[p] = "land" /\ Foremost(p, m) /\ Done(p, m)
    /\ live' = [live EXCEPT ![m] = archived[m]]
    /\ UNCHANGED <<archived, folder, packed, recorded, lock, at, family, history, faults>>

Drop(p, m) ==
    /\ at[p] = "drop" /\ Foremost(p, m) /\ Done(p, m)
    /\ \/ archived' = [archived EXCEPT ![m] = 0] /\ UNCHANGED faults
       \/ archived[m] > 0 /\ Fault /\ UNCHANGED archived
    /\ UNCHANGED <<live, folder, packed, recorded, lock, at, family, history>>

DropPacked(p, m) ==
    /\ at[p] = "dropPacked" /\ Foremost(p, m) /\ Done(p, m)
    /\ packed' = [packed EXCEPT ![m] = NoFolder]
    /\ UNCHANGED <<live, archived, folder, recorded, lock, at, family, history, faults>>

-----------------------------------------------------------------------------
(* Deleting a family                                                       *)

(* collect_family_ids: those that have a transcript in either place.       *)
Choose(p) ==
    /\ at[p] = "idle" /\ Content(Root) > 0
    /\ at' = [at EXCEPT ![p] = "chosen"]
    /\ family' = [family EXCEPT ![p] = {m \in Reach : Content(m) > 0}]
    /\ UNCHANGED <<files, recorded, lock, todo, history, faults>>

(* Fault: it is enough that the locks were free.                           *)
EraseUnlocked(p) ==
    /\ at[p] = "chosen" /\ \A m \in family[p] : Free(m)
    /\ Goes(p, "erase", family[p]) /\ doomed' = doomed \cup family[p]
    /\ UNCHANGED <<files, recorded, lock, family, saved, torn, gone, faults>>

(* delete_session_family: all the writer locks, or the family is busy and  *)
(* is left alone (Stop).                                                   *)
LockForDelete(p) ==
    /\ at[p] = "chosen" /\ \A m \in family[p] : Free(m)
    /\ lock' = Locked(p, family[p]) /\ Goes(p, "erase", family[p])
    /\ doomed' = doomed \cup family[p]
    /\ UNCHANGED <<files, recorded, family, saved, torn, gone, faults>>

(* A record that only a removed transcript held names no child any more.   *)
Forgotten(m, records) ==
    [c \in Children |->
        IF ParentOf[c] = m /\ recorded[c] > records THEN 0 ELSE recorded[c]]

(* Fault: only the live transcript is removed.                             *)
EraseLiveOnly(p, m) ==
    /\ at[p] = "erase" /\ Foremost(p, m) /\ at' = [at EXCEPT ![p] = "eraseFolder"]
    /\ live' = [live EXCEPT ![m] = 0] /\ recorded' = Forgotten(m, archived[m])
    /\ UNCHANGED <<archived, folder, packed, lock, family, todo, history, faults>>

(* A member's transcript, then its archive, then that of its artifacts.    *)
(* What cannot be removed is reported and left.                            *)
EraseTranscript(p, m) ==
    /\ at[p] = "erase" /\ Foremost(p, m) /\ at' = [at EXCEPT ![p] = "eraseArchive"]
    /\ \/ /\ live' = [live EXCEPT ![m] = 0] /\ recorded' = Forgotten(m, archived[m])
          /\ UNCHANGED <<torn, faults>>
       \/ /\ live[m] > 0 /\ Fault /\ torn' = torn \cup {m}
          /\ UNCHANGED <<live, recorded>>
    /\ UNCHANGED <<archived, folder, packed, lock, family, todo, saved, deleted>>

EraseArchive(p, m) ==
    /\ at[p] = "eraseArchive" /\ Foremost(p, m) /\ at' = [at EXCEPT ![p] = "erasePacked"]
    /\ \/ /\ archived' = [archived EXCEPT ![m] = 0] /\ recorded' = Forgotten(m, live[m])
          /\ UNCHANGED <<torn, faults>>
       \/ /\ archived[m] > 0 /\ Fault /\ torn' = torn \cup {m}
          /\ UNCHANGED <<archived, recorded>>
    /\ UNCHANGED <<live, folder, packed, lock, family, todo, saved, deleted>>

ErasePacked(p, m) ==
    /\ at[p] = "erasePacked" /\ Foremost(p, m) /\ at' = [at EXCEPT ![p] = "eraseFolder"]
    /\ \/ packed' = [packed EXCEPT ![m] = NoFolder] /\ UNCHANGED <<torn, faults>>
       \/ /\ packed[m] # NoFolder /\ Fault /\ torn' = torn \cup {m}
          /\ UNCHANGED packed
    /\ UNCHANGED <<live, archived, folder, recorded, lock, family, todo, saved, deleted>>

(* remove_dir_all, with RemoveArtifact.                                    *)
EraseFolder(p, m) ==
    /\ at[p] = "eraseFolder" /\ Foremost(p, m) /\ at' = [at EXCEPT ![p] = "erase"]
    /\ \/ /\ folder[m] \in {NoFolder, {Dir}}
          /\ folder' = [folder EXCEPT ![m] = NoFolder] /\ UNCHANGED <<torn, faults>>
       \/ /\ folder[m] # NoFolder /\ Fault /\ torn' = torn \cup {m}
          /\ UNCHANGED folder
    /\ Done(p, m)
    /\ UNCHANGED <<live, archived, packed, recorded, lock, family, saved, deleted>>

(* The ids of what was removed completely are out of use for good.         *)
EndDelete(p) ==
    /\ at[p] = "erase" /\ todo[p] = {} /\ at' = [at EXCEPT ![p] = "idle"]
    /\ lock' = Released(p) /\ family' = [family EXCEPT ![p] = {}]
    /\ gone' = gone \cup (family[p] \ torn)
    /\ UNCHANGED <<files, recorded, todo, saved, torn, doomed, faults>>

-----------------------------------------------------------------------------
(* What follows when a phase is through with its members                   *)

Following ==
    [publish |-> "pack", pack |-> "remove", unpack |-> "land", land |-> "drop",
     drop |-> "dropPacked", dropPacked |-> "dropStale", dropStale |-> "returning"]

MembersFor(p, phase) ==
    CASE phase = "pack"      -> {m \in family[p] : folder[m] # NoFolder}
      [] phase = "dropStale" -> Stale
      [] phase = "returning" -> {}
      [] OTHER               -> family[p]

Advance(p) ==
    /\ at[p] \in DOMAIN Following /\ todo[p] = {}
    /\ Goes(p, Following[at[p]], MembersFor(p, Following[at[p]]))
    /\ UNCHANGED <<files, recorded, lock, family, history, faults>>

Finish(p) ==
    /\ at[p] \in {"cleaning", "remove", "returning"} /\ todo[p] = {}
    /\ at' = [at EXCEPT ![p] = IF @ = "returning" THEN "restored" ELSE "idle"]
    /\ lock' = Released(p) /\ family' = [family EXCEPT ![p] = {}]
    /\ UNCHANGED <<files, recorded, todo, history, faults>>

(* An error, a session that closes, a process that is killed: whatever it  *)
(* was doing stays as it is, and its locks are free.                       *)
Stop(p) ==
    /\ at[p] # "idle" /\ torn' = torn \cup Emptied(p)
    /\ Goes(p, "idle", {}) /\ family' = [family EXCEPT ![p] = {}]
    /\ lock' = Released(p)
    /\ UNCHANGED <<files, recorded, saved, deleted, faults>>

Next ==
    \E p \in Processes :
        \/ Open(p) \/ Collect(p) \/ LockFamily(p) \/ Resume(p) \/ ResumeWithout(p)
        \/ Advance(p) \/ Finish(p) \/ Stop(p)
        \/ Choose(p) \/ LockForDelete(p) \/ EndDelete(p)
        \/ \E c \in Children :
              CreateChild(p, c) \/ RecordChild(p, c) \/ OpenChild(p, c) \/ CloseChild(p, c)
        \/ \E m \in Members :
              \/ Append(p, m) \/ \E a \in Artifacts : Save(p, m, a)
              \/ Clean(p, m) \/ DropTranscript(p, m) \/ DropArtifacts(p, m)
              \/ Publish(p, m) \/ Pack(p, m)
              \/ RemoveTranscript(p, m) \/ RemoveFolder(p, m)
              \/ \E a \in Artifacts : RemoveArtifact(p, m, a)
              \/ Unpack(p, m) \/ Land(p, m) \/ Drop(p, m) \/ DropPacked(p, m)
              \/ EraseTranscript(p, m) \/ EraseArchive(p, m)
              \/ ErasePacked(p, m) \/ EraseFolder(p, m)

Spec == Init /\ [][Next]_vars

-----------------------------------------------------------------------------
(* No step of an archive pass or a restore, wherever it stops and whatever *)
(* runs beside it, loses a record of a session or brings back an older     *)
(* copy of it (archive_family's and remove_stale_archives' comments on the *)
(* writer locks); only a deletion takes records away, and only from the    *)
(* family whose locks it has taken.                                        *)
Store == INSTANCE SessionStore WITH records <- [m \in Members |-> Content(m)]

ImplementsSessionStore == Store!StoreSpec

(* A session that is open for writing has its transcript in place: no pass *)
(* takes it away under its writer.                                         *)
WritersKeepTheirFile ==
    \A p \in Processes, m \in Members : Writes(p, m) => live[m] > 0

(* restore_session_if_archived: when it returns, every session that can be *)
(* found from the root is live, whatever an earlier pass or restore left   *)
(* behind.                                                                 *)
RestoredWhole ==
    \A p \in Processes : at[p] = "returning" =>
        \A m \in Reach : Content(m) > 0 => live[m] > 0

(* Unless it is being deleted, or an archive pass removed only a part of   *)
(* its originals, every artifact that a member saved is in its folder or   *)
(* in its archive.                                                         *)
ArtifactsKept ==
    \A m \in Members \ (torn \cup doomed) : saved[m] \subseteq folder[m] \cup packed[m]

(* commit_restore's comment, "Content-addressed artifacts only ever gain   *)
(* files, so a directory that is already present is authoritative": so     *)
(* after a restore every artifact of a family that nobody began to delete  *)
(* is in its member's folder.                                              *)
FolderIsAuthoritative ==
    \A p \in Processes : at[p] = "returning" =>
        \A m \in Reach \ doomed : Content(m) > 0 => saved[m] \subseteq folder[m]

(* delete_session_family, "a live or in-flight family is left untouched":  *)
(* so no writer, restore or archive pass that began before a deletion, or  *)
(* ran beside it, brings back a transcript or an artifact of a member that *)
(* it removed.                                                             *)
DeletedStaysGone ==
    \A m \in gone : Content(m) = 0 /\ folder[m] = NoFolder /\ packed[m] = NoFolder
=============================================================================
