---------------------------- MODULE ConfigFiles ----------------------------
(***************************************************************************)
(* The Configs module of Admin for one declared file: saving a text takes  *)
(* a snapshot of the file first and replaces it in one rename; a snapshot  *)
(* can be restored, which takes a snapshot too.  Snapshots are named by    *)
(* second and the newest MaxBackups are kept.                              *)
(*                                                                         *)
(* The handlers do not await, so a request runs to its end unless the      *)
(* process is killed in it.                                                *)
(***************************************************************************)
EXTENDS Naturals, FiniteSetsExt, Functions, TLC

CONSTANTS
    Texts,       \* texts an operator may save
    Missing,     \* there is no file
    Torn,        \* a copy that was cut short
    MaxBackups,  \* _MAX_BACKUPS
    MaxTime      \* bound: seconds, and names of snapshots

VARIABLES
    text,     \* what the file holds
    backups,  \* <file>.bak.<ts>: timestamp -> text
    now       \* the clock, in seconds

vars == <<text, backups, now>>

Init ==
    /\ text \in Texts \cup {Missing}
    /\ backups = <<>>
    /\ now = 0

\* the name a snapshot gets: now, but later than every snapshot there is
SnapshotName == Max({now} \cup {ts + 1 : ts \in DOMAIN backups})

\* _rotate
Rotate(b) ==
    Restrict(b, {ts \in DOMAIN b :
                    Cardinality({later \in DOMAIN b : later > ts}) < MaxBackups})

\* snapshot: nothing to copy on a first write
Snapshot == IF text = Missing THEN backups ELSE Rotate(backups @@ (SnapshotName :> text))

Bounded == SnapshotName < MaxTime

\* write_config; a text that does not parse is refused before the disk is touched
WriteConfig(t) ==
    /\ Bounded
    /\ backups' = Snapshot
    /\ text' = t
    /\ UNCHANGED now

\* restore: the source is looked up before the snapshot and copied after it
Restored(ts) == IF ts \in DOMAIN Snapshot THEN Snapshot[ts] ELSE text

\* restore_config; a source that is gone by then is answered 404
RestoreConfig(ts) ==
    /\ Bounded
    /\ ts \in DOMAIN backups
    /\ backups' = Snapshot
    /\ text' = Restored(ts)
    /\ UNCHANGED now

\* the process is killed after the snapshot, or while it is copied
Killed ==
    /\ Bounded /\ text # Missing
    /\ backups' \in {Snapshot, backups @@ (SnapshotName :> Torn)}
    /\ UNCHANGED <<text, now>>

Tick == now < MaxTime /\ now' = now + 1 /\ UNCHANGED <<text, backups>>

Next ==
    \/ \E t \in Texts : WriteConfig(t)
    \/ \E ts \in DOMAIN backups : RestoreConfig(ts)
    \/ Killed
    \/ Tick

Spec == Init /\ [][Next]_vars

-----------------------------------------------------------------------------

\* backups.restore: "Restore target from `<target>.bak.<timestamp>`".  Whatever
\* snapshot is listed, restoring it gives the file what the snapshot holds.
ListedIsRestorable == \A ts \in DOMAIN backups : Restored(ts) = backups[ts]
=============================================================================
