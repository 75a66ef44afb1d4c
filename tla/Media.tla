------------------------------- MODULE Media -------------------------------
(***************************************************************************)
(* One file of one org (media/impl/manager.py): its row, the multipart     *)
(* uploads and the object the store keeps for it, the requests that start, *)
(* confirm and delete it, and the sweeps that erase it.  The row and the   *)
(* store share no transaction, so each call to either is a step.           *)
(*                                                                         *)
(* A request is over within the day that makes a row due for the sweep,    *)
(* except that a confirm or a delete may begin just before it.             *)
(***************************************************************************)
EXTENDS Naturals, FiniteSets

CONSTANTS
    Calls,          \* the requests that may be under way at once
    Sweeps,
    MaxUploads,     \* bound on the uploads that are started
    MaxFaults       \* bound on crashes and on calls of the store that fail

MediaAssumption ==
    /\ IsFiniteSet(Calls) /\ IsFiniteSet(Sweeps)
    /\ {MaxUploads, MaxFaults} \subseteq Nat

VARIABLES
    row,        \* the file's row
    aged,       \* a day has passed: a retry of the start comes within it
    uploads,    \* the uploads under way in the store, numbered as they began
    made,       \* how many there were
    object,     \* whether the store holds the object
    expired,    \* the org's retention is over
    calls,      \* what each request holds
    sweeps,     \* the row each sweep read
    faults

vars == <<row, aged, uploads, made, object, expired, calls, sweeps, faults>>

NoRow == [status |-> "none", upload |-> 0, deleted |-> FALSE, past |-> FALSE]

NoCall == [pc |-> "idle", upload |-> 0, file |-> NoRow]
NoSweep == [pc |-> "idle", file |-> NoRow]

Init ==
    /\ row = NoRow
    /\ aged = FALSE
    /\ uploads = {}
    /\ made = 0
    /\ object = FALSE
    /\ expired = FALSE
    /\ calls = [c \in Calls |-> NoCall]
    /\ sweeps = [s \in Sweeps |-> NoSweep]
    /\ faults = 0

Fault == faults < MaxFaults /\ faults' = faults + 1

IsRow == row.status # "none"

\* get_file: a row that is deleted is not found.
IsLive == IsRow /\ ~row.deleted

Goes(c, pc) == calls' = [calls EXCEPT ![c].pc = pc]
Ends(c) == calls' = [calls EXCEPT ![c] = NoCall]

Begins(c, pc) ==
    /\ calls[c] = NoCall /\ ~expired
    /\ calls' = [calls EXCEPT ![c].pc = pc, ![c].file = row]
    /\ UNCHANGED <<row, aged, uploads, made, object, expired, sweeps, faults>>

----------------------------------------------------------------------------
(* create_file: the store's upload, then the row that names it.            *)

StartUpload(c) ==
    /\ calls[c] = NoCall /\ ~expired /\ ~aged
    /\ made < MaxUploads
    /\ made' = made + 1
    /\ uploads' = uploads \cup {made + 1}
    /\ calls' = [calls EXCEPT ![c] = [NoCall EXCEPT !.pc = "started", !.upload = made + 1]]
    /\ UNCHANGED <<row, aged, object, expired, sweeps, faults>>

CreateFile(c) ==
    /\ calls[c].pc = "started"
    /\ IF IsRow
       THEN Goes(c, "refused") /\ UNCHANGED row
       ELSE /\ row' = [NoRow EXCEPT !.status = "pending", !.upload = calls[c].upload]
            /\ Ends(c)
    /\ UNCHANGED <<aged, uploads, made, object, expired, sweeps, faults>>

\* A retry under the same id: the upload this attempt started is no one's.
OwnUpload(c) == calls[c].upload

AbortOwn(c) ==
    /\ calls[c].pc = "refused"
    /\ uploads' = uploads \ {OwnUpload(c)}
    /\ Ends(c)
    /\ UNCHANGED <<row, aged, made, object, expired, sweeps, faults>>

----------------------------------------------------------------------------
(* confirm_file                                                            *)

BeginConfirm(c) == IsLive /\ row.status = "pending" /\ Begins(c, "confirming")

\* The store puts the parts together, or refuses: parts are missing, or it has
\* no such upload and no object either.  An answer may be lost.
CompleteUpload(c) ==
    /\ calls[c].pc = "confirming"
    /\ IF calls[c].file.upload \in uploads
       THEN \/ /\ object' = TRUE
               /\ uploads' = uploads \ {calls[c].file.upload}
               /\ \/ Goes(c, "completed") /\ UNCHANGED faults
                  \/ Ends(c) /\ Fault
            \/ Ends(c) /\ UNCHANGED <<object, uploads, faults>>
       ELSE /\ IF object THEN Goes(c, "completed") ELSE Ends(c)
            /\ UNCHANGED <<object, uploads, faults>>
    /\ UNCHANGED <<row, aged, made, expired, sweeps>>

\* _upsert writes the whole row, over a row of this id or as one; it never
\* brings a deleted row back.
Upsert(file) ==
    row' = IF row.deleted /\ ~file.deleted THEN row ELSE file

ConfirmWrite(c) ==
    /\ calls[c].pc = "completed"
    /\ Upsert([calls[c].file EXCEPT !.status = "stored", !.past = FALSE])
    /\ Ends(c)
    /\ UNCHANGED <<aged, uploads, made, object, expired, sweeps, faults>>

----------------------------------------------------------------------------
(* delete_file, delete_subject_files                                       *)

BeginDelete(c) == IsLive /\ Begins(c, "deleting")

DeleteWrite(c) ==
    /\ calls[c].pc = "deleting"
    /\ Upsert([calls[c].file EXCEPT !.deleted = TRUE, !.past = FALSE])
    /\ Ends(c)
    /\ UNCHANGED <<aged, uploads, made, object, expired, sweeps, faults>>

\* A request's process dies.
CallDies(c) ==
    /\ calls[c] # NoCall
    /\ Fault
    /\ Ends(c)
    /\ UNCHANGED <<row, aged, uploads, made, object, expired, sweeps>>

----------------------------------------------------------------------------
(* purge_across_tenants, purge_tenant                                      *)

\* is_purgeable: past its cut, deleted or pending; or a row of an org whose retention is over.
Purgeable == IsRow /\ (row.past \/ expired)

\* The upload of a pending file is left to the bucket's lifecycle.
MutAfterRead == "removing"

\* _remove_object: the parts of an upload that was pending go first.
AfterRead == IF row.status = "pending" THEN "aborting" ELSE "removing"

SweepReads(s) ==
    /\ sweeps[s].pc = "idle"
    /\ Purgeable
    /\ sweeps' = [sweeps EXCEPT ![s] = [pc |-> AfterRead, file |-> row]]
    /\ UNCHANGED <<row, aged, uploads, made, object, expired, calls, faults>>

AbortUpload(s) ==
    /\ sweeps[s].pc = "aborting"
    /\ uploads' = uploads \ {sweeps[s].file.upload}
    /\ sweeps' = [sweeps EXCEPT ![s].pc = "removing"]
    /\ UNCHANGED <<row, aged, made, object, expired, calls, faults>>

RemoveObject(s) ==
    /\ sweeps[s].pc = "removing"
    /\ object' = FALSE
    /\ sweeps' = [sweeps EXCEPT ![s].pc = "purging"]
    /\ UNCHANGED <<row, aged, uploads, made, expired, calls, faults>>

\* By the id alone: whatever the row has become.
PurgeRow(s) ==
    /\ sweeps[s].pc = "purging"
    /\ row' = NoRow
    /\ sweeps' = [sweeps EXCEPT ![s] = NoSweep]
    /\ UNCHANGED <<aged, uploads, made, object, expired, calls, faults>>

\* A call of the store or of the rows fails, or the worker dies.
SweepFails(s) ==
    /\ sweeps[s] # NoSweep
    /\ Fault
    /\ sweeps' = [sweeps EXCEPT ![s] = NoSweep]
    /\ UNCHANGED <<row, aged, uploads, made, object, expired, calls>>

----------------------------------------------------------------------------
(* Time, and the store's own upkeep.                                       *)

\* The row comes past its cut: a day after it was deleted, or started.
Ages ==
    /\ IsRow /\ ~row.past /\ (row.deleted \/ row.status = "pending")
    /\ \A c \in Calls : calls[c].pc \notin {"started", "refused"}
    /\ row.deleted => \A c \in Calls : calls[c] = NoCall
    /\ row' = [row EXCEPT !.past = TRUE]
    /\ aged' = TRUE
    /\ UNCHANGED <<uploads, made, object, expired, calls, sweeps, faults>>

\* The org was deleted, and its retention of days is over.
Expire ==
    /\ ~expired
    /\ \A c \in Calls : calls[c] = NoCall
    /\ expired' = TRUE
    /\ UNCHANGED <<row, aged, uploads, made, object, calls, sweeps, faults>>

\* The bucket's lifecycle aborts an upload that nobody names.
LifecycleAborts ==
    /\ \E u \in uploads :
          /\ IsRow => row.upload # u
          /\ \A c \in Calls : calls[c].upload # u /\ calls[c].file.upload # u
          /\ uploads' = uploads \ {u}
    /\ UNCHANGED <<row, aged, made, object, expired, calls, sweeps, faults>>

Next ==
    \/ \E c \in Calls :
          \/ StartUpload(c) \/ CreateFile(c) \/ AbortOwn(c)
          \/ BeginConfirm(c) \/ CompleteUpload(c) \/ ConfirmWrite(c)
          \/ BeginDelete(c) \/ DeleteWrite(c) \/ CallDies(c)
    \/ \E s \in Sweeps :
          \/ SweepReads(s) \/ AbortUpload(s) \/ RemoveObject(s) \/ PurgeRow(s) \/ SweepFails(s)
    \/ Ages \/ Expire \/ LifecycleAborts

Spec == Init /\ [][Next]_vars

----------------------------------------------------------------------------
(* Properties.                                                             *)

Row == [status : {"none", "pending", "stored"}, upload : 0..MaxUploads,
        deleted : BOOLEAN, past : BOOLEAN]

TypeOK ==
    /\ row \in Row
    /\ {aged, object, expired} \subseteq BOOLEAN
    /\ made \in 0..MaxUploads /\ uploads \subseteq 1..made
    /\ calls \in [Calls -> [pc : {"idle", "started", "refused", "confirming", "completed",
                                  "deleting"},
                            upload : 0..MaxUploads, file : Row]]
    /\ sweeps \in [Sweeps -> [pc : {"idle", "aborting", "removing", "purging"}, file : Row]]
    /\ faults \in 0..MaxFaults

\* An object in the store has a row, so a sweep finds it (purge_across_tenants:
\* an object no row names is one nothing would ever find).
ObjectIsNamed == object => IsRow

\* A file that may still be finished has its upload, or the object it became:
\* no retry of its start and no sweep of another time takes it away.
UploadStays ==
    row.status = "pending" /\ ~row.deleted /\ ~row.past /\ ~expired
        => row.upload \in uploads \/ object

StoreFollowsRows == ObjectIsNamed /\ UploadStays

----------------------------------------------------------------------------
(* What the steps keep, from which StoreFollowsRows follows.               *)

Starting == {"started", "refused"}
Holding == {"confirming", "completed", "deleting"}

\* Who started an upload and has not handed it to a row is its only owner, and
\* does so within the day, in an org that lives.
StartsAreOwn ==
    \A c \in Calls : calls[c].pc \in Starting =>
        /\ calls[c].upload \in uploads
        /\ ~aged /\ ~expired
        /\ \A d \in Calls \ {c} : calls[d].pc \in Starting => calls[d].upload # calls[c].upload

\* The row was written for the upload u, or never if u is zero, and whatever
\* read it, or will write it again, names that upload.
NamesOnly(u) ==
    /\ IsRow => row.upload = u /\ u # 0
    /\ ~IsRow /\ ~aged /\ ~expired => u = 0
    /\ u \in 0..made
    /\ \A c \in Calls :
          /\ calls[c].pc \in Starting => calls[c].upload # u
          /\ calls[c].pc \in Holding =>
                calls[c].file.status # "none" /\ calls[c].file.upload = u /\ u # 0
    /\ \A s \in Sweeps : sweeps[s].pc # "idle" => sweeps[s].file.upload = u /\ u # 0

HoldsStored(call) == call.pc = "completed" \/ (call.pc = "deleting" /\ call.file.status = "stored")

\* The upload is over once the file is stored, or about to be, or a sweep has
\* come past it.
UploadIsOver(u) ==
    \/ row.status = "stored"
    \/ \E c \in Calls : HoldsStored(calls[c])
    \/ \E s \in Sweeps : sweeps[s].pc \in {"removing", "purging"}
    => u \notin uploads

\* So is the object, where nothing names it any more.
ObjectIsOver(u) ==
    /\ ~IsRow => ~object /\ u \notin uploads
    /\ \A s \in Sweeps : sweeps[s].pc = "purging" => ~object

\* Nobody sweeps a file that may still be finished.
SweepsAreDue ==
    /\ row.past => aged
    /\ \A s \in Sweeps : sweeps[s].pc # "idle" =>
          /\ aged \/ expired
          /\ expired \/ row.past \/ row.deleted \/ row.status # "pending"

Kept(u) ==
    /\ TypeOK /\ StartsAreOwn /\ SweepsAreDue /\ UploadStays
    /\ NamesOnly(u) /\ UploadIsOver(u) /\ ObjectIsOver(u)

IInv == \E u \in 0..MaxUploads : Kept(u)
=============================================================================
