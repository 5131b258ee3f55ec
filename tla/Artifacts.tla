----------------------------- MODULE Artifacts ------------------------------
(***************************************************************************)
(* Files of a tenant: upload attempts and their leases, finalization,      *)
(* files derived by a plugin, deletion along the lineage, containment of   *)
(* corrupt files and verified downloads                                    *)
(* (data-postgres/src/artifact_commands.rs, store.rs, invocation.rs,       *)
(* registry.rs; host-api/src/runtime.rs).                                  *)
(*                                                                         *)
(* An upload attempt is one transaction that takes a lease, a transfer     *)
(* that holds no lock, and a second transaction that records the outcome.  *)
(* A download crosses three transactions.  Anything may commit in between. *)
(* Every commit about a file also writes a metadata projection, itself an  *)
(* artifact derived from the file; of the projections of a file only the   *)
(* newest is kept here, older ones can only share its fate or be deleted.  *)
(***************************************************************************)
EXTENDS Naturals, FiniteSets

CONSTANTS
  Uploads,      \* uploads; an upload and its file have one name here
  Outputs,      \* files a plugin invocation may derive
  Attempts,     \* calls of put_upload, named by their lease
  Downloads,
  Marked,       \* files that may be put under legal hold or lose their bytes
  MaxOpen       \* open uploads of one principal, 20 in the code

ASSUME ArtifactAssumption ==
  /\ IsFiniteSet(Uploads)
  /\ Uploads \cap Outputs = {}
  /\ Marked \subseteq Uploads \cup Outputs
  /\ {"NULL", "NONE", "OWN"} \cap (Uploads \cup Outputs \cup Attempts) = {}
  /\ MaxOpen \in Nat \ {0}

Files == Uploads \cup Outputs

VARIABLES
  artifacts,    \* artifacts row of each file, with its artifact_rights
  tombstones,   \* deletion_tombstones
  lineage,      \* artifact_lineage between files: <<source, derived>>
  projection,   \* state of the newest metadata projection about a file
  uploads,
  attempts,
  objects,      \* bytes the object store holds under the key of an attempt
  corrupt,      \* files whose stored bytes no longer have their digest
  downloads

artifactVars == <<artifacts, tombstones, lineage, projection, uploads,
                  attempts, objects, corrupt, downloads>>

NoFile == [state |-> "NONE", key |-> "NULL", rights |-> "NONE",
           legal_hold |-> FALSE]

NoUpload == [state |-> "NONE", lease |-> "NULL", lease_expired |-> FALSE,
             expired |-> FALSE]

NoAttempt == [pc |-> "IDLE", upload |-> "NULL", outcome |-> "NULL"]

NoBytes == [length |-> "NONE"]

NoDownload == [pc |-> "IDLE", file |-> "NULL", key |-> "NULL"]

ArtifactInit ==
  /\ artifacts = [f \in Files |-> NoFile]
  /\ tombstones = {}
  /\ lineage = {}
  /\ projection = [f \in Files |-> "NONE"]
  /\ uploads = [u \in Uploads |-> NoUpload]
  /\ attempts = [t \in Attempts |-> NoAttempt]
  /\ objects = [t \in Attempts |-> NoBytes]
  /\ corrupt = {}
  /\ downloads = [d \in Downloads |-> NoDownload]

(* artifact_metadata_in, load_artifact_ref.                                *)
Readable(f) == artifacts[f].state = "ACTIVE" /\ f \notin tombstones

(* Fault: a file derived from a derived file is not reached.               *)
DirectlyAffected(f) == {f} \cup {g \in Files : <<f, g>> \in lineage}

(* The recursive query over artifact_lineage: every set closed under the   *)
(* lineage that holds f holds these.                                       *)
Affected(f) ==
  {g \in Files : \A S \in SUBSET Files :
     (f \in S /\ \A e \in lineage : e[1] \in S => e[2] \in S) => g \in S}

(* write_projection: sources are looked up whatever their state.           *)
WriteProjection(f) == projection' = [projection EXCEPT ![f] = "ACTIVE"]

-----------------------------------------------------------------------------
(* Uploads.                                                                *)

OpenUploads == {u \in Uploads : uploads[u].state = "OPEN"
                                /\ ~ uploads[u].expired}

QueueFull == Cardinality(OpenUploads) >= MaxOpen

BeginArtifact(u) ==
  /\ artifacts[u].state = "NONE"
  /\ ~ QueueFull
  /\ artifacts' = [artifacts EXCEPT ![u].state = "PENDING",
                                    ![u].key = "NONE"]
  /\ uploads' = [uploads EXCEPT ![u].state = "OPEN"]
  /\ WriteProjection(u)
  /\ UNCHANGED <<tombstones, lineage, attempts, objects, corrupt, downloads>>

(* put_upload up to the first commit.                                      *)
TakeLease(t, u) ==
  /\ attempts[t].pc = "IDLE"
  /\ ~ uploads[u].expired
  /\ uploads[u].state = "OPEN"
  /\ artifacts[u].state = "PENDING"
  /\ uploads[u].lease = "NULL" \/ uploads[u].lease_expired
  /\ attempts' = [attempts EXCEPT ![t].pc = "LEASED", ![t].upload = u]
  /\ uploads' = [uploads EXCEPT ![u].lease = t, ![u].lease_expired = FALSE]
  /\ UNCHANGED <<artifacts, tombstones, lineage, projection, objects,
                 corrupt, downloads>>

(* What reaches the service as the body of an upload.                      *)
Bodies == [length : {"SHORT", "EXACT", "LONG"},
           digest : {"DECLARED", "OTHER"},
           type_valid : BOOLEAN, infected : BOOLEAN]

(* spool_exact: the declared number of bytes and not one more.             *)
Spooled(b) == b.length = "EXACT"

(* Digest, then validate_file_mime.                                        *)
ContentAgrees(b) == b.digest = "DECLARED" /\ b.type_valid

(* stream_scan: the daemon may fail to answer, or answer out of protocol.  *)
ScanReplies(b) == {"UNAVAILABLE", IF b.infected THEN "FOUND" ELSE "OK"}

(* Fault: a scanner that does not answer is taken for a clean file.        *)
FailsOpen(b, reply) == Spooled(b) /\ ContentAgrees(b) /\ reply # "FOUND"

Passed(b, reply) == Spooled(b) /\ ContentAgrees(b) /\ reply = "OK"

(* Codes that quarantine the file are BAD, the others leave the upload     *)
(* open.                                                                   *)
TransferOutcome(b, reply, answer) ==
  CASE Passed(b, reply) /\ answer = "CREATED" -> "CLEAN"
    [] Spooled(b) /\ (~ ContentAgrees(b) \/ reply = "FOUND") -> "BAD"
    [] OTHER -> "FAILED"

(* The transfer under its deadline.  The store creates an object once per  *)
(* key; its answer may be lost after the object exists.                    *)
Transfer(t, b, reply, answer) ==
  /\ attempts[t].pc = "LEASED"
  /\ reply \in ScanReplies(b)
  /\ attempts' = [attempts EXCEPT
                    ![t].pc = "MOVED",
                    ![t].outcome = TransferOutcome(b, reply, answer)]
  /\ objects' = IF Passed(b, reply) /\ answer # "FAILED"
                THEN [objects EXCEPT ![t] = b] ELSE objects
  /\ UNCHANGED <<artifacts, tombstones, lineage, projection, uploads,
                 corrupt, downloads>>

(* Fault: any live lease of the upload will do.                            *)
SomeLeaseHeld(t, u) ==
  /\ uploads[u].lease # "NULL"
  /\ uploads[u].state = "OPEN"
  /\ ~ uploads[u].lease_expired

LeaseHeld(t, u) ==
  /\ uploads[u].lease = t
  /\ uploads[u].state = "OPEN"
  /\ ~ uploads[u].lease_expired

UploadOutcome(u, outcome) ==
  CASE outcome = "CLEAN" /\ uploads[u].expired -> "EXPIRED"
    [] outcome = "CLEAN" /\ ~ uploads[u].expired -> "UPLOADED"
    [] outcome = "BAD" -> "FAILED"
    [] OTHER -> "OPEN"

(* The storage key moves only while the file is PENDING; quarantine asks   *)
(* nothing of the state it replaces.                                       *)
RecordedFile(t, u, result) ==
  CASE result = "UPLOADED" /\ artifacts[u].state = "PENDING" ->
         [artifacts EXCEPT ![u].key = t]
    [] result = "FAILED" -> [artifacts EXCEPT ![u].state = "QUARANTINED"]
    [] OTHER -> artifacts

(* put_upload from the second transaction on; a stale lease ends the call  *)
(* with no change.                                                         *)
RecordOutcome(t) ==
  LET u == attempts[t].upload
      result == UploadOutcome(u, attempts[t].outcome)
  IN  /\ attempts[t].pc = "MOVED"
      /\ LeaseHeld(t, u)
      /\ artifacts' = RecordedFile(t, u, result)
      /\ uploads' = [uploads EXCEPT ![u].state = result,
                                    ![u].lease = "NULL",
                                    ![u].lease_expired = FALSE]
      /\ WriteProjection(u)
      /\ attempts' = [attempts EXCEPT ![t].pc = "DONE"]
      /\ UNCHANGED <<tombstones, lineage, objects, corrupt, downloads>>

(* UPLOAD_LEASE_STALE, a failed second transaction, or the death of the    *)
(* process: the attempt ends and the lease stays as it is.                 *)
AbandonAttempt(t) ==
  /\ attempts[t].pc \in {"LEASED", "MOVED"}
  /\ attempts' = [attempts EXCEPT ![t].pc = "DONE"]
  /\ UNCHANGED <<artifacts, tombstones, lineage, projection, uploads,
                 objects, corrupt, downloads>>

Verified(u) == uploads[u].state = "UPLOADED" /\ artifacts[u].state = "PENDING"

FinalizeArtifact(u) ==
  /\ Verified(u)
  /\ artifacts' = [artifacts EXCEPT ![u].state = "ACTIVE",
                                    ![u].rights = "ACTIVE"]
  /\ uploads' = [uploads EXCEPT ![u].state = "FINALIZED"]
  /\ WriteProjection(u)
  /\ UNCHANGED <<tombstones, lineage, attempts, objects, corrupt, downloads>>

LeaseExpires(u) ==
  /\ uploads[u].lease # "NULL"
  /\ ~ uploads[u].lease_expired
  /\ uploads' = [uploads EXCEPT ![u].lease_expired = TRUE]
  /\ UNCHANGED <<artifacts, tombstones, lineage, projection, attempts,
                 objects, corrupt, downloads>>

UploadExpires(u) ==
  /\ uploads[u].state = "OPEN"
  /\ ~ uploads[u].expired
  /\ uploads' = [uploads EXCEPT ![u].expired = TRUE]
  /\ UNCHANGED <<artifacts, tombstones, lineage, projection, attempts,
                 objects, corrupt, downloads>>

-----------------------------------------------------------------------------
(* Derived files, deletion and containment.                                *)

Transformable(f) == Readable(f) /\ artifacts[f].rights = "ACTIVE"

(* invoke_plugin as far as files go: the source is read, its rights are    *)
(* checked, and the output is written in one transaction.                  *)
DeriveOutput(f, o) ==
  /\ artifacts[o].state = "NONE"
  /\ Transformable(f)
  /\ f \notin corrupt
  /\ artifacts' = [artifacts EXCEPT ![o] =
                     [state |-> "ACTIVE", key |-> "OWN",
                      rights |-> artifacts[f].rights, legal_hold |-> FALSE]]
  /\ lineage' = lineage \cup {<<f, o>>}
  /\ WriteProjection(o)
  /\ UNCHANGED <<tombstones, uploads, attempts, objects, corrupt, downloads>>

NoHold(f) == \A g \in Affected(f) : ~ artifacts[g].legal_hold

DeletedFile(row) ==
  [row EXCEPT !.state = "TOMBSTONED",
              !.rights = IF @ = "ACTIVE" THEN "REVOKED" ELSE @]

(* request_deletion, over the file and everything derived from it.         *)
RequestDeletion(f) ==
  LET affected == Affected(f)
  IN  /\ artifacts[f].state # "NONE"
      /\ NoHold(f)
      /\ tombstones' = tombstones \cup affected
      /\ artifacts' = [g \in Files |-> IF g \in affected
                                       THEN DeletedFile(artifacts[g])
                                       ELSE artifacts[g]]
      /\ projection' = [g \in Files |-> IF g \in affected THEN "TOMBSTONED"
                                        ELSE projection[g]]
      /\ UNCHANGED <<lineage, uploads, attempts, objects, corrupt,
                     downloads>>

(* quarantine_corrupt_artifact: the bytes are read again under the lock.   *)
QuarantineCorruptArtifact(f) ==
  /\ artifacts[f].state = "ACTIVE"
  /\ f \in corrupt
  /\ artifacts' = [artifacts EXCEPT ![f].state = "QUARANTINED"]
  /\ UNCHANGED <<tombstones, lineage, projection, uploads, attempts, objects,
                 corrupt, downloads>>

PlaceHold(f) ==
  /\ artifacts[f].state # "NONE"
  /\ artifacts' = [artifacts EXCEPT ![f].legal_hold = ~ @]
  /\ UNCHANGED <<tombstones, lineage, projection, uploads, attempts, objects,
                 corrupt, downloads>>

Corrupt(f) ==
  /\ artifacts[f].state = "ACTIVE"
  /\ corrupt' = corrupt \cup {f}
  /\ UNCHANGED <<artifacts, tombstones, lineage, projection, uploads,
                 attempts, objects, downloads>>

-----------------------------------------------------------------------------
(* Downloads.                                                              *)

DownloadVars(d, row) ==
  /\ downloads' = [downloads EXCEPT ![d] = row]
  /\ UNCHANGED <<artifacts, tombstones, lineage, projection, uploads,
                 attempts, objects, corrupt>>

OpenDownload(d, f) ==
  /\ downloads[d].pc = "IDLE"
  /\ Readable(f)
  /\ DownloadVars(d, [pc |-> "CHECKED", file |-> f, key |-> "NULL"])

ReadKey(d) ==
  /\ downloads[d].pc = "CHECKED"
  /\ artifacts[downloads[d].file].state = "ACTIVE"
  /\ DownloadVars(d, [downloads[d] EXCEPT
                        !.pc = "KEYED",
                        !.key = artifacts[downloads[d].file].key])

(* The spooled bytes must have the digest the metadata names.              *)
Spool(d) ==
  /\ downloads[d].pc = "KEYED"
  /\ downloads[d].file \notin corrupt
  /\ DownloadVars(d, [downloads[d] EXCEPT !.pc = "SPOOLED"])

(* Fault: what was readable at the start is handed out.                    *)
StillKeyed(d) == downloads[d].key # "NULL"

StillReadable(d) == Readable(downloads[d].file)

Deliver(d) ==
  /\ downloads[d].pc = "SPOOLED"
  /\ StillReadable(d)
  /\ DownloadVars(d, [downloads[d] EXCEPT !.pc = "STREAMING"])

(* A refusal of any of these steps, the check made every second of a       *)
(* running stream, or its end.                                             *)
EndDownload(d) ==
  /\ downloads[d].pc # "IDLE"
  /\ DownloadVars(d, NoDownload)

-----------------------------------------------------------------------------
ArtifactNext ==
  \/ \E u \in Uploads : \/ BeginArtifact(u) \/ FinalizeArtifact(u)
                        \/ LeaseExpires(u) \/ UploadExpires(u)
  \/ \E t \in Attempts : \/ \E u \in Uploads : TakeLease(t, u)
                         \/ \E b \in Bodies :
                              \E reply \in {"OK", "FOUND", "UNAVAILABLE"},
                                 answer \in {"CREATED", "LOST", "FAILED"} :
                                Transfer(t, b, reply, answer)
                         \/ RecordOutcome(t) \/ AbandonAttempt(t)
  \/ \E f \in Files : \/ \E o \in Outputs : DeriveOutput(f, o)
                      \/ RequestDeletion(f) \/ QuarantineCorruptArtifact(f)
  \/ \E f \in Marked : PlaceHold(f) \/ Corrupt(f)
  \/ \E d \in Downloads : \/ \E f \in Files : OpenDownload(d, f)
                          \/ ReadKey(d) \/ Spool(d) \/ Deliver(d)
                          \/ EndDownload(d)

ArtifactSpec == ArtifactInit /\ [][ArtifactNext]_artifactVars

-----------------------------------------------------------------------------
FileRow ==
  [state : {"NONE", "PENDING", "ACTIVE", "QUARANTINED", "TOMBSTONED"},
   key : {"NULL", "NONE", "OWN"} \cup Attempts,
   rights : {"NONE", "ACTIVE", "REVOKED"}, legal_hold : BOOLEAN]

UploadRow ==
  [state : {"NONE", "OPEN", "UPLOADED", "FINALIZED", "FAILED", "EXPIRED"},
   lease : {"NULL"} \cup Attempts, lease_expired : BOOLEAN,
   expired : BOOLEAN]

AttemptRow ==
  [pc : {"IDLE", "LEASED", "MOVED", "DONE"}, upload : {"NULL"} \cup Uploads,
   outcome : {"NULL", "CLEAN", "BAD", "FAILED"}]

DownloadRow ==
  [pc : {"IDLE", "CHECKED", "KEYED", "SPOOLED", "STREAMING"},
   file : {"NULL"} \cup Files, key : {"NULL", "NONE", "OWN"} \cup Attempts]

(* The shape of the rows; a file exists once its upload has begun.         *)
ArtifactTypeOK ==
  /\ artifacts \in [Files -> FileRow]
  /\ tombstones \subseteq Files
  /\ lineage \subseteq Files \X Outputs
  /\ projection \in [Files -> {"NONE", "ACTIVE", "TOMBSTONED"}]
  /\ uploads \in [Uploads -> UploadRow]
  /\ attempts \in [Attempts -> AttemptRow]
  /\ objects \in [Attempts -> Bodies \cup {NoBytes}]
  /\ corrupt \subseteq Files
  /\ downloads \in [Downloads -> DownloadRow]
  /\ \A u \in Uploads : uploads[u].state = "NONE" <=>
                        artifacts[u].state = "NONE"

CleanBytes == [length |-> "EXACT", digest |-> "DECLARED",
               type_valid |-> TRUE, infected |-> FALSE]

(* An ACTIVE uploaded file names stored bytes of its declared length,      *)
(* digest and type and free of what the scanner knows, sent by an attempt  *)
(* for its own upload, however many attempts raced, whatever they sent and *)
(* whichever service failed to answer (put_upload, finalize_artifact).     *)
ActiveBytesVerified ==
  \A u \in Uploads :
    artifacts[u].state = "ACTIVE" =>
      /\ artifacts[u].key \in Attempts
      /\ attempts[artifacts[u].key].upload = u
      /\ objects[artifacts[u].key] = CleanBytes

(* A deleted file never becomes pending or active again, nor do its rights *)
(* come back, though an attempt in flight, a finalization or a containment *)
(* of it may commit after the deletion (request_deletion).                 *)
DeletionSticks ==
  \A f \in tombstones :
    /\ artifacts[f].state \in {"TOMBSTONED", "QUARANTINED"}
    /\ artifacts[f].rights # "ACTIVE"

(* Whatever a plugin derived from a deleted file is deleted too, whether   *)
(* the derivation or the deletion came first (request_deletion,            *)
(* invoke_plugin).                                                         *)
DerivedFollowDeletion ==
  \A e \in lineage : e[1] \in tombstones => e[2] \in tombstones

(* A deletion is for good and for everything that came of the file: the    *)
(* two properties above.                                                   *)
DeletedStaysDeleted == DeletionSticks /\ DerivedFollowDeletion

(* A principal never has more open uploads than the limit: an attempt that *)
(* fails leaves its upload open and gives no second place (begin_artifact).*)
OpenUploadsBounded == Cardinality(OpenUploads) <= MaxOpen

(* An attempt whose lease was taken over, or has run out, changes neither  *)
(* the upload nor the file ("A different upload attempt cannot overwrite a *)
(* completed attempt or adopt a stale lease's result", put_upload).        *)
StaleAttemptRecordsNothing ==
  [][\A t \in Attempts :
       /\ attempts[t].pc = "MOVED"
       /\ attempts'[t].pc = "DONE"
       /\ uploads[attempts[t].upload].lease # t
       => UNCHANGED <<artifacts, uploads, projection>>]_artifactVars

(* No deletion reaches a file under legal hold through something it was    *)
(* derived from (request_deletion).                                        *)
HeldFilesAreKept ==
  [][\A f \in Files : artifacts[f].legal_hold /\ f \notin tombstones
                      => f \notin tombstones']_artifactVars

(* A download that starts to stream serves a file that is readable at that *)
(* moment, from the key the file has then; a deletion or containment since *)
(* its first look stops it (verified_artifact_download).                   *)
StreamsServeReadableFiles ==
  [][\A d \in Downloads :
       downloads[d].pc # "STREAMING" /\ downloads'[d].pc = "STREAMING"
       => /\ Readable(downloads[d].file)
          /\ downloads[d].key = artifacts[downloads[d].file].key]_artifactVars

=============================================================================
