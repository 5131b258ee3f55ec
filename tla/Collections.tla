---------------------------- MODULE Collections -----------------------------
(***************************************************************************)
(* Administration commands (data-postgres/src/administration.rs), the      *)
(* projection each command appends (store.rs), and the paged reads of a    *)
(* collection (queries.rs).  A command runs in one transaction under the   *)
(* tenant's exclusive advisory lock; Write is the transaction up to the    *)
(* insertion of its projection, when the revision sequence is drawn, and   *)
(* Commit or Abort its end.  A page is read under the shared lock.         *)
(***************************************************************************)
EXTENDS Naturals, Sequences, FiniteSets, Functions

CONSTANTS
  Writers,     \* commands in flight
  Created,     \* schedules, exports and others that are written once
  Listings,    \* catalog listings
  Connections, \* connections provisioned by the operator
  Profiles,    \* provider profiles
  Letters,     \* outbox events
  IdOrder,     \* where the id of a resource comes in the order of all ids
  Decisions,   \* states a review leads to
  ReadKinds,   \* types of which the collection is read
  Hidden,      \* resources the policy of an epoch does not permit to be read
  PageLimit,
  ScanLimit,   \* rows examined in one page
  CursorLife,  \* 15 minutes
  MaxSequence,
  MaxCursors,
  MaxTime

Resources == Created \cup Listings \cup Connections \cup Profiles \cup Letters

Epochs == DOMAIN Hidden

ASSUME CollectionAssumption ==
  /\ {PageLimit, ScanLimit, CursorLife} \subseteq Nat \ {0}
  /\ Epochs \subseteq Nat
  /\ IsFiniteSet(Connections)
  /\ IdOrder \in Injection(Resources, Nat \ {0})
  /\ Listings \cap Connections = {}
  /\ (Listings \cup Connections) \cap (Created \cup Profiles \cup Letters) = {}

VARIABLES
  rows,        \* the typed tables
  letters,     \* delivery_status of the outbox events
  projections, \* resource_projections, committed
  sequence,    \* the identity column revision_sequence
  pending,     \* the uncommitted changes of a writer
  deleted,     \* projections whose artifact is no longer ACTIVE
  epoch,       \* the policy in force
  cursors,     \* read_cursors, each with the walk that led to it
  page,        \* the page served last, with the walk that led to it
  now

tableVars == <<rows, letters, projections, sequence, pending>>
readVars == <<cursors, page>>
collectionVars == <<tableVars, deleted, epoch, readVars, now>>

Absent == [state |-> "NONE", version |-> 0]

NoProjection == [kind |-> "NONE", resource |-> "NULL", version |-> 0,
                 created_at |-> 0, sequence |-> 0]

NoChange == [open |-> FALSE, row |-> Absent, letter |-> "NONE",
             projection |-> NoProjection]

(* A page, and the cursor that continues it: the columns of read_cursors,  *)
(* then what was read since the walk began (got, epochs, at) and what was  *)
(* there when it began (view).                                             *)
NoPage == [kind |-> "NONE", snapshot_at |-> 0, snapshot |-> 0, epoch |-> 0,
           last |-> <<0, 0>>, got |-> <<>>, epochs |-> {}, at |-> 0, view |-> {},
           more |-> FALSE]

CollectionInit ==
  \E order \in Injection(Connections, 1 .. Cardinality(Connections)) :
    /\ rows = [r \in Resources |->
                 IF r \in Connections THEN [state |-> "ACTIVE", version |-> 1]
                                      ELSE Absent]
    /\ letters = [e \in Letters |-> "PENDING"]
    /\ projections = {[kind |-> "Connection", resource |-> c, version |-> 1,
                       created_at |-> 0, sequence |-> order[c]] : c \in Connections}
    /\ sequence = Cardinality(Connections)
    /\ pending = [w \in Writers |-> NoChange]
    /\ deleted = {}
    /\ epoch \in {e \in Epochs : \A f \in Epochs : e <= f}
    /\ cursors = {}
    /\ page = NoPage
    /\ now = 0

-----------------------------------------------------------------------------
(* Commands.                                                               *)

(* begin: the tenant's advisory lock is free.                              *)
Unlocked == \A v \in Writers : ~ pending[v].open

(* Fault: the row gains one version, as require_expected_version returns.  *)
NextVersion(reported) == reported - 1

(* The version in the row: the one the command reports.                    *)
StoredVersion(reported) == reported

Projected(kind, r) == {p \in projections : p.kind = kind /\ p.resource = r}

Visible(kind, r) == Projected(kind, r) \ deleted # {}

(* created_at: of the resource's first version.                            *)
CreatedAt(kind, r) ==
  IF Projected(kind, r) = {} THEN now
  ELSE CHOOSE t \in {p.created_at : p \in Projected(kind, r)} :
         \A p \in Projected(kind, r) : t <= p.created_at

(* record_change and write_projection, in the transaction of a command.    *)
(* The primary key refuses a version that exists.                          *)
Write(w, kind, r, row, letter, version) ==
  /\ Unlocked
  /\ sequence < MaxSequence
  /\ \A p \in Projected(kind, r) : p.version # version
  /\ sequence' = sequence + 1
  /\ pending' = [pending EXCEPT ![w] =
                   [open |-> TRUE, row |-> row, letter |-> letter,
                    projection |-> [kind |-> kind, resource |-> r,
                                    version |-> version,
                                    created_at |-> CreatedAt(kind, r),
                                    sequence |-> sequence + 1]]]
  /\ UNCHANGED <<rows, letters, projections, deleted, epoch, readVars, now>>

Commit(w) ==
  LET r == pending[w].projection.resource
  IN  /\ pending[w].open
      /\ rows' = [rows EXCEPT ![r] = pending[w].row]
      /\ letters' = IF r \in Letters
                    THEN [letters EXCEPT ![r] = pending[w].letter] ELSE letters
      /\ projections' = projections \cup {pending[w].projection}
      /\ pending' = [pending EXCEPT ![w] = NoChange]
      /\ UNCHANGED <<sequence, deleted, epoch, readVars, now>>

(* The object store or the database fails; the sequence number is lost.    *)
Abort(w) ==
  /\ pending[w].open
  /\ pending' = [pending EXCEPT ![w] = NoChange]
  /\ UNCHANGED <<rows, letters, projections, sequence, deleted, epoch,
                 readVars, now>>

(* create_schedule, create_export, qualify_release, run_conformance,       *)
(* request_support and authorize_connection: a fresh id; no command reads  *)
(* what they store beside the projection.                                  *)
Create(w, r) ==
  /\ r \in Created
  /\ Projected("Created", r) = {}
  /\ Write(w, "Created", r, Absent, "NONE", 1)

SubmitCatalog(w, r) ==
  /\ r \in Listings
  /\ rows[r] = Absent
  /\ Write(w, "CatalogListing", r, [state |-> "PENDING", version |-> 1],
           "NONE", 1)

(* authorize_command finds a projection.  require_expected_version has     *)
(* added one to the version and one more is added here.  A listing may be  *)
(* reviewed again.                                                         *)
ReviewCatalog(w, r, decision, expected) ==
  /\ r \in Listings
  /\ Visible("CatalogListing", r)
  /\ rows[r].version = expected
  /\ Write(w, "CatalogListing", r,
           [state |-> decision, version |-> StoredVersion(expected + 2)],
           "NONE", expected + 2)

RevokeConnection(w, r, expected) ==
  /\ r \in Connections
  /\ Visible("Connection", r)
  /\ rows[r].version = expected
  /\ Write(w, "Connection", r,
           [state |-> "REVOKED", version |-> StoredVersion(expected + 2)],
           "NONE", expected + 2)

ConfigureProvider(w, r) ==
  /\ r \in Profiles
  /\ rows[r] = Absent
  /\ Write(w, "ProviderProfile", r, [state |-> "CONFIGURED", version |-> 1],
           "NONE", 1)

(* The row gains one version, the projection two; it is of another type.   *)
CompactProvider(w, r, expected) ==
  /\ r \in Profiles
  /\ rows[r] # Absent
  /\ rows[r].version = expected
  /\ Write(w, "ProviderCompact", r, [rows[r] EXCEPT !.version = @ + 1],
           "NONE", expected + 2)

(* The projection always has version 1, so an event is replayed once.      *)
ReplayDeadletter(w, e) ==
  /\ e \in Letters
  /\ letters[e] = "DEAD_LETTER"
  /\ Write(w, "DeadletterReplay", e, Absent, "PENDING", 1)

Command(w) ==
  \/ \E r \in Resources :
       \/ Create(w, r)
       \/ SubmitCatalog(w, r)
       \/ ConfigureProvider(w, r)
       \/ ReplayDeadletter(w, r)
       \/ \E v \in 1 .. 2 * MaxSequence :
            \/ RevokeConnection(w, r, v)
            \/ CompactProvider(w, r, v)
            \/ \E d \in Decisions : ReviewCatalog(w, r, d, v)
  \/ Commit(w)
  \/ Abort(w)

-----------------------------------------------------------------------------
(* What goes on beside these commands.                                     *)

(* The relay gives an event up (RunDispatch).                              *)
GiveUp(e) ==
  /\ Unlocked
  /\ letters[e] = "PENDING"
  /\ letters' = [letters EXCEPT ![e] = "DEAD_LETTER"]
  /\ UNCHANGED <<rows, projections, sequence, pending, deleted, epoch,
                 readVars, now>>

(* The deletion of an artifact the projection names takes the artifact of  *)
(* the projection with it (Artifacts).                                     *)
Delete(p) ==
  /\ Unlocked
  /\ p \notin deleted
  /\ deleted' = deleted \cup {p}
  /\ UNCHANGED <<tableVars, epoch, readVars, now>>

(* The policy or the reader's membership changes (Memberships).            *)
ChangePolicy ==
  /\ epoch + 1 \in Epochs
  /\ epoch' = epoch + 1
  /\ UNCHANGED <<tableVars, deleted, readVars, now>>

Tick ==
  /\ now < MaxTime
  /\ now' = now + 1
  /\ UNCHANGED <<tableVars, deleted, epoch, readVars>>

-----------------------------------------------------------------------------
(* GET of a collection.                                                    *)

(* Fault: the newest version counts, whenever it was written.              *)
NewestOf(kind, r, snapshot) == Projected(kind, r)

VersionsOf(kind, r, snapshot) ==
  {p \in Projected(kind, r) : p.sequence <= snapshot}

(* DISTINCT ON (resource_id) ... ORDER BY version DESC.                    *)
LatestOf(kind, r, snapshot) ==
  {p \in VersionsOf(kind, r, snapshot) :
     \A q \in VersionsOf(kind, r, snapshot) : q.version <= p.version}

Latest(kind, snapshot) == UNION {LatestOf(kind, r, snapshot) : r \in Resources}

(* ORDER BY created_at, resource_id.  Every row comes after <<0, 0>>, the  *)
(* NULL a walk begins with.                                                *)
Place(p) == <<p.created_at, IdOrder[p.resource]>>

Before(a, b) == a[1] < b[1] \/ (a[1] = b[1] /\ a[2] < b[2])

Behind(candidates, last) == {p \in candidates : Before(last, Place(p))}

Foremost(candidates) ==
  CHOOSE p \in candidates :
    \A q \in candidates : p = q \/ Before(Place(p), Place(q))

Permits(p) == p.resource \notin Hidden[epoch]

(* The loop over the rows, each the next one behind the last.  It ends     *)
(* with a full page, at its own limit or with the rows.                    *)
Examine(candidates, before) ==
  LET rest == Behind(candidates, before.last)
      row == Foremost(rest)
  IN  IF rest = {} \/ Len(before.items) = PageLimit THEN before
      ELSE [last |-> Place(row),
            items |-> IF Permits(row) THEN Append(before.items, row)
                                      ELSE before.items]

Scan(candidates, last) ==
  LET scan[n \in 0 .. ScanLimit] ==
        IF n = 0 THEN [last |-> last, items |-> <<>>]
        ELSE Examine(candidates, scan[n - 1])
  IN  scan[ScanLimit]

(* Deleted rows are left out of the latest ones, so an older version does  *)
(* not come up instead.                                                    *)
Serve(walk) ==
  LET candidates == Latest(walk.kind, walk.snapshot) \ deleted
      end == Scan(candidates, walk.last)
      served == [walk EXCEPT !.last = end.last,
                             !.got = @ \o end.items,
                             !.epochs = @ \cup {epoch},
                             !.at = now,
                             !.more = Behind(candidates, end.last) # {}]
  IN  /\ Unlocked
      /\ page' = served
      /\ cursors' = IF served.more THEN cursors \cup {served} ELSE cursors
      /\ Cardinality(cursors') <= MaxCursors
      /\ UNCHANGED <<tableVars, deleted, epoch, now>>

(* read_collection without a cursor.                                       *)
FirstPage(kind) ==
  LET snapshot == CHOOSE n \in 0 .. sequence :
                    /\ \A p \in projections : p.sequence <= n
                    /\ n = 0 \/ \E p \in projections : p.sequence = n
  IN  Serve([kind |-> kind, snapshot_at |-> now, snapshot |-> snapshot,
             epoch |-> epoch, last |-> <<0, 0>>, got |-> <<>>, epochs |-> {},
             at |-> now, view |-> Latest(kind, sequence), more |-> FALSE])

(* Fault: the lifetime of a cursor starts with each page.                  *)
AliveSincePage(c) == now < c.at + CursorLife

Alive(c) == now < c.snapshot_at + CursorLife

SameAuthority(c) == c.epoch = epoch

(* read_collection with a cursor; the same one may be used again.          *)
NextPage(c) == SameAuthority(c) /\ Alive(c) /\ Serve(c)

CollectionNext ==
  \/ \E w \in Writers : Command(w)
  \/ \E e \in Letters : GiveUp(e)
  \/ \E p \in projections : Delete(p)
  \/ ChangePolicy
  \/ Tick
  \/ \E kind \in ReadKinds : FirstPage(kind)
  \/ \E c \in cursors : NextPage(c)

CollectionSpec == CollectionInit /\ [][CollectionNext]_collectionVars

-----------------------------------------------------------------------------

(* The pages reached by following cursors show one state of the            *)
(* collection: each item is the version that was committed when the walk   *)
(* began, none comes twice, and the last page leaves nothing out but what  *)
(* was deleted since or is not permitted.  Commands commit between the     *)
(* pages, a page is asked for again, and a scan ends early behind rows     *)
(* that are not shown (read_collection, and the comment of begin on the    *)
(* watermark).                                                             *)
PagesAreOneSnapshot ==
  /\ Range(page.got) \subseteq page.view
  /\ \A i, j \in DOMAIN page.got :
       i # j => page.got[i].resource # page.got[j].resource
  /\ page.epochs # {} /\ ~ page.more =>
       page.view \subseteq
         Range(page.got) \cup deleted
           \cup {p \in page.view : p.resource \in Hidden[page.epoch]}

(* All pages of a walk are served under the policy and membership epochs   *)
(* it began with, and within 15 minutes of its first page, however many    *)
(* cursors it is continued with (the columns read_collection compares,     *)
(* expires_at of read_cursors).                                            *)
WalksKeepTheirTerms ==
  page.epochs # {} => /\ page.epochs = {page.epoch}
                      /\ page.at < page.snapshot_at + CursorLife

(* The version a reader finds in the newest projection of a listing or a   *)
(* connection is the one the next command on it must expect                *)
(* (review_catalog, revoke_connection, write_projection).                  *)
VersionsCanBeExpected ==
  \A p \in projections :
    p.kind \in {"CatalogListing", "Connection"} =>
      /\ p.version <= rows[p.resource].version
      /\ \E q \in Projected(p.kind, p.resource) :
           q.version = rows[p.resource].version

=============================================================================
