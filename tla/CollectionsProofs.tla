------------------------- MODULE CollectionsProofs --------------------------
(***************************************************************************)
(* The paged reads of a collection while commands write to it, for any     *)
(* number of resources, writers and cursors and any limits.                *)
(*                                                                         *)
(* The invariant says of every cursor, not only of the page served last,   *)
(* how far its walk has come through the view it began with, and of a      *)
(* command that is not committed that its revision is later than every     *)
(* snapshot in use.                                                        *)
(***************************************************************************)
EXTENDS Collections, SharedLemmas

-----------------------------------------------------------------------------
(* The inductive invariant.                                                *)

Kinds == {"Created", "CatalogListing", "Connection", "ProviderProfile",
          "ProviderCompact", "DeadletterReplay"}

Projection == [kind : Kinds, resource : Resources, version : Nat \ {0},
               created_at : Nat, sequence : Nat]

Row == [state : {"NONE", "PENDING", "ACTIVE", "REVOKED", "CONFIGURED"}
                  \cup Decisions,
        version : Nat]

(* A walk: what is known of a page served, or of a cursor.                 *)
Walk == [kind : ReadKinds, snapshot_at : Nat, snapshot : Nat, epoch : Epochs,
         last : Nat \X Nat, got : Seq(Projection), epochs : SUBSET Epochs,
         at : Nat, view : SUBSET Projection, more : BOOLEAN]

(* What kind of resource a projection is of.                               *)
KindOK(p) ==
  /\ p.kind = "CatalogListing" => p.resource \in Listings
  /\ p.kind = "Connection" => p.resource \in Connections
  /\ p.kind \notin {"CatalogListing", "Connection"} =>
       p.resource \notin Listings \cup Connections

(* The latest versions in the table T, as of the snapshot.                 *)
Shown(T, kind, snapshot) ==
  {p \in T :
     /\ p.kind = kind /\ p.sequence <= snapshot
     /\ \A q \in T :
          q.kind = kind /\ q.resource = p.resource /\ q.sequence <= snapshot =>
            q.version <= p.version}

Unseen(w) == {p \in w.view : Before(w.last, Place(p))}

(* The walk w has read its view up to where it is: all but the deleted     *)
(* and the hidden rows, each once.                                         *)
ReadOnce(T, gone, w) ==
  /\ w.view = Shown(T, w.kind, w.snapshot)
  /\ Range(w.got) \subseteq w.view \ Unseen(w)
  /\ \A i, j \in DOMAIN w.got : i # j => w.got[i].resource # w.got[j].resource
  /\ \A p \in w.view \ Unseen(w) :
       p \in Range(w.got) \cup gone \/ p.resource \in Hidden[w.epoch]

ServedOK(T, gone, w) ==
  /\ w \in Walk
  /\ ReadOnce(T, gone, w)
  /\ ~ w.more => Unseen(w) \subseteq gone
  /\ w.epochs = {w.epoch}
  /\ w.at < w.snapshot_at + CursorLife

Walks == cursors \cup {page}

TablesOK ==
  /\ sequence \in Nat /\ now \in Nat /\ epoch \in Epochs
  /\ rows \in [Resources -> Row]
  /\ projections \subseteq Projection
  /\ \A p \in projections : KindOK(p) /\ p.sequence <= sequence
  /\ \A p, q \in projections :
       p.kind = q.kind /\ p.resource = q.resource /\ p.version = q.version =>
         p = q
  /\ VersionsCanBeExpected

PendingOK(w) ==
  LET p == pending[w].projection
  IN  /\ p \in Projection /\ KindOK(p) /\ p.sequence <= sequence
      /\ pending[w].row \in Row
      /\ \A q \in Projected(p.kind, p.resource) : q.version # p.version
      /\ p.kind \in {"CatalogListing", "Connection"} =>
           /\ pending[w].row.version = p.version
           /\ \A q \in Projected(p.kind, p.resource) : q.version <= p.version
      /\ \A c \in Walks : c.snapshot < p.sequence

Change == [open : BOOLEAN, row : Row, letter : {"NONE", "PENDING"},
           projection : Projection \cup {NoProjection}]

ReadsOK ==
  /\ \A c \in cursors : ServedOK(projections, deleted, c)
  /\ page = NoPage \/ ServedOK(projections, deleted, page)

CollectionInv ==
  /\ TablesOK
  /\ pending \in [Writers -> Change]
  /\ \A w \in Writers : pending[w].open => PendingOK(w)
  /\ \A v, w \in Writers : pending[v].open /\ pending[w].open => v = w
  /\ ReadsOK
  /\ \A c \in Walks : c.snapshot <= sequence

-----------------------------------------------------------------------------
(* The order of the rows.                                                  *)

(* Places are in a total order.                                            *)
LEMMA PlacesAreOrdered ==
  ASSUME NEW a \in Nat \X Nat, NEW b \in Nat \X Nat, NEW c \in Nat \X Nat
  PROVE  /\ ~ Before(a, a)
         /\ Before(a, b) /\ Before(b, c) => Before(a, c)
         /\ Before(a, b) \/ Before(b, a) \/ a = b
         /\ ~ Before(b, a) /\ Before(b, c) => Before(a, c) \/ ~ Before(a, b)
  BY DEF Before

(* A row has a place behind the one a walk begins with, and shares it only *)
(* with rows of the same resource.                                         *)
LEMMA RowsHavePlaces ==
  ASSUME NEW p \in Projection
  PROVE  /\ Place(p) \in Nat \X Nat
         /\ Before(<<0, 0>>, Place(p))
         /\ \A q \in Projection : Place(p) = Place(q) => p.resource = q.resource
  <1>1. IdOrder \in [Resources -> Nat \ {0}] /\ IsInjective(IdOrder)
    BY CollectionAssumption, Zenon DEF Injection
  <1>2. \A q \in Projection : /\ q.created_at \in Nat
                             /\ q.resource \in Resources
                             /\ IdOrder[q.resource] \in Nat \ {0}
    BY <1>1, Zenon DEF Projection
  <1>3. Place(p) \in Nat \X Nat
    BY <1>2, Zenon DEF Place
  <1>4. Before(<<0, 0>>, Place(p))
    BY <1>2 DEF Place, Before
  <1>5. ASSUME NEW q \in Projection, Place(p) = Place(q)
        PROVE  p.resource = q.resource
    <2>1. IdOrder[p.resource] = IdOrder[q.resource]
      BY <1>5, Zenon DEF Place
    <2> QED
      BY <1>1, <1>2, <2>1, Zenon DEF IsInjective
  <1> QED
    BY <1>3, <1>4, <1>5, Zenon

(* No two rows of the set are of one resource.                             *)
OnePerResource(S) == \A p, q \in S : p.resource = q.resource => p = q

(* Rows of different resources have a first one.                           *)
LEMMA ForemostIsFirst ==
  ASSUME NEW S \in SUBSET Projection, S # {}, OnePerResource(S)
  PROVE  /\ Foremost(S) \in S
         /\ \A q \in S : Foremost(S) = q \/ Before(Place(Foremost(S)), Place(q))
  <1> DEFINE times == {p.created_at : p \in S}
  <1>1. \A p \in S : Place(p) \in Nat \X Nat /\ p.created_at \in Nat
    BY RowsHavePlaces, Zenon DEF Projection
  <1>2. PICK t \in times : \A u \in times : t <= u
    <2>1. times \in SUBSET Nat /\ times # {}
      BY <1>1, Zenon
    <2> QED
      BY <2>1, LeastNumber, Zenon
  <1> DEFINE early == {p \in S : p.created_at = t}
             ids == {IdOrder[p.resource] : p \in early}
  <1>3. \A p \in S : IdOrder[p.resource] \in Nat
    BY <1>1, Zenon DEF Place
  <1>4. PICK n \in ids : \A m \in ids : n <= m
    <2>1. ids \in SUBSET Nat /\ ids # {}
      BY <1>2, <1>3, Zenon
    <2> QED
      BY <2>1, LeastNumber, Zenon
  <1>5. PICK p \in early : IdOrder[p.resource] = n
    BY <1>4, Zenon
  <1>6. ASSUME NEW q \in S PROVE p = q \/ Before(Place(p), Place(q))
    <2>1. p \in S /\ p.created_at = t /\ t \in Nat /\ q.created_at \in Nat
      BY <1>1, <1>5, Zenon
    <2>2. t <= q.created_at
      BY <1>2, Zenon
    <2>3. CASE q.created_at # t
      BY <2>1, <2>2, <2>3 DEF Place, Before
    <2>4. CASE q.created_at = t
      <3>1. IdOrder[q.resource] \in ids /\ IdOrder[q.resource] \in Nat /\ n \in Nat
        BY <1>3, <1>5, <2>4, Zenon
      <3>2. n <= IdOrder[q.resource]
        BY <1>4, <3>1, Zenon
      <3>3. CASE IdOrder[q.resource] = n
        <4>1. Place(p) = Place(q)
          BY <1>5, <2>1, <2>4, <3>3, Zenon DEF Place
        <4>2. p.resource = q.resource
          BY <2>1, <4>1, RowsHavePlaces, Zenon
        <4> QED
          BY <2>1, <4>2, Zenon DEF OnePerResource
      <3>4. CASE IdOrder[q.resource] # n
        BY <1>5, <2>1, <2>4, <3>1, <3>2, <3>4 DEF Place, Before
      <3> QED
        BY <3>3, <3>4, Zenon
    <2> QED
      BY <2>3, <2>4, Zenon
  <1> QED
    BY <1>5, <1>6, Zenon DEF Foremost

-----------------------------------------------------------------------------
(* What a scan reads.                                                      *)

ScanState(S) == [last : Nat \X Nat, items : Seq(S)]

(* The scan of S from the place last has come to r.last: it has taken each *)
(* permitted row between, once.                                            *)
Scanned(S, last, r) ==
  /\ r \in ScanState(S)
  /\ ~ Before(r.last, last)
  /\ \A p \in Range(r.items) :
       Before(last, Place(p)) /\ ~ Before(r.last, Place(p))
  /\ \A i, j \in DOMAIN r.items : i # j => r.items[i] # r.items[j]
  /\ \A p \in S : Before(last, Place(p)) /\ ~ Before(r.last, Place(p)) =>
       p \in Range(r.items) \/ ~ Permits(p)

(* Something new at the end of a sequence keeps its elements different.    *)
LEMMA AppendKeepsDifferent ==
  ASSUME NEW T, NEW s \in Seq(T), NEW x \in T, x \notin Range(s),
         \A i, j \in DOMAIN s : i # j => s[i] # s[j]
  PROVE  LET longer == Append(s, x)
         IN  \A i, j \in DOMAIN longer : i # j => longer[i] # longer[j]
  <1> DEFINE longer == Append(s, x)
  <1>1. /\ DOMAIN longer = (DOMAIN s) \cup {Len(s) + 1}
        /\ \A i \in DOMAIN s : longer[i] = s[i]
        /\ longer[Len(s) + 1] = x
    OBVIOUS
  <1>2. \A i \in DOMAIN s : s[i] # x
    BY Zenon DEF Range
  <1> HIDE DEF longer
  <1>3. \A i, j \in DOMAIN longer : i # j => longer[i] # longer[j]
    BY <1>1, <1>2, Zenon
  <1> QED
    BY <1>3, Zenon DEF longer

(* A scan goes on from one row to the next.                                *)
LEMMA ExamineGoesOn ==
  ASSUME NEW S \in SUBSET Projection, OnePerResource(S),
         NEW last \in Nat \X Nat, NEW r, Scanned(S, last, r)
  PROVE  Scanned(S, last, Examine(S, r))
  <1> DEFINE rest == Behind(S, r.last)
             row == Foremost(rest)
             next == Examine(S, r)
  <1>1. r.last \in Nat \X Nat /\ r.items \in Seq(S)
    BY Zenon DEF Scanned, ScanState
  <1>2. CASE rest = {} \/ Len(r.items) = PageLimit
    BY <1>2, Zenon DEF Examine
  <1>3. CASE ~ (rest = {} \/ Len(r.items) = PageLimit)
    <2> DEFINE items == IF Permits(row) THEN Append(r.items, row) ELSE r.items
    <2>1. next = [last |-> Place(row), items |-> items]
      BY <1>3, Zenon DEF Examine
    <2>2. rest \in SUBSET Projection /\ rest # {} /\ OnePerResource(rest)
      BY <1>3, Zenon DEF Behind, OnePerResource
    <2>3. /\ row \in rest
          /\ \A q \in rest : row = q \/ Before(Place(row), Place(q))
      <3> HIDE DEF rest
      <3> QED
        BY <2>2, ForemostIsFirst, Zenon
    <2>4. row \in S /\ Before(r.last, Place(row))
      BY <2>3, Zenon DEF Behind
    <2>5. \A p \in S : Place(p) \in Nat \X Nat
      BY RowsHavePlaces, Zenon
    <2> HIDE DEF row
    <2>6. /\ items \in Seq(S)
          /\ next.last = Place(row) /\ next.items = items
          /\ next \in ScanState(S)
      BY <1>1, <2>1, <2>4, <2>5 DEF ScanState
    <2>7. Range(items) = IF Permits(row) THEN Range(r.items) \cup {row}
                                         ELSE Range(r.items)
      <3>1. Range(Append(r.items, row)) = Range(r.items) \cup {row}
        BY <1>1, RangeOfAppend, Zenon
      <3> QED
        BY <3>1, Zenon
    <2>8. Range(r.items) \subseteq S
      BY <1>1 DEF Range
    <2>9. ~ Before(Place(row), last) /\ Before(last, Place(row))
      <3>1. ~ Before(r.last, last)
        BY Zenon DEF Scanned
      <3> QED
        BY <1>1, <2>4, <2>5, <3>1, PlacesAreOrdered, Zenon
    <2>10. ASSUME NEW p \in Range(items)
           PROVE  Before(last, Place(p)) /\ ~ Before(Place(row), Place(p))
      <3>1. CASE p = row
        BY <2>4, <2>5, <2>9, <3>1, PlacesAreOrdered, Zenon
      <3>2. CASE p \in Range(r.items)
        <4>1. Before(last, Place(p)) /\ ~ Before(r.last, Place(p))
          BY <3>2, Zenon DEF Scanned
        <4>2. Place(p) \in Nat \X Nat
          BY <2>5, <2>8, <3>2, Zenon
        <4> QED
          BY <1>1, <2>4, <2>5, <4>1, <4>2, PlacesAreOrdered, Zenon
      <3> QED
        BY <2>7, <2>10, <3>1, <3>2, Zenon
    <2>11. \A i, j \in DOMAIN items : i # j => items[i] # items[j]
      <3>1. \A i, j \in DOMAIN r.items : i # j => r.items[i] # r.items[j]
        BY Zenon DEF Scanned
      <3>2. row \notin Range(r.items)
        BY <2>4, Zenon DEF Scanned
      <3>3. CASE Permits(row)
        BY <1>1, <2>4, <3>1, <3>2, <3>3, AppendKeepsDifferent, Zenon
      <3>4. CASE ~ Permits(row)
        BY <3>1, <3>4, Zenon
      <3> QED
        BY <3>3, <3>4, Zenon
    <2>12. ASSUME NEW p \in S, Before(last, Place(p)), ~ Before(Place(row), Place(p))
           PROVE  p \in Range(items) \/ ~ Permits(p)
      <3>1. CASE Before(r.last, Place(p))
        <4>1. p = row
          BY <2>3, <2>12, <3>1, Zenon DEF Behind
        <4> QED
          BY <2>7, <4>1, Zenon
      <3>2. CASE ~ Before(r.last, Place(p))
        <4>1. p \in Range(r.items) \/ ~ Permits(p)
          BY <2>12, <3>2, Zenon DEF Scanned
        <4> QED
          BY <2>7, <4>1, Zenon
      <3> QED
        BY <3>1, <3>2, Zenon
    <2> HIDE DEF items, next
    <2>13. Scanned(S, last, next)
      BY <2>6, <2>9, <2>10, <2>11, <2>12, Zenon DEF Scanned
    <2> QED
      BY <2>13, Zenon DEF next
  <1> QED
    BY <1>2, <1>3, Zenon

(* A scan ends where it has come to.                                       *)
LEMMA ScanReads ==
  ASSUME NEW S \in SUBSET Projection, OnePerResource(S),
         NEW last \in Nat \X Nat
  PROVE  Scanned(S, last, Scan(S, last))
  <1> DEFINE V == {r \in ScanState(S) : Scanned(S, last, r)}
             base == [last |-> last, items |-> <<>>]
             step == [p \in (1..ScanLimit) \X V |-> Examine(S, p[2])]
             Found(f) == f = [n \in 0..ScanLimit |->
                                IF n = 0 THEN base ELSE Examine(S, f[n - 1])]
             scan == CHOOSE f : Found(f)
  <1>1. ScanLimit \in Nat
    BY CollectionAssumption, Zenon
  <1>2. base \in V
    <2>1. base \in ScanState(S)
      BY DEF ScanState
    <2>2. Range(base.items) = {} /\ DOMAIN base.items = {}
      BY DEF Range
    <2>3. ~ Before(base.last, last)
      BY PlacesAreOrdered, Zenon
    <2>4. Scanned(S, last, base)
      BY <2>1, <2>2, <2>3, Zenon DEF Scanned
    <2> QED
      BY <2>1, <2>4, Zenon
  <1>3. \A r \in V : Examine(S, r) \in V
    <2> SUFFICES ASSUME NEW r \in V PROVE Examine(S, r) \in V
      BY Zenon
    <2>1. Scanned(S, last, Examine(S, r))
      BY ExamineGoesOn, Zenon
    <2> QED
      BY <2>1, Zenon DEF Scanned
  <1>4. step \in [(1..ScanLimit) \X V -> V]
    <2> HIDE DEF V
    <2> QED
      BY <1>3, Zenon
  <1>5. PICK f \in [0..ScanLimit -> V] : Recursion(f, base, ScanLimit, step)
    <2> HIDE DEF V, step, base
    <2> QED
      BY <1>1, <1>2, <1>4, RecursionOverNumbers, Zenon
  <1>6. \A n \in 1..ScanLimit : f[n] = Examine(S, f[n - 1])
    <2> SUFFICES ASSUME NEW n \in 1..ScanLimit PROVE f[n] = Examine(S, f[n - 1])
      BY Zenon
    <2> HIDE DEF V
    <2>1. n - 1 \in 0..ScanLimit
      BY <1>1
    <2>2. f[n - 1] \in V /\ f[n] = step[<<n, f[n - 1]>>]
      <3> HIDE DEF step
      <3> QED
        BY <1>5, <2>1, Zenon DEF Recursion
    <2> QED
      BY <2>2, Zenon
  <1>7. Found(f)
    <2> HIDE DEF V, step, base
    <2>1. \A n \in 0..ScanLimit : n = 0 \/ n \in 1..ScanLimit
      BY <1>1
    <2>2. \A n \in 0..ScanLimit :
            f[n] = IF n = 0 THEN base ELSE Examine(S, f[n - 1])
      BY <1>5, <1>6, <2>1, Zenon DEF Recursion
    <2> QED
      BY <2>2, Zenon
  <1>8. Found(scan)
    <2> HIDE DEF Found
    <2> QED
      BY <1>7, Zenon
  <1>9. Scan(S, last) = scan[ScanLimit]
    BY Zenon DEF Scan
  <1> HIDE DEF scan, V, base, step
  <1> DEFINE N == {n \in Nat : n <= ScanLimit => scan[n] \in V}
  <1>10. 0 \in N
    BY <1>1, <1>2, <1>8
  <1>11. ASSUME NEW n \in Nat, n \in N PROVE n + 1 \in N
    <2> SUFFICES ASSUME n + 1 <= ScanLimit PROVE scan[n + 1] \in V
      OBVIOUS
    <2>1. /\ scan[n] \in V /\ n + 1 \in 0..ScanLimit
          /\ n + 1 # 0 /\ (n + 1) - 1 = n
      BY <1>1, <1>11
    <2>2. scan[n + 1] = Examine(S, scan[n])
      BY <1>8, <2>1, Zenon
    <2> QED
      BY <1>3, <2>1, <2>2, Zenon
  <1>12. Nat \subseteq N
    <2> HIDE DEF N
    <2> QED
      BY <1>10, <1>11, NumbersByInduction, Zenon
  <1> QED
    BY <1>1, <1>9, <1>12 DEF V

-----------------------------------------------------------------------------
(* The view of a walk.                                                     *)

(* No two versions share a key, and each revision is of a resource.        *)
VersionsDiffer(T) ==
  \A p, q \in T :
    p.kind = q.kind /\ p.resource = q.resource /\ p.version = q.version => p = q

(* The query of a page finds the latest versions.                          *)
LEMMA LatestIsShown ==
  ASSUME projections \subseteq Projection, NEW kind, NEW snapshot
  PROVE  Latest(kind, snapshot) = Shown(projections, kind, snapshot)
  <1>1. \A p \in projections : p.resource \in Resources
    BY Zenon DEF Projection
  <1>2. \A r, p : p \in LatestOf(kind, r, snapshot) <=>
          p.resource = r /\ p \in Shown(projections, kind, snapshot)
    BY Zenon DEF LatestOf, VersionsOf, Projected, Shown
  <1>3. Shown(projections, kind, snapshot) \subseteq projections
    BY Zenon DEF Shown
  <1>4. Latest(kind, snapshot) \subseteq Shown(projections, kind, snapshot)
    BY <1>2, Zenon DEF Latest
  <1>5. ASSUME NEW p \in Shown(projections, kind, snapshot)
        PROVE  p \in Latest(kind, snapshot)
    <2>1. p.resource \in Resources /\ p \in LatestOf(kind, p.resource, snapshot)
      BY <1>1, <1>2, <1>3, Zenon
    <2> QED
      BY <2>1, Zenon DEF Latest
  <1> QED
    BY <1>4, <1>5, Zenon

(* One version of a resource is the latest.                                *)
LEMMA ShownOnce ==
  ASSUME NEW T \in SUBSET Projection, VersionsDiffer(T), NEW kind, NEW snapshot
  PROVE  /\ Shown(T, kind, snapshot) \in SUBSET Projection
         /\ OnePerResource(Shown(T, kind, snapshot))
  <1>1. \A p \in T : p.version \in Nat
    BY Zenon DEF Projection
  <1>2. ASSUME NEW p \in Shown(T, kind, snapshot), NEW q \in Shown(T, kind, snapshot),
               p.resource = q.resource
        PROVE  p = q
    <2>1. p.version <= q.version /\ q.version <= p.version
      BY <1>2, Zenon DEF Shown
    <2>2. p \in T /\ q \in T /\ p.kind = q.kind
      BY Zenon DEF Shown
    <2>3. p.version = q.version
      BY <1>1, <2>1, <2>2
    <2> QED
      BY <1>2, <2>2, <2>3, Zenon DEF VersionsDiffer
  <1> QED
    BY <1>2, Zenon DEF OnePerResource, Shown

(* A later revision is not part of an earlier view.                        *)
LEMMA ShownIsStable ==
  ASSUME NEW T \in SUBSET Projection, NEW x \in Projection, NEW kind,
         NEW snapshot \in Nat, snapshot < x.sequence
  PROVE  Shown(T \cup {x}, kind, snapshot) = Shown(T, kind, snapshot)
  <1>1. ~ (x.sequence <= snapshot)
    BY DEF Projection
  <1> QED
    BY <1>1, Zenon DEF Shown

-----------------------------------------------------------------------------
(* A page.                                                                 *)

(* What two sequences hold together.                                       *)
LEMMA JoinedRange ==
  ASSUME NEW T, NEW s \in Seq(T), NEW t \in Seq(T)
  PROVE  /\ Range(s \o t) = Range(s) \cup Range(t)
         /\ \A i \in DOMAIN (s \o t) :
              \/ i \in DOMAIN s /\ (s \o t)[i] = s[i]
              \/ /\ i - Len(s) \in DOMAIN t /\ i \notin DOMAIN s
                 /\ (s \o t)[i] = t[i - Len(s)]
  <1> DEFINE u == s \o t
  <1>1. /\ Len(s) \in Nat /\ Len(t) \in Nat
        /\ DOMAIN s = 1..Len(s) /\ DOMAIN t = 1..Len(t)
        /\ DOMAIN u = 1..(Len(s) + Len(t))
        /\ \A i \in 1..Len(s) : u[i] = s[i]
        /\ \A i \in 1..Len(t) : u[i + Len(s)] = t[i]
    OBVIOUS
  <1> HIDE DEF u
  <1>2. ASSUME NEW i \in DOMAIN u
        PROVE  \/ i \in DOMAIN s /\ u[i] = s[i]
               \/ i - Len(s) \in DOMAIN t /\ i \notin DOMAIN s /\ u[i] = t[i - Len(s)]
    <2>1. CASE i <= Len(s)
      BY <1>1, <2>1
    <2>2. CASE ~ (i <= Len(s))
      <3>1. /\ i - Len(s) \in 1..Len(t) /\ i \notin 1..Len(s)
            /\ (i - Len(s)) + Len(s) = i
        BY <1>1, <2>2
      <3> QED
        BY <1>1, <3>1, Zenon
    <2> QED
      BY <2>1, <2>2, Zenon
  <1>3. Range(u) \subseteq Range(s) \cup Range(t)
    BY <1>2, Zenon DEF Range
  <1>4. \A i \in DOMAIN s : i \in DOMAIN u /\ u[i] = s[i]
    BY <1>1
  <1>5. \A i \in DOMAIN t : i + Len(s) \in DOMAIN u /\ u[i + Len(s)] = t[i]
    BY <1>1
  <1>6. Range(s) \cup Range(t) \subseteq Range(u)
    BY <1>4, <1>5, Zenon DEF Range
  <1> QED
    BY <1>2, <1>3, <1>6, Zenon DEF u

(* A page goes on where the walk was and leaves no row out.                *)
LEMMA ServeReadsOn ==
  ASSUME projections \subseteq Projection, VersionsDiffer(projections),
         NEW w \in Walk, ReadOnce(projections, deleted, w), w.epoch = epoch,
         Serve(w)
  PROVE  /\ ReadOnce(projections, deleted, page')
         /\ ~ page'.more => Unseen(page') \subseteq deleted
         /\ page' = [w EXCEPT !.last = page'.last, !.got = page'.got,
                              !.epochs = @ \cup {epoch}, !.at = now,
                              !.more = page'.more]
         /\ page'.last \in Nat \X Nat /\ page'.got \in Seq(Projection)
         /\ page'.more \in BOOLEAN
  <1> DEFINE S == Latest(w.kind, w.snapshot) \ deleted
             end == Scan(S, w.last)
             served == [w EXCEPT !.last = end.last,
                                 !.got = @ \o end.items,
                                 !.epochs = @ \cup {epoch},
                                 !.at = now,
                                 !.more = Behind(S, end.last) # {}]
  <1>1. page' = served
    BY Zenon DEF Serve
  <1>2. /\ w.view \in SUBSET Projection /\ OnePerResource(w.view)
        /\ w.view = Latest(w.kind, w.snapshot)
    <2>1. w.view = Shown(projections, w.kind, w.snapshot)
      BY Zenon DEF ReadOnce
    <2>2. Latest(w.kind, w.snapshot) = Shown(projections, w.kind, w.snapshot)
      BY LatestIsShown, Zenon
    <2>3. projections \in SUBSET Projection
      BY Zenon
    <2> QED
      BY <2>1, <2>2, <2>3, ShownOnce, Zenon
  <1>3. S = w.view \ deleted /\ S \in SUBSET Projection /\ OnePerResource(S)
    BY <1>2, Zenon DEF OnePerResource
  <1>4. w.last \in Nat \X Nat /\ w.got \in Seq(Projection)
    BY Zenon DEF Walk
  <1> HIDE DEF S
  <1>5. Scanned(S, w.last, end)
    BY <1>3, <1>4, ScanReads, Zenon
  <1> HIDE DEF end
  <1>6. end.last \in Nat \X Nat /\ end.items \in Seq(S) /\ end.items \in Seq(Projection)
    BY <1>3, <1>5 DEF Scanned, ScanState
  <1>7. /\ page' = [w EXCEPT !.last = end.last, !.got = w.got \o end.items,
                             !.epochs = w.epochs \cup {epoch}, !.at = now,
                             !.more = Behind(S, end.last) # {}]
        /\ page'.last = end.last /\ page'.got = w.got \o end.items
        /\ page'.view = w.view /\ page'.kind = w.kind
        /\ page'.snapshot = w.snapshot /\ page'.epoch = epoch
        /\ page'.more = (Behind(S, end.last) # {})
    BY <1>1, Zenon DEF Walk
  <1> HIDE DEF served
  <1>8. \A p \in w.view : Place(p) \in Nat \X Nat
    BY <1>2, RowsHavePlaces, Zenon
  <1>9. Range(end.items) \subseteq S
    BY <1>6 DEF Range
  <1>10. /\ Range(page'.got) = Range(w.got) \cup Range(end.items)
         /\ \A i \in DOMAIN page'.got :
              \/ i \in DOMAIN w.got /\ page'.got[i] = w.got[i]
              \/ /\ i - Len(w.got) \in DOMAIN end.items /\ i \notin DOMAIN w.got
                 /\ page'.got[i] = end.items[i - Len(w.got)]
    <2> DEFINE got == w.got \o end.items
    <2>1. /\ Range(got) = Range(w.got) \cup Range(end.items)
          /\ \A i \in DOMAIN got :
               \/ i \in DOMAIN w.got /\ got[i] = w.got[i]
               \/ /\ i - Len(w.got) \in DOMAIN end.items /\ i \notin DOMAIN w.got
                  /\ got[i] = end.items[i - Len(w.got)]
      <3>1. w.got \in Seq(Projection) /\ end.items \in Seq(Projection)
        BY <1>4, <1>6, Zenon
      <3>2. \A s, t \in Seq(Projection) : Range(s \o t) = Range(s) \cup Range(t)
        BY JoinedRange, Zenon
      <3>3. \A s, t \in Seq(Projection) : \A i \in DOMAIN (s \o t) :
              \/ i \in DOMAIN s /\ (s \o t)[i] = s[i]
              \/ /\ i - Len(s) \in DOMAIN t /\ i \notin DOMAIN s
                 /\ (s \o t)[i] = t[i - Len(s)]
        BY JoinedRange, Zenon
      <3> QED
        BY <3>1, <3>2, <3>3, Zenon
    <2>2. page'.got = got
      BY <1>7, Zenon
    <2> HIDE DEF got
    <2> QED
      BY <2>1, <2>2, Zenon
  <1>11. \A p \in w.view : Before(end.last, Place(p)) => Before(w.last, Place(p))
    <2>1. ~ Before(end.last, w.last)
      BY <1>5, Zenon DEF Scanned
    <2> QED
      BY <1>4, <1>6, <1>8, <2>1, PlacesAreOrdered, Zenon
  <1>12. Unseen(page') = {p \in w.view : Before(end.last, Place(p))}
    BY <1>7, Zenon DEF Unseen
  <1>13. Range(page'.got) \subseteq page'.view \ Unseen(page')
    <2>1. ASSUME NEW p \in Range(w.got)
          PROVE  p \in w.view /\ ~ Before(end.last, Place(p))
      BY <1>11, Zenon DEF ReadOnce, Unseen
    <2>2. ASSUME NEW p \in Range(end.items)
          PROVE  p \in w.view /\ ~ Before(end.last, Place(p))
      BY <1>3, <1>5, <1>9, Zenon DEF Scanned
    <2> QED
      BY <1>7, <1>10, <1>12, <2>1, <2>2, Zenon
  <1>14. ASSUME NEW i \in DOMAIN page'.got, NEW j \in DOMAIN page'.got, i # j
         PROVE  page'.got[i].resource # page'.got[j].resource
    <2> DEFINE Old(k) == k \in DOMAIN w.got /\ page'.got[k] = w.got[k]
               New(k) == /\ k - Len(w.got) \in DOMAIN end.items /\ k \notin DOMAIN w.got
                         /\ page'.got[k] = end.items[k - Len(w.got)]
    <2>1. \A k \in DOMAIN page'.got : Old(k) \/ New(k)
      BY <1>10, Zenon
    <2>2. \A k \in DOMAIN page'.got : page'.got[k] \in w.view
      BY <1>7, <1>13, Zenon DEF Range
    <2>3. \A k : Old(k) => ~ Before(w.last, Place(page'.got[k]))
      BY Zenon DEF ReadOnce, Unseen, Range
    <2>4. \A k : New(k) => Before(w.last, Place(page'.got[k]))
      BY <1>5, Zenon DEF Scanned, Range
    <2>5. CASE Old(i) /\ Old(j)
      BY <1>14, <2>5, Zenon DEF ReadOnce
    <2>6. CASE New(i) /\ New(j)
      <3>1. i - Len(w.got) # j - Len(w.got)
        <4>1. i \in Int /\ j \in Int /\ Len(w.got) \in Int
          BY <1>4, <1>6, <1>7
        <4> QED
          BY <1>14, <4>1
      <3>2. page'.got[i] # page'.got[j]
        BY <1>5, <2>6, <3>1, Zenon DEF Scanned
      <3> QED
        BY <1>2, <2>2, <3>2, Zenon DEF OnePerResource
    <2>7. CASE (Old(i) /\ New(j)) \/ (New(i) /\ Old(j))
      <3>1. page'.got[i] # page'.got[j]
        <4> HIDE DEF Old, New
        <4> QED
          BY <2>3, <2>4, <2>7, Zenon
      <3> QED
        BY <1>2, <2>2, <3>1, Zenon DEF OnePerResource
    <2> HIDE DEF Old, New
    <2> QED
      BY <2>1, <2>5, <2>6, <2>7, Zenon
  <1>15. ASSUME NEW p \in page'.view \ Unseen(page')
         PROVE  p \in Range(page'.got) \cup deleted \/ p.resource \in Hidden[epoch]
    <2>1. p \in w.view /\ ~ Before(end.last, Place(p))
      BY <1>7, <1>12, Zenon
    <2>2. CASE Before(w.last, Place(p)) /\ p \notin deleted
      <3>1. p \in Range(end.items) \/ ~ Permits(p)
        BY <1>3, <1>5, <2>1, <2>2, Zenon DEF Scanned
      <3> QED
        BY <1>10, <3>1, Zenon DEF Permits
    <2>3. CASE ~ Before(w.last, Place(p))
      <3>1. p \in w.view \ Unseen(w)
        BY <2>1, <2>3, Zenon DEF Unseen
      <3> QED
        BY <1>10, <3>1, Zenon DEF ReadOnce
    <2> QED
      BY <2>2, <2>3, Zenon
  <1>16. ASSUME ~ page'.more PROVE Unseen(page') \subseteq deleted
    <2>1. Behind(S, end.last) = {}
      BY <1>7, <1>16, Zenon
    <2> QED
      BY <1>3, <1>12, <2>1, Zenon DEF Behind
  <1>17. page'.view = Shown(projections, page'.kind, page'.snapshot)
    BY <1>7, Zenon DEF ReadOnce
  <1>18. ReadOnce(projections, deleted, page')
    BY <1>7, <1>13, <1>14, <1>15, <1>17, Zenon DEF ReadOnce
  <1>19. page'.got \in Seq(Projection)
    BY <1>4, <1>6, <1>7
  <1> QED
    BY <1>6, <1>7, <1>16, <1>18, <1>19, Zenon

-----------------------------------------------------------------------------
(* The steps.                                                              *)

(* Deleting more changes nothing about what was read.                      *)
LEMMA DeletionsKeepWalks ==
  ASSUME NEW T, NEW gone, NEW more, gone \subseteq more, NEW w,
         ServedOK(T, gone, w)
  PROVE  ServedOK(T, more, w)
  BY Zenon DEF ServedOK, ReadOnce

(* A revision that is later than its snapshot changes nothing in a walk.   *)
LEMMA RevisionsKeepWalks ==
  ASSUME NEW T \in SUBSET Projection, NEW gone, NEW x \in Projection, NEW w,
         ServedOK(T, gone, w), w.snapshot < x.sequence
  PROVE  ServedOK(T \cup {x}, gone, w)
  <1>1. w.snapshot \in Nat
    BY Zenon DEF ServedOK, Walk
  <1>2. Shown(T \cup {x}, w.kind, w.snapshot) = Shown(T, w.kind, w.snapshot)
    BY <1>1, ShownIsStable
  <1> QED
    BY <1>2, Zenon DEF ServedOK, ReadOnce

(* The tables as they are provisioned.                                     *)
LEMMA CollectionInitInv == CollectionInit => CollectionInv
  <1> SUFFICES ASSUME CollectionInit PROVE CollectionInv
    BY Zenon
  <1>1. PICK order \in Injection(Connections, 1 .. Cardinality(Connections)) :
          /\ projections = {[kind |-> "Connection", resource |-> c, version |-> 1,
                             created_at |-> 0, sequence |-> order[c]]
                              : c \in Connections}
          /\ sequence = Cardinality(Connections)
    BY Zenon DEF CollectionInit
  <1>2. /\ rows = [r \in Resources |->
                     IF r \in Connections THEN [state |-> "ACTIVE", version |-> 1]
                                          ELSE Absent]
        /\ pending = [w \in Writers |-> NoChange]
        /\ epoch \in Epochs /\ cursors = {} /\ page = NoPage /\ now = 0
    BY Zenon DEF CollectionInit
  <1>3. sequence \in Nat
    BY <1>1, CollectionAssumption, FS_CardinalityType, Zenon
  <1>4. Connections \subseteq Resources /\ Connections \cap Listings = {}
    BY CollectionAssumption, Zenon DEF Resources
  <1>5. \A p \in projections :
          /\ p.kind = "Connection" /\ p.resource \in Connections
          /\ p.version = 1 /\ p.sequence <= sequence /\ p \in Projection
    <2> SUFFICES ASSUME NEW c \in Connections
                 PROVE  LET p == [kind |-> "Connection", resource |-> c,
                                  version |-> 1, created_at |-> 0,
                                  sequence |-> order[c]]
                        IN  p.sequence <= sequence /\ p \in Projection
      BY <1>1
    <2>1. order[c] \in 1..sequence
      BY <1>1, Zenon DEF Injection
    <2>2. order[c] \in Nat /\ order[c] <= sequence
      BY <1>3, <2>1
    <2> QED
      BY <1>4, <2>2 DEF Projection, Kinds
  <1>6. \A p, q \in projections : p.resource = q.resource => p = q
    <2> DEFINE Provisioned(c) == [kind |-> "Connection", resource |-> c, version |-> 1,
                                  created_at |-> 0, sequence |-> order[c]]
    <2>1. \A c : Provisioned(c).resource = c
      BY Zenon
    <2>2. \A p \in projections : \E c : p = Provisioned(c)
      BY <1>1, Zenon
    <2> HIDE DEF Provisioned
    <2> SUFFICES ASSUME NEW p \in projections, NEW q \in projections,
                        p.resource = q.resource
                 PROVE  p = q
      BY Zenon
    <2>3. PICK c, d : p = Provisioned(c) /\ q = Provisioned(d)
      BY <2>2, Zenon
    <2>4. c = d
      BY <2>1, <2>3
    <2> QED
      BY <2>3, <2>4, Zenon
  <1>7. rows \in [Resources -> Row]
    BY <1>2, Zenon DEF Row, Absent
  <1>8. \A p \in projections : KindOK(p)
    BY <1>4, <1>5, Zenon DEF KindOK
  <1>9. VersionsCanBeExpected
    <2> SUFFICES ASSUME NEW p \in projections
                 PROVE  /\ p.version <= rows[p.resource].version
                        /\ \E q \in Projected(p.kind, p.resource) :
                             q.version = rows[p.resource].version
      BY Zenon DEF VersionsCanBeExpected
    <2>1. rows[p.resource].version = 1 /\ p.version = 1
      BY <1>2, <1>4, <1>5, Zenon
    <2>2. p \in Projected(p.kind, p.resource)
      BY Zenon DEF Projected
    <2> QED
      BY <2>1, <2>2
  <1>10. TablesOK
    BY <1>2, <1>3, <1>5, <1>6, <1>7, <1>8, <1>9, Zenon DEF TablesOK
  <1>11. \A w \in Writers : ~ pending[w].open
    BY <1>2, Zenon DEF NoChange
  <1>12. pending \in [Writers -> Change]
    <2>1. NoChange \in Change
      BY Zenon DEF NoChange, Change, Row, Absent
    <2> QED
      BY <1>2, <2>1, Zenon
  <1>13. ReadsOK
    BY <1>2, Zenon DEF ReadsOK
  <1>14. \A c \in Walks : c.snapshot <= sequence
    BY <1>2, <1>3 DEF Walks, NoPage
  <1> QED
    BY <1>10, <1>11, <1>12, <1>13, <1>14, Zenon DEF CollectionInv

(* A revision that is not committed, as PendingOK describes it, in terms   *)
(* of what a command writes.                                               *)
LEMMA WriteInv ==
  ASSUME CollectionInv, NEW w \in Writers, NEW kind \in Kinds,
         NEW r \in Resources, NEW row \in Row, NEW letter \in {"NONE", "PENDING"},
         NEW version \in Nat \ {0},
         kind = "CatalogListing" => r \in Listings,
         kind = "Connection" => r \in Connections,
         kind \notin {"CatalogListing", "Connection"} =>
           r \notin Listings \cup Connections,
         kind \in {"CatalogListing", "Connection"} =>
           /\ row.version = version
           /\ \A q \in Projected(kind, r) : q.version <= version,
         Write(w, kind, r, row, letter, version)
  PROVE  CollectionInv'
  <1> DEFINE new == [kind |-> kind, resource |-> r, version |-> version,
                     created_at |-> CreatedAt(kind, r), sequence |-> sequence + 1]
             change == [open |-> TRUE, row |-> row, letter |-> letter,
                        projection |-> new]
  <1>1. /\ \A v \in Writers : ~ pending[v].open
        /\ \A p \in Projected(kind, r) : p.version # version
        /\ sequence' = sequence + 1
        /\ pending' = [pending EXCEPT ![w] = change]
        /\ rows' = rows /\ projections' = projections /\ deleted' = deleted
        /\ epoch' = epoch /\ now' = now /\ cursors' = cursors /\ page' = page
    BY Zenon DEF Write, Unlocked, readVars
  <1>2. /\ sequence \in Nat /\ now \in Nat /\ projections \subseteq Projection
        /\ pending \in [Writers -> Change]
    BY Zenon DEF CollectionInv, TablesOK
  <1>3. CreatedAt(kind, r) \in Nat
    <2>1. CASE Projected(kind, r) = {}
      BY <1>2, <2>1, Zenon DEF CreatedAt
    <2>2. CASE Projected(kind, r) # {}
      <3> DEFINE times == {p.created_at : p \in Projected(kind, r)}
      <3>1. times \in SUBSET Nat /\ times # {}
        BY <1>2, <2>2 DEF Projected, Projection
      <3>2. \E t \in times : \A u \in times : t <= u
        BY <3>1, LeastNumber, Zenon
      <3>3. \E t \in times : \A p \in Projected(kind, r) : t <= p.created_at
        BY <3>2, Zenon
      <3>4. CreatedAt(kind, r) \in times
        BY <2>2, <3>3, Zenon DEF CreatedAt
      <3> QED
        BY <3>1, <3>4, Zenon
    <2> QED
      BY <2>1, <2>2, Zenon
  <1>4. new \in Projection
    BY <1>2, <1>3 DEF Projection
  <1>5. change \in Change
    BY <1>4, Zenon DEF Change
  <1>6. pending' \in [Writers -> Change]
    <2> HIDE DEF change
    <2> QED
      BY <1>1, <1>2, <1>5, Zenon
  <1>7. TablesOK'
    <2>1. VersionsCanBeExpected'
      <3>1. VersionsCanBeExpected
        BY Zenon DEF CollectionInv, TablesOK
      <3> QED
        BY <1>1, <3>1, Zenon DEF VersionsCanBeExpected, Projected
    <2>2. \A p \in projections : p.sequence <= sequence /\ p.sequence \in Nat
      BY Zenon DEF CollectionInv, TablesOK, Projection
    <2>3. \A p \in projections' : p.sequence <= sequence'
      BY <1>1, <1>2, <2>2
    <2>4. sequence' \in Nat
      BY <1>1, <1>2
    <2> QED
      BY <1>1, <2>1, <2>3, <2>4, Zenon DEF CollectionInv, TablesOK
  <1>8. \A v \in Writers : pending'[v].open => v = w
    BY <1>1, <1>2, Zenon
  <1>9. pending'[w].projection = new /\ pending'[w].row = row
    BY <1>1, <1>2, Zenon
  <1>10. PendingOK(w)'
    <2>1. KindOK(new)
      BY Zenon DEF KindOK
    <2>2. new.sequence = sequence + 1 /\ new.kind = kind /\ new.resource = r
          /\ new.version = version
      BY Zenon
    <2>3. \A c \in Walks : c.snapshot <= sequence /\ c.snapshot \in Nat
      BY DEF CollectionInv, ReadsOK, ServedOK, Walk, Walks, NoPage
    <2>4. \A c \in Walks' : c.snapshot < new.sequence
      BY <1>1, <1>2, <2>2, <2>3 DEF Walks
    <2>5. Projected(kind, r)' = Projected(kind, r)
      BY <1>1, Zenon DEF Projected
    <2>6. new.sequence <= sequence'
      BY <1>1, <1>2, <2>2
    <2> HIDE DEF new
    <2> QED
      BY <1>1, <1>4, <1>9, <2>1, <2>2, <2>4, <2>5, <2>6, Zenon DEF PendingOK
  <1>11. ReadsOK'
    BY <1>1, Zenon DEF CollectionInv, ReadsOK
  <1>12. \A c \in Walks' : c.snapshot <= sequence'
    <2>1. \A c \in Walks : c.snapshot <= sequence /\ c.snapshot \in Nat
      BY DEF CollectionInv, ReadsOK, ServedOK, Walk, Walks, NoPage
    <2> QED
      BY <1>1, <1>2, <2>1 DEF Walks
  <1> QED
    BY <1>6, <1>7, <1>8, <1>10, <1>11, <1>12, Zenon DEF CollectionInv

(* The end of a command that succeeds.                                     *)
LEMMA CommitInv ==
  ASSUME CollectionInv, NEW w \in Writers, Commit(w)
  PROVE  CollectionInv'
  <1> DEFINE x == pending[w].projection
             r == x.resource
  <1>1. /\ pending[w].open
        /\ rows' = [rows EXCEPT ![r] = pending[w].row]
        /\ projections' = projections \cup {x}
        /\ pending' = [pending EXCEPT ![w] = NoChange]
        /\ sequence' = sequence /\ deleted' = deleted /\ epoch' = epoch
        /\ now' = now /\ cursors' = cursors /\ page' = page
    BY Zenon DEF Commit, readVars
  <1>2. /\ sequence \in Nat /\ now \in Nat /\ epoch \in Epochs
        /\ rows \in [Resources -> Row]
        /\ projections \in SUBSET Projection
        /\ pending \in [Writers -> Change]
        /\ VersionsDiffer(projections) /\ VersionsCanBeExpected
        /\ \A p \in projections : KindOK(p) /\ p.sequence <= sequence
    BY Zenon DEF CollectionInv, TablesOK, VersionsDiffer
  <1>3. PendingOK(w) /\ \A v \in Writers : pending[v].open => v = w
    BY <1>1, Zenon DEF CollectionInv
  <1>4. /\ x \in Projection /\ KindOK(x) /\ x.sequence <= sequence
        /\ pending[w].row \in Row
        /\ \A q \in Projected(x.kind, r) : q.version # x.version
        /\ x.kind \in {"CatalogListing", "Connection"} =>
             /\ pending[w].row.version = x.version
             /\ \A q \in Projected(x.kind, r) : q.version <= x.version
        /\ \A c \in Walks : c.snapshot < x.sequence
    BY <1>3, Zenon DEF PendingOK
  <1>5. r \in Resources
    BY <1>4, Zenon DEF Projection
  <1>6. /\ \A v \in Writers : ~ pending'[v].open
        /\ pending' \in [Writers -> Change]
    <2>1. NoChange \in Change /\ ~ NoChange.open
      BY Zenon DEF NoChange, Change, Row, Absent
    <2> QED
      BY <1>1, <1>2, <1>3, <2>1, Zenon
  <1> HIDE DEF x
  <1>7. /\ rows'[r] = pending[w].row
        /\ \A s \in Resources \ {r} : rows'[s] = rows[s]
        /\ rows' \in [Resources -> Row]
    BY <1>1, <1>2, <1>4, <1>5, Zenon
  <1>8. VersionsDiffer(projections')
    <2>1. \A q \in projections :
            q.kind = x.kind /\ q.resource = r => q.version # x.version
      BY <1>4, Zenon DEF Projected
    <2> QED
      BY <1>1, <1>2, <2>1 DEF VersionsDiffer
  <1>9. ASSUME NEW p \in projections', p.kind \in {"CatalogListing", "Connection"}
        PROVE  /\ p.version <= rows'[p.resource].version
               /\ \E q \in Projected(p.kind, p.resource)' :
                    q.version = rows'[p.resource].version
    <2>1. p \in Projection /\ p.version \in Nat /\ p.resource \in Resources
      BY <1>1, <1>2, <1>4, Zenon DEF Projection
    <2>2. KindOK(p)
      BY <1>1, <1>2, <1>4, Zenon
    <2>3. CASE p.resource = r
      <3>1. x.kind = p.kind
        BY <1>4, <1>9, <2>2, <2>3, CollectionAssumption, Zenon DEF KindOK
      <3>2. rows'[r].version = x.version
        BY <1>4, <1>7, <1>9, <3>1, Zenon
      <3>3. x \in Projected(p.kind, p.resource)'
        BY <1>1, <2>3, <3>1, Zenon DEF Projected
      <3>4. p = x \/ p \in Projected(x.kind, r)
        BY <1>1, <2>3, <3>1, Zenon DEF Projected
      <3>5. p.version <= x.version
        BY <1>4, <1>9, <2>1, <3>1, <3>4
      <3> QED
        BY <2>3, <3>2, <3>3, <3>5, Zenon
    <2>4. CASE p.resource # r
      <3>1. p \in projections /\ rows'[p.resource] = rows[p.resource]
        BY <1>1, <1>7, <2>1, <2>4, Zenon
      <3>2. Projected(p.kind, p.resource) \subseteq Projected(p.kind, p.resource)'
        BY <1>1, Zenon DEF Projected
      <3> QED
        BY <1>2, <1>9, <3>1, <3>2, Zenon DEF VersionsCanBeExpected
    <2> QED
      BY <2>3, <2>4, Zenon
  <1>10. VersionsCanBeExpected'
    BY <1>9, Zenon DEF VersionsCanBeExpected
  <1>11. /\ projections' \subseteq Projection
         /\ \A p \in projections' : KindOK(p) /\ p.sequence <= sequence'
    BY <1>1, <1>2, <1>4, Zenon
  <1>12. TablesOK'
    BY <1>1, <1>2, <1>7, <1>8, <1>10, <1>11, Zenon DEF TablesOK, VersionsDiffer
  <1>13. ReadsOK'
    <2>1. ASSUME NEW c \in Walks, ServedOK(projections, deleted, c)
          PROVE  ServedOK(projections', deleted', c)
      BY <1>1, <1>2, <1>4, <2>1, RevisionsKeepWalks, Zenon
    <2> QED
      BY <1>1, <2>1, Zenon DEF CollectionInv, ReadsOK, Walks
  <1>14. \A c \in Walks' : c.snapshot <= sequence'
    BY <1>1, Zenon DEF CollectionInv, Walks
  <1> QED
    BY <1>6, <1>12, <1>13, <1>14, Zenon DEF CollectionInv

(* What a command knows of the row it changes.                             *)
LEMMA NewestIsInTheRow ==
  ASSUME CollectionInv, NEW r \in Resources,
         NEW kind \in {"CatalogListing", "Connection"}
  PROVE  /\ rows[r].version \in Nat
         /\ \A q \in Projected(kind, r) :
              q.version <= rows[r].version /\ q.version \in Nat \ {0}
  <1>1. \A q \in Projected(kind, r) :
          q \in projections /\ q.kind = kind /\ q.resource = r
    BY Zenon DEF Projected
  <1>2. rows[r] \in Row /\ projections \subseteq Projection /\ VersionsCanBeExpected
    BY Zenon DEF CollectionInv, TablesOK
  <1>3. \A q \in Projected(kind, r) : q.version <= rows[r].version
    BY <1>1, <1>2, Zenon DEF VersionsCanBeExpected
  <1>4. \A q \in Projected(kind, r) : q.version \in Nat \ {0}
    BY <1>1, <1>2, Zenon DEF Projection
  <1> QED
    BY <1>2, <1>3, <1>4, Zenon DEF Row

(* Every command, up to its end.                                           *)
LEMMA CommandInv ==
  ASSUME CollectionInv, NEW w \in Writers, Command(w)
  PROVE  CollectionInv'
  <1>1. /\ Created \subseteq Resources /\ Listings \subseteq Resources
        /\ Connections \subseteq Resources /\ Profiles \subseteq Resources
        /\ Letters \subseteq Resources
        /\ Listings \cap Connections = {}
        /\ (Listings \cup Connections) \cap (Created \cup Profiles \cup Letters) = {}
    BY CollectionAssumption, Zenon DEF Resources
  <1>2. rows \in [Resources -> Row]
    BY Zenon DEF CollectionInv, TablesOK
  <1>3. /\ "Created" \in Kinds /\ "CatalogListing" \in Kinds
        /\ "Connection" \in Kinds /\ "ProviderProfile" \in Kinds
        /\ "ProviderCompact" \in Kinds /\ "DeadletterReplay" \in Kinds
    BY Zenon DEF Kinds
  <1>4. Absent \in Row /\ 1 \in Nat \ {0}
    BY DEF Absent, Row
  <1>5. ASSUME NEW r \in Resources, Create(w, r) PROVE CollectionInv'
    <2>1. r \notin Listings \cup Connections
          /\ Write(w, "Created", r, Absent, "NONE", 1)
      BY <1>1, <1>5, Zenon DEF Create
    <2> QED
      BY <1>3, <1>4, <2>1, WriteInv, Zenon
  <1>6. ASSUME NEW r \in Resources, SubmitCatalog(w, r) PROVE CollectionInv'
    <2> DEFINE row == [state |-> "PENDING", version |-> 1]
    <2>1. /\ r \in Listings /\ rows[r].version = 0
          /\ Write(w, "CatalogListing", r, row, "NONE", 1)
      BY <1>6 DEF SubmitCatalog, Absent
    <2>2. row \in Row /\ row.version = 1
      BY Zenon DEF Row
    <2>3. \A q \in Projected("CatalogListing", r) : q.version <= 1
      BY <2>1, NewestIsInTheRow
    <2> HIDE DEF row
    <2> QED
      BY <1>3, <1>4, <2>1, <2>2, <2>3, WriteInv, Zenon
  <1>7. ASSUME NEW r \in Resources, ConfigureProvider(w, r) PROVE CollectionInv'
    <2> DEFINE row == [state |-> "CONFIGURED", version |-> 1]
    <2>1. /\ r \notin Listings \cup Connections
          /\ Write(w, "ProviderProfile", r, row, "NONE", 1)
      BY <1>1, <1>7, Zenon DEF ConfigureProvider
    <2>2. row \in Row
      BY Zenon DEF Row
    <2> HIDE DEF row
    <2> QED
      BY <1>3, <1>4, <2>1, <2>2, WriteInv, Zenon
  <1>8. ASSUME NEW e \in Resources, ReplayDeadletter(w, e) PROVE CollectionInv'
    <2>1. /\ e \notin Listings \cup Connections
          /\ Write(w, "DeadletterReplay", e, Absent, "PENDING", 1)
      BY <1>1, <1>8, Zenon DEF ReplayDeadletter
    <2> QED
      BY <1>3, <1>4, <2>1, WriteInv, Zenon
  <1>9. ASSUME NEW r \in Resources, NEW v, RevokeConnection(w, r, v)
        PROVE  CollectionInv'
    <2> DEFINE row == [state |-> "REVOKED", version |-> v + 2]
    <2>1. /\ r \in Connections /\ rows[r].version = v
          /\ Write(w, "Connection", r, row, "NONE", v + 2)
      BY <1>9, Zenon DEF RevokeConnection, StoredVersion
    <2>2. v \in Nat /\ \A q \in Projected("Connection", r) :
            q.version <= v /\ q.version \in Nat
      BY <2>1, NewestIsInTheRow, Zenon
    <2>3. /\ row \in Row /\ row.version = v + 2 /\ v + 2 \in Nat \ {0}
          /\ \A q \in Projected("Connection", r) : q.version <= v + 2
      BY <2>2 DEF Row
    <2> HIDE DEF row
    <2> QED
      BY <1>1, <1>3, <2>1, <2>3, WriteInv, Zenon
  <1>10. ASSUME NEW r \in Resources, NEW v, CompactProvider(w, r, v)
         PROVE  CollectionInv'
    <2> DEFINE row == [rows[r] EXCEPT !.version = @ + 1]
    <2>1. /\ r \notin Listings \cup Connections /\ rows[r].version = v
          /\ Write(w, "ProviderCompact", r, row, "NONE", v + 2)
      BY <1>1, <1>10, Zenon DEF CompactProvider
    <2>2. rows[r] \in Row
      BY <1>2, Zenon
    <2>3. row \in Row /\ v + 2 \in Nat \ {0}
      BY <2>1, <2>2 DEF Row
    <2> HIDE DEF row
    <2> QED
      BY <1>3, <2>1, <2>3, WriteInv, Zenon
  <1>11. ASSUME NEW r \in Resources, NEW v, NEW d \in Decisions,
                ReviewCatalog(w, r, d, v)
         PROVE  CollectionInv'
    <2> DEFINE row == [state |-> d, version |-> v + 2]
    <2>1. /\ r \in Listings /\ rows[r].version = v
          /\ Write(w, "CatalogListing", r, row, "NONE", v + 2)
      BY <1>11, Zenon DEF ReviewCatalog, StoredVersion
    <2>2. v \in Nat /\ \A q \in Projected("CatalogListing", r) :
            q.version <= v /\ q.version \in Nat
      BY <2>1, NewestIsInTheRow, Zenon
    <2>3. /\ row \in Row /\ row.version = v + 2 /\ v + 2 \in Nat \ {0}
          /\ \A q \in Projected("CatalogListing", r) : q.version <= v + 2
      BY <2>2 DEF Row
    <2> HIDE DEF row
    <2> QED
      BY <1>1, <1>3, <2>1, <2>3, WriteInv, Zenon
  <1>12. ASSUME Abort(w) PROVE CollectionInv'
    <2>1. /\ pending' = [pending EXCEPT ![w] = NoChange]
          /\ UNCHANGED <<rows, projections, sequence, deleted, epoch, cursors,
                         page, now>>
      BY <1>12, Zenon DEF Abort, readVars
    <2>2. /\ pending \in [Writers -> Change] /\ NoChange \in Change
          /\ ~ NoChange.open
      BY Zenon DEF CollectionInv, NoChange, Change, Row, Absent
    <2>3. /\ pending' \in [Writers -> Change]
          /\ \A v \in Writers : pending'[v].open => pending'[v] = pending[v]
      BY <2>1, <2>2, Zenon
    <2>4. \A v \in Writers : pending'[v].open => PendingOK(v)'
      <3> SUFFICES ASSUME NEW v \in Writers, pending'[v].open PROVE PendingOK(v)'
        BY Zenon
      <3>1. pending'[v] = pending[v] /\ PendingOK(v)
        BY <2>3, Zenon DEF CollectionInv
      <3> QED
        BY <2>1, <3>1, Zenon DEF PendingOK, Projected, Walks
    <2>5. TablesOK' /\ ReadsOK' /\ \A c \in Walks' : c.snapshot <= sequence'
      BY <2>1, Zenon
         DEF CollectionInv, TablesOK, VersionsCanBeExpected, Projected,
             ReadsOK, Walks
    <2> QED
      BY <2>3, <2>4, <2>5, Zenon DEF CollectionInv
  <1> QED
    BY <1>5, <1>6, <1>7, <1>8, <1>9, <1>10, <1>11, <1>12, CommitInv, Zenon
       DEF Command

(* The steps that neither write nor read: letters, deletions, policies and *)
(* time, and the step that changes nothing.                                *)
LEMMA OtherStepInv ==
  ASSUME CollectionInv, rows' = rows, projections' = projections,
         sequence' = sequence, pending' = pending, cursors' = cursors,
         page' = page, deleted \subseteq deleted', now' \in Nat, epoch' \in Epochs
  PROVE  CollectionInv'
  <1>1. TablesOK'
    BY Zenon DEF CollectionInv, TablesOK, VersionsCanBeExpected, Projected
  <1>2. \A w \in Writers : pending[w].open => PendingOK(w)'
    BY Zenon DEF CollectionInv, PendingOK, Projected, Walks
  <1>3. ReadsOK'
    <2>1. ASSUME NEW c, ServedOK(projections, deleted, c)
          PROVE  ServedOK(projections', deleted', c)
      <3>1. ServedOK(projections, deleted', c)
        BY <2>1, DeletionsKeepWalks, Zenon
      <3> QED
        BY <3>1, Zenon
    <2> QED
      BY <2>1, Zenon DEF CollectionInv, ReadsOK
  <1> QED
    BY <1>1, <1>2, <1>3, Zenon DEF CollectionInv, Walks

(* A page, whether the first or a later one.                               *)
LEMMA ServeInv ==
  ASSUME CollectionInv, NEW w \in Walk, ReadOnce(projections, deleted, w),
         w.epoch = epoch, w.epochs \subseteq {epoch}, w.snapshot <= sequence,
         now < w.snapshot_at + CursorLife, Serve(w)
  PROVE  CollectionInv'
  <1>1. /\ \A v \in Writers : ~ pending[v].open
        /\ cursors' = cursors \/ cursors' = cursors \cup {page'}
        /\ rows' = rows /\ projections' = projections /\ sequence' = sequence
        /\ pending' = pending /\ deleted' = deleted /\ epoch' = epoch /\ now' = now
    BY Zenon DEF Serve, Unlocked, tableVars
  <1>2. /\ projections \subseteq Projection /\ VersionsDiffer(projections)
        /\ now \in Nat /\ epoch \in Epochs
    BY Zenon DEF CollectionInv, TablesOK, VersionsDiffer
  <1>3. /\ ReadOnce(projections, deleted, page')
        /\ ~ page'.more => Unseen(page') \subseteq deleted
        /\ page' = [w EXCEPT !.last = page'.last, !.got = page'.got,
                             !.epochs = w.epochs \cup {epoch}, !.at = now,
                             !.more = page'.more]
        /\ page'.last \in Nat \X Nat /\ page'.got \in Seq(Projection)
        /\ page'.more \in BOOLEAN
    BY <1>2, ServeReadsOn, Zenon
  <1>4. /\ page'.epochs = w.epochs \cup {epoch} /\ page'.epoch = w.epoch
        /\ page'.at = now /\ page'.snapshot_at = w.snapshot_at
        /\ page'.snapshot = w.snapshot
    BY <1>3, Zenon DEF Walk
  <1>5. page' \in Walk
    <2> DEFINE last == page'.last
               got == page'.got
               more == page'.more
    <2>1. w.epochs \cup {epoch} \in SUBSET Epochs
      BY <1>2, Zenon
    <2>2. last \in Nat \X Nat /\ got \in Seq(Projection) /\ more \in BOOLEAN
      BY <1>3, Zenon
    <2>3. page' = [w EXCEPT !.last = last, !.got = got,
                            !.epochs = w.epochs \cup {epoch}, !.at = now,
                            !.more = more]
      BY <1>3, Zenon
    <2> HIDE DEF last, got, more
    <2> QED
      BY <1>2, <2>1, <2>2, <2>3, Zenon DEF Walk
  <1>6. ServedOK(projections', deleted', page')
    <2>1. page'.epochs = {page'.epoch} /\ page'.at < page'.snapshot_at + CursorLife
      BY <1>4, Zenon
    <2> QED
      BY <1>1, <1>3, <1>5, <2>1, Zenon DEF ServedOK
  <1>7. ReadsOK'
    <2>1. \A c \in cursors : ServedOK(projections', deleted', c)
      BY <1>1, Zenon DEF CollectionInv, ReadsOK
    <2> QED
      BY <1>1, <1>6, <2>1, Zenon DEF ReadsOK
  <1>8. \A c \in Walks' : c.snapshot <= sequence'
    <2>1. page'.snapshot <= sequence'
      BY <1>1, <1>4, Zenon
    <2>2. \A c \in cursors : c.snapshot <= sequence'
      BY <1>1, Zenon DEF CollectionInv, Walks
    <2> QED
      BY <1>1, <2>1, <2>2, Zenon DEF Walks
  <1>9. TablesOK'
    BY <1>1, Zenon
       DEF CollectionInv, TablesOK, VersionsCanBeExpected, Projected
  <1> QED
    BY <1>1, <1>7, <1>8, <1>9, Zenon DEF CollectionInv

(* The first page of a walk.                                               *)
LEMMA FirstPageInv ==
  ASSUME CollectionInv, NEW kind \in ReadKinds, FirstPage(kind)
  PROVE  CollectionInv'
  <1> DEFINE IsSnapshot(n) == /\ \A p \in projections : p.sequence <= n
                              /\ n = 0 \/ \E p \in projections : p.sequence = n
             snapshot == CHOOSE n \in 0 .. sequence : IsSnapshot(n)
             w == [kind |-> kind, snapshot_at |-> now, snapshot |-> snapshot,
                   epoch |-> epoch, last |-> <<0, 0>>, got |-> <<>>, epochs |-> {},
                   at |-> now, view |-> Latest(kind, sequence), more |-> FALSE]
  <1>1. /\ projections \subseteq Projection /\ VersionsDiffer(projections)
        /\ now \in Nat /\ epoch \in Epochs /\ sequence \in Nat
        /\ \A p \in projections : p.sequence <= sequence
    BY Zenon DEF CollectionInv, TablesOK, VersionsDiffer
  <1>2. \A p \in projections : p.sequence \in Nat
    BY <1>1, Zenon DEF Projection
  <1>3. \E n \in 0 .. sequence : IsSnapshot(n)
    <2> DEFINE bounds == {n \in Nat : \A p \in projections : p.sequence <= n}
    <2>1. bounds \in SUBSET Nat /\ sequence \in bounds
      BY <1>1, Zenon
    <2>2. PICK n \in bounds : \A m \in bounds : n <= m
      BY <2>1, LeastNumber, Zenon
    <2>3. n \in 0 .. sequence /\ \A p \in projections : p.sequence <= n
      BY <1>1, <2>1, <2>2
    <2>4. ASSUME n # 0, \A p \in projections : p.sequence # n PROVE FALSE
      <3>1. n - 1 \in Nat
        BY <2>3, <2>4
      <3>2. \A p \in projections : p.sequence <= n - 1
        BY <1>2, <2>3, <2>4, <3>1
      <3>3. n <= n - 1
        BY <2>2, <3>1, <3>2, Zenon
      <3> QED
        BY <2>3, <3>3
    <2> QED
      BY <2>3, <2>4, Zenon
  <1>4. snapshot \in 0 .. sequence /\ IsSnapshot(snapshot)
    <2> HIDE DEF IsSnapshot
    <2> QED
      BY <1>3, Zenon
  <1> HIDE DEF snapshot
  <1>5. snapshot \in Nat /\ snapshot <= sequence
    BY <1>1, <1>4
  <1>6. Serve(w)
    BY Zenon DEF FirstPage, snapshot
  <1>7. /\ Latest(kind, sequence) = Shown(projections, kind, sequence)
        /\ Latest(kind, sequence) \in SUBSET Projection
    <2>1. Latest(kind, sequence) = Shown(projections, kind, sequence)
      BY <1>1, LatestIsShown, Zenon
    <2> QED
      BY <1>1, <2>1, Zenon DEF Shown
  <1>8. Shown(projections, kind, sequence) = Shown(projections, kind, snapshot)
    <2>1. \A p \in projections : p.sequence <= sequence /\ p.sequence <= snapshot
      BY <1>1, <1>4, Zenon
    <2> QED
      BY <2>1, Zenon DEF Shown
  <1> DEFINE view == Latest(kind, sequence)
  <1> HIDE DEF view
  <1>9. /\ w \in Walk /\ w.kind = kind /\ w.snapshot = snapshot /\ w.view = view
        /\ w.last = <<0, 0>> /\ w.got = <<>> /\ w.epoch = epoch /\ w.epochs = {}
        /\ w.snapshot_at = now
    <2>1. view \in SUBSET Projection
      BY <1>7, Zenon DEF view
    <2>2. <<0, 0>> \in Nat \X Nat /\ <<>> \in Seq(Projection)
      OBVIOUS
    <2>3. w \in Walk
      BY <1>1, <1>5, <2>1, <2>2, Zenon DEF Walk, view
    <2> QED
      BY <2>3, Zenon DEF view
  <1> HIDE DEF w
  <1>10. ReadOnce(projections, deleted, w)
    <2>1. Unseen(w) = w.view
      BY <1>7, <1>9, RowsHavePlaces, Zenon DEF Unseen, view
    <2>2. Range(w.got) = {} /\ DOMAIN w.got = {}
      BY <1>9 DEF Range
    <2>3. w.view = Shown(projections, w.kind, w.snapshot)
      BY <1>7, <1>8, <1>9, Zenon DEF view
    <2> QED
      BY <2>1, <2>2, <2>3, Zenon DEF ReadOnce
  <1>11. now < w.snapshot_at + CursorLife
    BY <1>1, <1>9, CollectionAssumption
  <1> QED
    BY <1>5, <1>6, <1>9, <1>10, <1>11, ServeInv, Zenon

(* A later page.                                                           *)
LEMMA NextPageInv ==
  ASSUME CollectionInv, NEW c \in cursors, NextPage(c)
  PROVE  CollectionInv'
  <1>1. ServedOK(projections, deleted, c) /\ c.snapshot <= sequence
    BY Zenon DEF CollectionInv, ReadsOK, Walks
  <1>2. c.epoch = epoch /\ now < c.snapshot_at + CursorLife /\ Serve(c)
    BY Zenon DEF NextPage, SameAuthority, Alive
  <1>3. /\ c \in Walk /\ ReadOnce(projections, deleted, c)
        /\ c.epochs \subseteq {epoch}
    BY <1>1, <1>2, Zenon DEF ServedOK
  <1> QED
    BY <1>1, <1>2, <1>3, ServeInv, Zenon

(* Every step keeps the invariant.                                         *)
LEMMA CollectionNextInv ==
  ASSUME CollectionInv, [CollectionNext]_collectionVars
  PROVE  CollectionInv'
  <1>1. now \in Nat /\ epoch \in Epochs
    BY Zenon DEF CollectionInv, TablesOK
  <1>2. ASSUME NEW e \in Letters, GiveUp(e) PROVE CollectionInv'
    <2>1. UNCHANGED <<rows, projections, sequence, pending, deleted, epoch,
                      cursors, page, now>>
      BY <1>2, Zenon DEF GiveUp, readVars
    <2> QED
      BY <1>1, <2>1, OtherStepInv, Zenon
  <1>3. ASSUME NEW p \in projections, Delete(p) PROVE CollectionInv'
    <2>1. /\ deleted' = deleted \cup {p}
          /\ UNCHANGED <<rows, projections, sequence, pending, epoch, cursors,
                         page, now>>
      BY <1>3, Zenon DEF Delete, tableVars, readVars
    <2> QED
      BY <1>1, <2>1, OtherStepInv, Zenon
  <1>4. ASSUME ChangePolicy PROVE CollectionInv'
    <2>1. /\ epoch' \in Epochs
          /\ UNCHANGED <<rows, projections, sequence, pending, deleted, cursors,
                         page, now>>
      BY <1>4, Zenon DEF ChangePolicy, tableVars, readVars
    <2> QED
      BY <1>1, <2>1, OtherStepInv, Zenon
  <1>5. ASSUME Tick PROVE CollectionInv'
    <2>1. /\ now' = now + 1
          /\ UNCHANGED <<rows, projections, sequence, pending, deleted, epoch,
                         cursors, page>>
      BY <1>5, Zenon DEF Tick, tableVars, readVars
    <2>2. now' \in Nat
      BY <1>1, <2>1
    <2> QED
      BY <1>1, <2>1, <2>2, OtherStepInv, Zenon
  <1>6. ASSUME UNCHANGED collectionVars PROVE CollectionInv'
    <2>1. UNCHANGED <<rows, projections, sequence, pending, deleted, epoch,
                      cursors, page, now>>
      BY <1>6, Zenon DEF collectionVars, tableVars, readVars
    <2> QED
      BY <1>1, <2>1, OtherStepInv, Zenon
  <1> QED
    BY <1>2, <1>3, <1>4, <1>5, <1>6, CommandInv, FirstPageInv, NextPageInv,
       Zenon DEF CollectionNext

(* The invariant of the collections holds in every state.                  *)
THEOREM CollectionsStaySound == CollectionSpec => []CollectionInv
  BY CollectionInitInv, CollectionNextInv, PTL DEF CollectionSpec

(* The pages of a walk show one state of the collection, without a row     *)
(* twice and without a gap (read_collection).                              *)
THEOREM WalksReadOneSnapshot == CollectionSpec => []PagesAreOneSnapshot
  <1>1. CollectionInv => PagesAreOneSnapshot
    <2> SUFFICES ASSUME CollectionInv PROVE PagesAreOneSnapshot
      BY Zenon
    <2>1. CASE page = NoPage
      <3>1. /\ page.got = <<>> /\ Range(page.got) = {} /\ DOMAIN page.got = {}
            /\ page.epochs = {}
        BY <2>1 DEF NoPage, Range
      <3> QED
        BY <3>1, Zenon DEF PagesAreOneSnapshot
    <2>2. CASE ServedOK(projections, deleted, page)
      <3>1. ReadOnce(projections, deleted, page)
            /\ (~ page.more => Unseen(page) \subseteq deleted)
        BY <2>2, Zenon DEF ServedOK
      <3> QED
        BY <3>1, Zenon DEF ReadOnce, PagesAreOneSnapshot
    <2> QED
      BY <2>1, <2>2, Zenon DEF CollectionInv, ReadsOK
  <1> QED
    BY <1>1, CollectionsStaySound, PTL

(* Each page is served under the authority and in the time of its walk     *)
(* (read_collection, read_cursors).                                        *)
THEOREM TermsAreKept == CollectionSpec => []WalksKeepTheirTerms
  <1>1. CollectionInv => WalksKeepTheirTerms
    <2> SUFFICES ASSUME CollectionInv PROVE WalksKeepTheirTerms
      BY Zenon
    <2>1. page = NoPage => page.epochs = {}
      BY DEF NoPage
    <2>2. page = NoPage \/ (/\ page.epochs = {page.epoch}
                            /\ page.at < page.snapshot_at + CursorLife)
      BY Zenon DEF CollectionInv, ReadsOK, ServedOK
    <2> QED
      BY <2>1, <2>2, Zenon DEF WalksKeepTheirTerms
  <1> QED
    BY <1>1, CollectionsStaySound, PTL

(* The newest projection of a listing or a connection has the version the  *)
(* next command must expect (review_catalog, revoke_connection).           *)
THEOREM NewestVersionIsExpected == CollectionSpec => []VersionsCanBeExpected
  <1>1. CollectionInv => VersionsCanBeExpected
    BY Zenon DEF CollectionInv, TablesOK
  <1> QED
    BY <1>1, CollectionsStaySound, PTL

=============================================================================
