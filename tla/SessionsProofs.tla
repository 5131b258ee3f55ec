--------------------------- MODULE SessionsProofs ---------------------------
(***************************************************************************)
(* Sessions, for any accounts, session ids, lifetimes and requests in      *)
(* flight.                                                                 *)
(*                                                                         *)
(* The invariant is about every copy of a session record, in the table or  *)
(* in the hands of a request, however old it is: it permits what its id    *)
(* was issued for, and its limits come from the login it descends from.    *)
(***************************************************************************)
EXTENDS Sessions, TLAPS

-----------------------------------------------------------------------------
(* The inductive invariant.                                                *)

Flow == [purpose : {"NONE", "LOGIN", "STEP_UP"},
         transaction : Transactions \cup {"NULL"},
         principal : PrincipalIds \cup {"NULL"}]

Envelope == [principal : PrincipalIds \cup {"NULL"},
             login : Logins \cup {"NULL"},
             last_seen : Nat, until : Nat, step_up : Nat]

Record == [flow : Flow, envelope : Envelope]

InFlight == [pc : {"NONE", "EXCHANGE", "SAVE"}, id : Ids \cup {"NULL"},
             record : Record, admitted : {"NO", "PLAIN", "SENSITIVE"}]

LoginRow == [account : Accounts \cup {"NULL"}, at : Nat, active : Nat,
             auth_time : Nat, by : SUBSET Accounts]

SessionTypeOK ==
  /\ store \in [Ids -> [present : BOOLEAN, record : Record]]
  /\ issued \subseteq Ids
  /\ transactions \in [Transactions -> {"NONE", "OPEN", "GONE"}]
  /\ identities \in [Accounts -> PrincipalIds \cup {"NULL"}]
  /\ inflight \in [Requests -> InFlight]
  /\ now \in Nat
  /\ completed \in [Transactions -> Nat]
  /\ logins \in [Logins -> LoginRow]
  /\ rank \in [Ids -> [level : 0 .. 2, principal : PrincipalIds \cup {"NULL"}]]

(* The envelope of a session comes from its login: the limits are the      *)
(* login's, and a step-up is one that the login's account made.            *)
EnvelopeOK(envelope) ==
  \/ envelope = NoEnvelope
  \/ LET l == envelope.login
     IN  /\ l \in Logins
         /\ logins[l].account \in Accounts
         /\ envelope.principal \in PrincipalIds
         /\ envelope.principal = identities[logins[l].account]
         /\ envelope.until = logins[l].at + Absolute
         /\ envelope.last_seen <= logins[l].active
         /\ envelope.step_up # 0 =>
              /\ logins[l].by # {}
              /\ envelope.step_up <= now + StepUp
              /\ envelope.step_up <= logins[l].auth_time + MaxAge + StepUp

(* An envelope in a copy of the record of id i, in the table or in the     *)
(* hands of a request, permits what the id was issued for.                 *)
CopyOK(i, envelope) ==
  /\ i \in issued
  /\ rank[i] = [level |-> Level(envelope), principal |-> envelope.principal]
  /\ EnvelopeOK(envelope)

RowOK(i) ==
  /\ store[i].present => CopyOK(i, store[i].record.envelope)
  /\ ~ store[i].present => store[i].record = Anonymous

RequestCopyOK(r) ==
  inflight[r].pc # "NONE" =>
    CopyOK(inflight[r].id, inflight[r].record.envelope)

(* Who exchanges a code has deleted the transaction of its flow.           *)
ExchangeOK(r) ==
  inflight[r].pc = "EXCHANGE" =>
    LET t == inflight[r].record.flow.transaction
    IN  /\ t \in Transactions
        /\ transactions[t] = "GONE"
        /\ completed[t] = 0
        /\ \A q \in Requests \ {r} :
             inflight[q].pc = "EXCHANGE" =>
               inflight[q].record.flow.transaction # t

LoginOK(l) ==
  /\ logins[l].account = "NULL" => logins[l] = NoLogin
  /\ logins[l].account # "NULL" => identities[logins[l].account] # "NULL"
  /\ logins[l].by \subseteq {logins[l].account}
  /\ logins[l].active <= now

CompletedOK(t) == completed[t] <= IF transactions[t] = "GONE" THEN 1 ELSE 0

OneAccountPerPrincipal ==
  \A a, b \in Accounts :
    identities[a] = identities[b] /\ identities[a] # "NULL" => a = b

SessionInv ==
  /\ SessionTypeOK
  /\ \A i \in Ids : RowOK(i)
  /\ \A r \in Requests : RequestCopyOK(r) /\ ExchangeOK(r)
  /\ \A t \in Transactions : CompletedOK(t)
  /\ \A l \in Logins : LoginOK(l)
  /\ OneAccountPerPrincipal

-----------------------------------------------------------------------------
(* Types.                                                                  *)

(* The empty rows have the types of rows.                                  *)
LEMMA NullsTyped ==
  /\ NoFlow \in Flow /\ NoEnvelope \in Envelope /\ Anonymous \in Record
  /\ Vacant \in InFlight /\ NoLogin \in LoginRow
  /\ [present |-> FALSE, record |-> Anonymous]
       \in [present : BOOLEAN, record : Record]
  <1>1. NoFlow \in Flow
    BY Zenon DEF NoFlow, Flow
  <1>2. NoEnvelope \in Envelope
    BY Zenon DEF NoEnvelope, Envelope
  <1>3. Anonymous \in Record
    BY <1>1, <1>2, Zenon DEF Anonymous, Record
  <1>4. Vacant \in InFlight
    BY <1>3, Zenon DEF Vacant, InFlight
  <1>5. NoLogin \in LoginRow
    BY Zenon DEF NoLogin, LoginRow
  <1> QED
    BY <1>1, <1>2, <1>3, <1>4, <1>5, Zenon

(* The parts of a session record, and what replacing one of them gives.    *)
LEMMA RecordParts ==
  ASSUME NEW record \in Record
  PROVE  /\ record.flow \in Flow /\ record.envelope \in Envelope
         /\ record.flow.transaction \in Transactions \cup {"NULL"}
         /\ record.envelope.login \in Logins \cup {"NULL"}
         /\ \A flow \in Flow : [record EXCEPT !.flow = flow] \in Record
         /\ \A envelope \in Envelope :
              [record EXCEPT !.envelope = envelope] \in Record
  BY Zenon DEF Record, Flow, Envelope

(* What a request in flight holds.                                         *)
LEMMA SavedTyped ==
  ASSUME NEW pc \in {"EXCHANGE", "SAVE"}, NEW i \in Ids, NEW record \in Record,
         NEW admitted \in {"NO", "PLAIN", "SENSITIVE"}
  PROVE  [pc |-> pc, id |-> i, record |-> record, admitted |-> admitted]
           \in InFlight
  BY Zenon DEF InFlight

(* The empty store satisfies the invariant.                                *)
LEMMA SessionInitInv == SessionInit => SessionInv
  <1> SUFFICES ASSUME SessionInit PROVE SessionInv
    BY Zenon
  <1>1. SessionTypeOK
    BY NullsTyped DEF SessionInit, SessionTypeOK, NoRecord
  <1>2. \A i \in Ids : RowOK(i)
    BY Zenon DEF SessionInit, RowOK, NoRecord
  <1>3. \A r \in Requests : RequestCopyOK(r) /\ ExchangeOK(r)
    BY Zenon DEF SessionInit, RequestCopyOK, ExchangeOK, Vacant
  <1>4. \A t \in Transactions : CompletedOK(t)
    BY DEF SessionInit, CompletedOK
  <1>5. \A l \in Logins : LoginOK(l)
    BY DEF SessionInit, LoginOK, NoLogin
  <1>6. OneAccountPerPrincipal
    BY Zenon DEF SessionInit, OneAccountPerPrincipal
  <1> QED
    BY <1>1, <1>2, <1>3, <1>4, <1>5, <1>6, Zenon DEF SessionInv

-----------------------------------------------------------------------------
(* What no step undoes.                                                    *)

(* The clock runs forward, an account keeps its principal and a login its  *)
(* account, its start and what was done in its name; a newer sign-in       *)
(* replaces an older one only while it is recent.                          *)
Onward ==
  /\ now' \in Nat /\ now <= now'
  /\ \A a \in Accounts : identities[a] # "NULL" => identities'[a] = identities[a]
  /\ \A l \in Logins :
       logins[l].account \in Accounts =>
         /\ logins'[l].account = logins[l].account
         /\ logins'[l].at = logins[l].at
         /\ logins[l].active <= logins'[l].active
         /\ logins[l].by \subseteq logins'[l].by
         /\ \/ logins'[l].auth_time = logins[l].auth_time
            \/ now <= logins'[l].auth_time + MaxAge
  /\ \A i \in issued : i \in issued' /\ rank'[i] = rank[i]

(* A copy of an envelope stays right while logins, identities and ranks    *)
(* only move onward.                                                       *)
LEMMA CopyKept ==
  ASSUME SessionTypeOK, SessionTypeOK', Onward, NEW i, NEW e \in Envelope,
         CopyOK(i, e)
  PROVE  CopyOK(i, e)'
  <1>1. i \in issued' /\ rank'[i] = rank[i]
    BY Zenon DEF CopyOK, Onward
  <1>2. EnvelopeOK(e)'
    <2>1. CASE e = NoEnvelope
      BY <2>1, Zenon DEF EnvelopeOK
    <2>2. CASE e # NoEnvelope
      <3> DEFINE l == e.login
      <3>1. /\ l \in Logins
            /\ logins[l].account \in Accounts
            /\ e.principal \in PrincipalIds
            /\ e.principal = identities[logins[l].account]
            /\ e.until = logins[l].at + Absolute
            /\ e.last_seen <= logins[l].active
            /\ e.step_up # 0 =>
                 /\ logins[l].by # {}
                 /\ e.step_up <= now + StepUp
                 /\ e.step_up <= logins[l].auth_time + MaxAge + StepUp
        BY <2>2, CopyOK(i, e), Zenon DEF CopyOK, EnvelopeOK
      <3> HIDE DEF l
      <3>2. /\ logins'[l].account = logins[l].account
            /\ logins'[l].at = logins[l].at
            /\ logins[l].active <= logins'[l].active
            /\ logins[l].by \subseteq logins'[l].by
            /\ \/ logins'[l].auth_time = logins[l].auth_time
               \/ now <= logins'[l].auth_time + MaxAge
            /\ now <= now'
        BY <3>1, Zenon DEF Onward
      <3>3. /\ logins[l] \in LoginRow /\ logins'[l] \in LoginRow
            /\ now \in Nat /\ now' \in Nat
        BY <3>1, Zenon DEF SessionTypeOK
      <3>4. /\ e.last_seen \in Nat /\ e.step_up \in Nat
            /\ logins[l].active \in Nat /\ logins'[l].active \in Nat
            /\ logins[l].auth_time \in Nat /\ logins'[l].auth_time \in Nat
        BY <3>3, Zenon DEF Envelope, LoginRow
      <3>5. MaxAge \in Nat /\ StepUp \in Nat /\ "NULL" \notin PrincipalIds
        BY SessionAssumption, Zenon
      <3>6. e.principal = identities'[logins'[l].account]
        BY <3>1, <3>2, <3>5, Zenon DEF Onward
      <3>7. e.last_seen <= logins'[l].active
        BY <3>1, <3>2, <3>4
      <3>8. ASSUME e.step_up # 0
            PROVE  /\ logins'[l].by # {}
                   /\ e.step_up <= now' + StepUp
                   /\ e.step_up <= logins'[l].auth_time + MaxAge + StepUp
        <4>1. logins'[l].by # {}
          BY <3>1, <3>2, <3>8, Zenon
        <4>2. e.step_up <= now + StepUp
              /\ e.step_up <= logins[l].auth_time + MaxAge + StepUp
          BY <3>1, <3>8, Zenon
        <4> QED
          BY <4>1, <4>2, <3>2, <3>3, <3>4, <3>5
      <3> USE DEF l
      <3> QED
        BY <3>1, <3>2, <3>6, <3>7, <3>8, Zenon DEF EnvelopeOK
    <2> QED
      BY <2>1, <2>2, Zenon
  <1> QED
    BY <1>1, <1>2, Zenon DEF CopyOK

(* A row that is kept or deleted, a request that goes on or ends.          *)
LEMMA RowKept ==
  ASSUME SessionInv, SessionTypeOK', Onward, NEW i \in Ids,
         store'[i] = store[i] \/ store'[i] = NoRecord
  PROVE  RowOK(i)'
  <1>1. CASE store'[i] = NoRecord
    BY <1>1 DEF RowOK, NoRecord
  <1>2. CASE store'[i] = store[i]
    <2>1. RowOK(i) /\ store[i].record \in Record /\ SessionTypeOK
      BY Zenon DEF SessionInv, SessionTypeOK
    <2>2. PICK e : e = store[i].record.envelope
      BY Zenon
    <2>3. e \in Envelope
      BY <2>1, <2>2, Zenon DEF Record
    <2>4. CASE store[i].present
      <3>1. CopyOK(i, e)
        BY <2>1, <2>2, <2>4, Zenon DEF RowOK
      <3>2. CopyOK(i, e)'
        BY <3>1, <2>1, <2>3, CopyKept, Zenon
      <3> QED
        BY <3>2, <1>2, <2>2, <2>4, Zenon DEF RowOK
    <2>5. CASE ~ store[i].present
      BY <1>2, <2>1, <2>5, Zenon DEF RowOK
    <2> QED
      BY <2>4, <2>5, Zenon
  <1> QED
    BY <1>1, <1>2, Zenon

(* So does the copy that a request holds.                                  *)
LEMMA RequestKept ==
  ASSUME SessionInv, SessionTypeOK', Onward, NEW r \in Requests,
         inflight'[r] = inflight[r] \/ inflight'[r] = Vacant
  PROVE  RequestCopyOK(r)'
  <1>1. CASE inflight'[r] = Vacant
    BY <1>1 DEF RequestCopyOK, Vacant
  <1>2. CASE inflight'[r] = inflight[r] /\ inflight[r].pc # "NONE"
    <2>1. /\ RequestCopyOK(r) /\ inflight[r].record \in Record
          /\ SessionTypeOK
      BY Zenon DEF SessionInv, SessionTypeOK, InFlight
    <2>2. PICK e, i : e = inflight[r].record.envelope /\ i = inflight[r].id
      BY Zenon
    <2>3. e \in Envelope
      BY <2>1, <2>2, Zenon DEF Record
    <2>4. CopyOK(i, e)
      BY <1>2, <2>1, <2>2, Zenon DEF RequestCopyOK
    <2>5. CopyOK(i, e)'
      BY <2>1, <2>3, <2>4, CopyKept, Zenon
    <2> QED
      BY <1>2, <2>2, <2>5, Zenon DEF RequestCopyOK
  <1>3. CASE inflight'[r] = inflight[r] /\ inflight[r].pc = "NONE"
    BY <1>3, Zenon DEF RequestCopyOK
  <1> QED
    BY <1>1, <1>2, <1>3, Zenon

(* No callback succeeds, and a transaction that is gone stays so.          *)
NoCompletion ==
  /\ UNCHANGED completed
  /\ \A t \in Transactions : transactions[t] = "GONE" => transactions'[t] = "GONE"

(* A step that completes no callback keeps what is known of exchanges.     *)
LEMMA ExchangesKept ==
  ASSUME SessionInv, NoCompletion,
         \A r \in Requests :
           inflight'[r].pc = "EXCHANGE" => inflight'[r] = inflight[r]
  PROVE  /\ \A r \in Requests : ExchangeOK(r)'
         /\ \A t \in Transactions : CompletedOK(t)'
  <1>1. \A r \in Requests : ExchangeOK(r)'
    BY DEF SessionInv, ExchangeOK, NoCompletion
  <1>2. \A t \in Transactions : completed[t] \in Nat /\ CompletedOK(t)
    BY Zenon DEF SessionInv, SessionTypeOK
  <1>3. \A t \in Transactions : CompletedOK(t)'
    BY <1>2 DEF CompletedOK, NoCompletion
  <1> QED
    BY <1>1, <1>3, Zenon

CopiesOK ==
  /\ \A i \in Ids : RowOK(i)
  /\ \A r \in Requests : RequestCopyOK(r) /\ ExchangeOK(r)
  /\ \A t \in Transactions : CompletedOK(t)

RowsKeptOrGone ==
  \A i \in Ids : store'[i] = store[i] \/ store'[i] = NoRecord

(* A request is about to save a copy.                                      *)
LEMMA SavingStep ==
  ASSUME SessionInv, SessionTypeOK', Onward, NoCompletion, RowsKeptOrGone,
         NEW r \in Requests, NEW i \in Ids, NEW record \in Record,
         NEW admitted, Saving(r, i, record, admitted),
         CopyOK(i, record.envelope)'
  PROVE  CopiesOK'
  <1>1. inflight \in [Requests -> InFlight]
    BY Zenon DEF SessionInv, SessionTypeOK
  <1>2. /\ inflight'[r].pc = "SAVE" /\ inflight'[r].id = i
        /\ inflight'[r].record = record
        /\ \A q \in Requests \ {r} : inflight'[q] = inflight[q]
    BY <1>1, Zenon DEF Saving
  <1>3. RequestCopyOK(r)'
    BY <1>2, Zenon DEF RequestCopyOK, CopyOK, EnvelopeOK
  <1>4. \A q \in Requests : RequestCopyOK(q)'
    BY <1>2, <1>3, RequestKept, Zenon
  <1>5. \A j \in Ids : RowOK(j)'
    BY RowKept, Zenon DEF RowsKeptOrGone
  <1> QED
    BY <1>2, <1>4, <1>5, ExchangesKept, Zenon DEF CopiesOK

(* A request ends without a save.                                          *)
LEMMA EndingStep ==
  ASSUME SessionInv, SessionTypeOK', Onward, NoCompletion, RowsKeptOrGone,
         \A r \in Requests :
           inflight'[r] = inflight[r] \/ inflight'[r] = Vacant
  PROVE  CopiesOK'
  <1>1. \A r \in Requests : RequestCopyOK(r)'
    BY RequestKept, Zenon
  <1>2. \A i \in Ids : RowOK(i)'
    BY RowKept, Zenon DEF RowsKeptOrGone
  <1>3. \A r \in Requests :
          inflight'[r].pc = "EXCHANGE" => inflight'[r] = inflight[r]
    BY DEF Vacant
  <1> QED
    BY <1>1, <1>2, <1>3, ExchangesKept, Zenon DEF CopiesOK

(* The parts that make up the invariant.                                   *)
LEMMA SessionInvParts ==
  ASSUME SessionTypeOK', CopiesOK', \A l \in Logins : LoginOK(l)',
         OneAccountPerPrincipal'
  PROVE  SessionInv'
  BY Zenon DEF SessionInv, CopiesOK

(* Steps that leave logins and identities alone.                           *)
LEMMA HistoryKept ==
  ASSUME SessionInv, Onward, UNCHANGED <<logins, identities>>
  PROVE  (\A l \in Logins : LoginOK(l)') /\ OneAccountPerPrincipal'
  <1>1. /\ now \in Nat /\ now' \in Nat /\ now <= now'
        /\ \A l \in Logins : logins[l].active \in Nat
    BY Zenon DEF SessionInv, SessionTypeOK, Onward, LoginRow
  <1> QED
    BY <1>1 DEF SessionInv, LoginOK, OneAccountPerPrincipal

(* A step that leaves the logins alone moves onward.                       *)
LEMMA LoginsUnchanged ==
  ASSUME SessionTypeOK,
         UNCHANGED <<logins, identities, issued, rank>>,
         now' \in Nat, now <= now'
  PROVE  Onward
  BY DEF Onward, SessionTypeOK, LoginRow

-----------------------------------------------------------------------------
(* A new id, and the record a request starts from.                         *)

(* What issuing an id does to the store and the ranks.                     *)
LEMMA IssueFacts ==
  ASSUME SessionTypeOK, NEW old \in Ids \cup {"NULL"}, NEW new \in Ids,
         NEW e \in Envelope, Issue(old, new, e)
  PROVE  /\ store' \in [Ids -> [present : BOOLEAN, record : Record]]
         /\ issued' \subseteq Ids
         /\ rank' \in [Ids -> [level : 0 .. 2,
                               principal : PrincipalIds \cup {"NULL"}]]
         /\ RowsKeptOrGone
         /\ \A i \in issued : i \in issued' /\ rank'[i] = rank[i]
         /\ new \in issued'
         /\ rank'[new] = [level |-> Level(e), principal |-> e.principal]
  <1> DEFINE given == [level |-> Level(e), principal |-> e.principal]
  <1>1. /\ new \notin issued
        /\ issued' = issued \cup {new}
        /\ rank' = [rank EXCEPT ![new] = given]
        /\ store' = IF old = "NULL" THEN store
                    ELSE [store EXCEPT ![old] = NoRecord]
    BY Zenon DEF Issue, FreshId
  <1>2. Level(e) \in 0 .. 2 /\ e.principal \in PrincipalIds \cup {"NULL"}
    BY DEF Level, Envelope
  <1>3. given \in [level : 0 .. 2, principal : PrincipalIds \cup {"NULL"}]
    BY <1>2, Zenon
  <1> HIDE DEF given
  <1>4. /\ rank' \in [Ids -> [level : 0 .. 2,
                              principal : PrincipalIds \cup {"NULL"}]]
        /\ rank'[new] = given
        /\ \A i \in issued : i \in issued' /\ rank'[i] = rank[i]
        /\ issued' \subseteq Ids /\ new \in issued'
    BY <1>1, <1>3, Zenon DEF SessionTypeOK
  <1>5. NoRecord \in [present : BOOLEAN, record : Record]
    BY NullsTyped, Zenon DEF NoRecord
  <1>6. /\ store' \in [Ids -> [present : BOOLEAN, record : Record]]
        /\ RowsKeptOrGone
    BY <1>1, <1>5, Zenon DEF SessionTypeOK, RowsKeptOrGone
  <1> QED
    BY <1>4, <1>6, Zenon DEF given

(* What is loaded under a known id is right for that id.                   *)
LEMMA LoadFacts ==
  ASSUME SessionInv, NEW i \in Known
  PROVE  /\ i \in Ids /\ i # "NULL" /\ Load(i) \in Record
         /\ CopyOK(i, Load(i).envelope)
  <1>1. i \in Ids /\ store[i].present /\ i # "NULL"
    BY SessionAssumption, Zenon DEF SessionInv, SessionTypeOK, Known
  <1>2. Load(i) = store[i].record /\ store[i].record \in Record
    BY <1>1, Zenon DEF Load, SessionInv, SessionTypeOK
  <1>3. RowOK(i)
    BY <1>1, Zenon DEF SessionInv
  <1> QED
    BY <1>1, <1>2, <1>3, Zenon DEF RowOK

(* The flow a login binds.                                                 *)
LEMMA LoginKnownInv ==
  ASSUME SessionInv, NEW r \in Requests, NEW i \in Known,
         NEW t \in Transactions, NEW purpose \in {"LOGIN", "STEP_UP"},
         Login(r, i, t, purpose)
  PROVE  SessionInv'
  <1> DEFINE flow == [purpose |-> purpose, transaction |-> t,
                      principal |-> IF purpose = "LOGIN" THEN "NULL"
                                    ELSE Load(i).envelope.principal]
  <1>1. /\ i \in Ids /\ i # "NULL" /\ Load(i) \in Record
        /\ CopyOK(i, Load(i).envelope) /\ SessionTypeOK
    BY LoadFacts, Zenon DEF SessionInv
  <1>2. flow \in Flow
    BY <1>1, Zenon DEF Flow, Record, Envelope
  <1> HIDE DEF flow
  <1>3. PICK record : record = [Load(i) EXCEPT !.flow = flow]
    BY Zenon
  <1>4. record \in Record /\ record.envelope = Load(i).envelope
    BY <1>1, <1>2, <1>3, Zenon DEF Record
  <1>5. /\ Saving(r, i, record, "NO")
        /\ transactions' = [transactions EXCEPT ![t] = "OPEN"]
        /\ transactions[t] = "NONE"
        /\ UNCHANGED <<store, issued, rank, identities, now, completed, logins>>
    BY <1>1, <1>3, Zenon DEF Login, BeginAuthorization, flow, Saving
  <1>6. SessionTypeOK'
    <2>1. [pc |-> "SAVE", id |-> i, record |-> record, admitted |-> "NO"]
            \in InFlight
      BY <1>1, <1>4, SavedTyped, Zenon
    <2>2. inflight' \in [Requests -> InFlight]
      BY <1>1, <1>5, <2>1, Zenon DEF Saving, SessionTypeOK
    <2> QED
      BY <1>1, <1>5, <2>2, Zenon DEF SessionTypeOK
  <1>7. Onward
    BY <1>1, <1>5, LoginsUnchanged DEF SessionTypeOK
  <1>8. NoCompletion /\ RowsKeptOrGone
    BY <1>1, <1>5, Zenon DEF NoCompletion, RowsKeptOrGone, SessionTypeOK
  <1>9. CopyOK(i, record.envelope)'
    <2>1. record.envelope \in Envelope /\ CopyOK(i, record.envelope)
      BY <1>1, <1>4, Zenon DEF Record
    <2> QED
      BY <2>1, <1>1, <1>6, <1>7, CopyKept, Zenon
  <1>10. CopiesOK'
    BY <1>1, <1>4, <1>5, <1>6, <1>7, <1>8, <1>9, SavingStep, Zenon
  <1> QED
    BY <1>5, <1>6, <1>7, <1>10, HistoryKept, SessionInvParts, Zenon

(* The start of a login without a session keeps the invariant.             *)
LEMMA LoginNewInv ==
  ASSUME SessionInv, NEW r \in Requests, NEW t \in Transactions,
         NEW purpose \in {"LOGIN", "STEP_UP"}, Login(r, "NULL", t, purpose)
  PROVE  SessionInv'
  <1> DEFINE flow == [purpose |-> purpose, transaction |-> t,
                      principal |-> IF purpose = "LOGIN" THEN "NULL"
                                    ELSE Anonymous.envelope.principal]
             record == [Anonymous EXCEPT !.flow = flow]
  <1>1. SessionTypeOK /\ Load("NULL") = Anonymous
    BY Zenon DEF SessionInv, Load
  <1>2. flow \in Flow
    BY NullsTyped, Zenon DEF Flow, Record, Envelope
  <1> HIDE DEF flow
  <1>3. record \in Record /\ record.envelope = NoEnvelope
    BY <1>2, NullsTyped, Zenon DEF Record, Anonymous
  <1> HIDE DEF record
  <1>4. PICK new \in Ids : /\ Saving(r, new, record, "NO")
                           /\ Issue("NULL", new, NoEnvelope)
    BY <1>1, Zenon DEF Login, record, flow
  <1>5. /\ transactions' = [transactions EXCEPT ![t] = "OPEN"]
        /\ transactions[t] = "NONE"
        /\ UNCHANGED <<identities, now, completed, logins>>
    BY Zenon DEF Login, BeginAuthorization
  <1>6. /\ store' \in [Ids -> [present : BOOLEAN, record : Record]]
        /\ issued' \subseteq Ids
        /\ rank' \in [Ids -> [level : 0 .. 2,
                              principal : PrincipalIds \cup {"NULL"}]]
        /\ RowsKeptOrGone
        /\ \A i \in issued : i \in issued' /\ rank'[i] = rank[i]
        /\ new \in issued'
        /\ rank'[new] = [level |-> Level(NoEnvelope),
                         principal |-> NoEnvelope.principal]
    BY <1>1, <1>4, NullsTyped, IssueFacts
  <1>7. SessionTypeOK'
    <2>1. [pc |-> "SAVE", id |-> new, record |-> record, admitted |-> "NO"]
            \in InFlight
      BY <1>3, SavedTyped, Zenon
    <2>2. inflight' \in [Requests -> InFlight]
      BY <1>1, <1>4, <2>1, Zenon DEF Saving, SessionTypeOK
    <2> QED
      BY <1>1, <1>5, <1>6, <2>2, Zenon DEF SessionTypeOK
  <1>8. Onward
    BY <1>1, <1>5, <1>6 DEF Onward, SessionTypeOK, LoginRow
  <1>9. NoCompletion
    BY <1>1, <1>5, Zenon DEF NoCompletion, SessionTypeOK
  <1>10. CopyOK(new, record.envelope)'
    BY <1>3, <1>6, Zenon DEF CopyOK, EnvelopeOK
  <1>11. CopiesOK'
    BY <1>3, <1>4, <1>6, <1>7, <1>8, <1>9, <1>10, SavingStep, Zenon
  <1> QED
    BY <1>5, <1>7, <1>8, <1>11, HistoryKept, SessionInvParts, Zenon

(* The first half of a callback.                                           *)
LEMMA CallbackInv ==
  ASSUME SessionInv, NEW r \in Requests, NEW i \in Known,
         NEW t \in Transactions, Callback(r, i, t)
  PROVE  SessionInv'
  <1>1. PICK record : record = Load(i)
    BY Zenon
  <1>2. /\ i \in Ids /\ record \in Record
        /\ CopyOK(i, record.envelope) /\ SessionTypeOK
    BY <1>1, LoadFacts, Zenon DEF SessionInv
  <1> DEFINE copy == [Vacant EXCEPT !.pc = "EXCHANGE", !.id = i,
                                    !.record = record]
  <1>3. /\ inflight' = [inflight EXCEPT ![r] = copy]
        /\ record.flow.transaction = t
        /\ transactions[t] = "OPEN"
        /\ transactions' = [transactions EXCEPT ![t] = "GONE"]
        /\ UNCHANGED <<store, issued, identities, now, completed, logins, rank>>
    BY <1>1, Zenon DEF Callback, Consume
  <1>4. copy \in InFlight
    BY <1>2, NullsTyped, Zenon DEF InFlight
  <1>5. copy.pc = "EXCHANGE" /\ copy.id = i /\ copy.record = record
    BY Zenon DEF Vacant
  <1> HIDE DEF copy
  <1>6. /\ inflight'[r] = copy
        /\ \A q \in Requests \ {r} : inflight'[q] = inflight[q]
        /\ inflight' \in [Requests -> InFlight]
    BY <1>2, <1>3, <1>4, Zenon DEF SessionTypeOK
  <1>7. SessionTypeOK'
    BY <1>2, <1>3, <1>6, Zenon DEF SessionTypeOK
  <1>8. Onward
    BY <1>2, <1>3, LoginsUnchanged DEF SessionTypeOK
  <1>9. RequestCopyOK(r)'
    <2>1. record.envelope \in Envelope
      BY <1>2, Zenon DEF Record
    <2>2. CopyOK(i, record.envelope)'
      BY <2>1, <1>2, <1>7, <1>8, CopyKept, Zenon
    <2> QED
      BY <2>2, <1>5, <1>6, Zenon DEF RequestCopyOK, CopyOK, EnvelopeOK
  <1>10. \A q \in Requests : RequestCopyOK(q)'
    BY <1>6, <1>7, <1>8, <1>9, RequestKept, Zenon
  <1>11. \A j \in Ids : RowOK(j)'
    BY <1>3, <1>7, <1>8, RowKept, Zenon
  <1>12. completed[t] = 0
    BY <1>2, <1>3 DEF SessionInv, CompletedOK, SessionTypeOK
  <1>13. \A u \in Transactions : CompletedOK(u)'
    <2>1. \A u \in Transactions : completed[u] \in Nat /\ CompletedOK(u)
      BY Zenon DEF SessionInv, SessionTypeOK
    <2> QED
      BY <1>2, <1>3, <1>12, <2>1 DEF CompletedOK, SessionTypeOK
  <1>14. transactions'[t] = "GONE"
         /\ \A u \in Transactions \ {t} : transactions'[u] = transactions[u]
    BY <1>2, <1>3, Zenon DEF SessionTypeOK
  <1>15. \A q \in Requests : ExchangeOK(q)
    BY Zenon DEF SessionInv
  <1>16. \A q \in Requests \ {r} :
           inflight[q].pc = "EXCHANGE" =>
             inflight[q].record.flow.transaction # t
    BY <1>3, <1>15, Zenon DEF ExchangeOK
  <1>17. \A q \in Requests : ExchangeOK(q)'
    BY <1>3, <1>5, <1>6, <1>12, <1>14, <1>15, <1>16 DEF ExchangeOK
  <1>18. CopiesOK'
    BY <1>10, <1>11, <1>13, <1>17, Zenon DEF CopiesOK
  <1> QED
    BY <1>3, <1>7, <1>8, <1>18, HistoryKept, SessionInvParts, Zenon

(* A refused exchange keeps the copy and drops its flow.                   *)
LEMMA FlowDropped ==
  ASSUME SessionInv, NEW r \in Requests, inflight[r].pc = "EXCHANGE",
         Saving(r, inflight[r].id, [inflight[r].record EXCEPT !.flow = NoFlow],
                "NO"),
         UNCHANGED <<store, issued, transactions, identities, now, completed,
                     logins, rank>>
  PROVE  SessionInv'
  <1>1. PICK i, record : /\ i = inflight[r].id
                         /\ record = [inflight[r].record EXCEPT !.flow = NoFlow]
    BY Zenon
  <1>2. /\ inflight[r] \in InFlight /\ SessionTypeOK /\ RequestCopyOK(r)
    BY Zenon DEF SessionInv, SessionTypeOK
  <1>3. inflight[r].record \in Record
    BY <1>2, Zenon DEF InFlight
  <1>4. record \in Record /\ record.envelope = inflight[r].record.envelope
    BY <1>1, <1>3, NullsTyped, Zenon DEF Record
  <1>5. CopyOK(i, record.envelope) /\ i \in Ids
    BY <1>1, <1>2, <1>4, Zenon DEF RequestCopyOK, CopyOK, SessionTypeOK
  <1>6. Saving(r, i, record, "NO")
    BY <1>1, Zenon DEF Saving
  <1>7. SessionTypeOK'
    <2>1. [pc |-> "SAVE", id |-> i, record |-> record, admitted |-> "NO"]
            \in InFlight
      BY <1>4, <1>5, SavedTyped, Zenon
    <2>2. inflight' \in [Requests -> InFlight]
      BY <1>2, <1>6, <2>1, Zenon DEF Saving, SessionTypeOK
    <2> QED
      BY <1>2, <2>2, Zenon DEF SessionTypeOK
  <1>8. Onward
    BY <1>2, LoginsUnchanged DEF SessionTypeOK
  <1>9. NoCompletion /\ RowsKeptOrGone
    BY Zenon DEF NoCompletion, RowsKeptOrGone
  <1>10. CopyOK(i, record.envelope)'
    <2>1. record.envelope \in Envelope
      BY <1>4, Zenon DEF Record
    <2> QED
      BY <2>1, <1>2, <1>5, <1>7, <1>8, CopyKept, Zenon
  <1>11. CopiesOK'
    BY <1>4, <1>5, <1>6, <1>7, <1>8, <1>9, <1>10, SavingStep, Zenon
  <1> QED
    BY <1>7, <1>8, <1>11, HistoryKept, SessionInvParts, Zenon

(* Steps that only end a request or delete rows or a transaction, and the  *)
(* passing of time.                                                        *)
LEMMA QuietStep ==
  ASSUME SessionInv, UNCHANGED <<issued, identities, completed, logins, rank>>,
         now' \in Nat, now <= now', RowsKeptOrGone,
         store' \in [Ids -> [present : BOOLEAN, record : Record]],
         transactions' \in [Transactions -> {"NONE", "OPEN", "GONE"}],
         \A t \in Transactions :
           transactions[t] = "GONE" => transactions'[t] = "GONE",
         inflight' \in [Requests -> InFlight],
         \A r \in Requests :
           inflight'[r] = inflight[r] \/ inflight'[r] = Vacant
  PROVE  SessionInv'
  <1>1. SessionTypeOK
    BY Zenon DEF SessionInv
  <1>2. SessionTypeOK'
    BY <1>1, Zenon DEF SessionTypeOK
  <1>3. Onward
    BY <1>1, LoginsUnchanged, Zenon
  <1>4. NoCompletion
    BY Zenon DEF NoCompletion
  <1>5. CopiesOK'
    BY <1>2, <1>3, <1>4, EndingStep, Zenon
  <1> QED
    BY <1>2, <1>3, <1>5, HistoryKept, SessionInvParts, Zenon

(* The end of a request keeps the invariant.                               *)
LEMMA RequestOver ==
  ASSUME SessionInv, NEW r \in Requests,
         inflight' = [inflight EXCEPT ![r] = Vacant],
         UNCHANGED <<store, issued, transactions, identities, now, completed,
                     logins, rank>>
  PROVE  SessionInv'
  <1>1. SessionTypeOK
    BY Zenon DEF SessionInv
  <1>2. /\ inflight' \in [Requests -> InFlight]
        /\ \A q \in Requests :
             inflight'[q] = inflight[q] \/ inflight'[q] = Vacant
    BY <1>1, NullsTyped, Zenon DEF SessionTypeOK
  <1> QED
    BY <1>1, <1>2, QuietStep DEF SessionTypeOK, RowsKeptOrGone

(* logout keeps the invariant.                                             *)
LEMMA LogoutInv ==
  ASSUME SessionInv, NEW i \in Known, Logout(i)
  PROVE  SessionInv'
  <1>1. SessionTypeOK /\ NoRecord \in [present : BOOLEAN, record : Record]
    BY NullsTyped, Zenon DEF SessionInv, NoRecord
  <1>2. /\ store' \in [Ids -> [present : BOOLEAN, record : Record]]
        /\ RowsKeptOrGone
    BY <1>1, Zenon DEF Logout, SessionTypeOK, RowsKeptOrGone
  <1> QED
    BY <1>1, <1>2, QuietStep DEF Logout, SessionTypeOK

(* The passing of time keeps the invariant.                                *)
LEMMA TickInv ==
  ASSUME SessionInv, Tick
  PROVE  SessionInv'
  <1>1. SessionTypeOK
    BY Zenon DEF SessionInv
  <1>2. now' \in Nat /\ now <= now'
    BY <1>1 DEF Tick, SessionTypeOK
  <1> QED
    BY <1>1, <1>2, QuietStep, Zenon DEF Tick, SessionTypeOK, RowsKeptOrGone

(* The expiry of a transaction keeps the invariant.                        *)
LEMMA TransactionExpiresInv ==
  ASSUME SessionInv, NEW t \in Transactions, TransactionExpires(t)
  PROVE  SessionInv'
  <1>1. SessionTypeOK
    BY Zenon DEF SessionInv
  <1>2. /\ transactions' \in [Transactions -> {"NONE", "OPEN", "GONE"}]
        /\ \A u \in Transactions :
             transactions[u] = "GONE" => transactions'[u] = "GONE"
    BY <1>1, Zenon DEF TransactionExpires, SessionTypeOK
  <1> QED
    BY <1>1, <1>2, QuietStep
       DEF TransactionExpires, SessionTypeOK, RowsKeptOrGone

(* The end of a request writes the copy it holds.                          *)
LEMMA SaveInv ==
  ASSUME SessionInv, NEW r \in Requests, Save(r)
  PROVE  SessionInv'
  <1>1. PICK i, record : i = inflight[r].id /\ record = inflight[r].record
    BY Zenon
  <1>2. /\ inflight[r] \in InFlight /\ SessionTypeOK /\ RequestCopyOK(r)
        /\ inflight[r].pc = "SAVE"
    BY Zenon DEF SessionInv, SessionTypeOK, Save
  <1>3. record \in Record /\ CopyOK(i, record.envelope) /\ i \in Ids
    BY <1>1, <1>2, Zenon DEF InFlight, RequestCopyOK, CopyOK, SessionTypeOK
  <1> DEFINE row == [present |-> record # Anonymous, record |-> record]
  <1>4. row \in [present : BOOLEAN, record : Record]
    BY <1>3, Zenon
  <1>5. /\ row.present <=> record # Anonymous
        /\ row.record = record
    BY Zenon
  <1>6. /\ store' = [store EXCEPT ![i] = row]
        /\ inflight' = [inflight EXCEPT ![r] = Vacant]
        /\ UNCHANGED <<issued, transactions, identities, now, completed,
                       logins, rank>>
    BY <1>1, Zenon DEF Save
  <1> HIDE DEF row
  <1>7. /\ inflight' \in [Requests -> InFlight]
        /\ \A q \in Requests :
             inflight'[q] = inflight[q] \/ inflight'[q] = Vacant
        /\ store' \in [Ids -> [present : BOOLEAN, record : Record]]
        /\ store'[i] = row
        /\ \A j \in Ids \ {i} : store'[j] = store[j]
    BY <1>2, <1>3, <1>4, <1>6, NullsTyped, Zenon DEF SessionTypeOK
  <1>8. SessionTypeOK'
    BY <1>2, <1>6, <1>7, Zenon DEF SessionTypeOK
  <1>9. Onward
    BY <1>2, <1>6, LoginsUnchanged DEF SessionTypeOK
  <1>10. RowOK(i)'
    <2>1. record.envelope \in Envelope
      BY <1>3, Zenon DEF Record
    <2>2. CopyOK(i, record.envelope)'
      BY <2>1, <1>2, <1>3, <1>8, <1>9, CopyKept, Zenon
    <2> QED
      BY <2>2, <1>5, <1>7, Zenon DEF RowOK, CopyOK, EnvelopeOK
  <1>11. \A j \in Ids : RowOK(j)'
    BY <1>7, <1>8, <1>9, <1>10, RowKept, Zenon
  <1>12. \A q \in Requests : RequestCopyOK(q)'
    BY <1>7, <1>8, <1>9, RequestKept, Zenon
  <1>13. NoCompletion
    BY <1>6, Zenon DEF NoCompletion
  <1>14. \A q \in Requests :
           inflight'[q].pc = "EXCHANGE" => inflight'[q] = inflight[q]
    BY <1>7 DEF Vacant
  <1>15. CopiesOK'
    BY <1>11, <1>12, <1>13, <1>14, ExchangesKept, Zenon DEF CopiesOK
  <1> QED
    BY <1>6, <1>8, <1>9, <1>15, HistoryKept, SessionInvParts, Zenon

(* A session that has not expired has a login, with the limits of it.      *)
LEMMA LiveEnvelope ==
  ASSUME SessionInv, NEW e \in Envelope, EnvelopeOK(e), NotExpired(e)
  PROVE  /\ e.login \in Logins
         /\ logins[e.login] \in LoginRow
         /\ logins[e.login].account \in Accounts
         /\ e.principal \in PrincipalIds
         /\ e.principal = identities[logins[e.login].account]
         /\ e.until = logins[e.login].at + Absolute
         /\ e.last_seen <= logins[e.login].active
         /\ now < logins[e.login].at + Absolute
         /\ now < logins[e.login].active + Idle
         /\ e.step_up # 0 =>
              /\ logins[e.login].by # {}
              /\ e.step_up <= now + StepUp
              /\ e.step_up <= logins[e.login].auth_time + MaxAge + StepUp
  <1>1. e # NoEnvelope /\ now < e.until /\ now < e.last_seen + Idle
    BY DEF NotExpired, NoEnvelope
  <1> DEFINE l == e.login
  <1>2. /\ l \in Logins
        /\ logins[l].account \in Accounts
        /\ e.principal \in PrincipalIds
        /\ e.principal = identities[logins[l].account]
        /\ e.until = logins[l].at + Absolute
        /\ e.last_seen <= logins[l].active
        /\ e.step_up # 0 =>
             /\ logins[l].by # {}
             /\ e.step_up <= now + StepUp
             /\ e.step_up <= logins[l].auth_time + MaxAge + StepUp
    BY <1>1, Zenon DEF EnvelopeOK
  <1> HIDE DEF l
  <1>3. logins[l] \in LoginRow /\ now \in Nat
    BY <1>2, Zenon DEF SessionInv, SessionTypeOK
  <1>4. /\ logins[l].active \in Nat /\ e.last_seen \in Nat /\ Idle \in Nat
        /\ now < e.until
    BY <1>1, <1>3, SessionAssumption, Zenon DEF LoginRow, Envelope
  <1>5. now < logins[l].active + Idle
    BY <1>1, <1>2, <1>3, <1>4
  <1> QED
    BY <1>2, <1>3, <1>4, <1>5, Zenon DEF l

(* A request that is let in touches its session.                           *)
LEMMA AuthorizeInv ==
  ASSUME SessionInv, NEW r \in Requests, NEW i \in Known,
         NEW outcome \in {"NO", "PLAIN", "SENSITIVE"}, Authorize(r, i, outcome)
  PROVE  SessionInv'
  <1>1. PICK e, n : e = Load(i).envelope /\ n = now
    BY Zenon
  <1>2. /\ i \in Ids /\ Load(i) \in Record /\ CopyOK(i, e) /\ SessionTypeOK
        /\ e \in Envelope /\ EnvelopeOK(e) /\ NotExpired(e)
    BY <1>1, LoadFacts, Zenon DEF SessionInv, Record, CopyOK, Authorize
  <1> DEFINE l == e.login
             touched == [e EXCEPT !.last_seen = n]
  <1>3. /\ l \in Logins /\ logins[l] \in LoginRow /\ LoginOK(l)
        /\ n \in Nat
    BY <1>1, <1>2, LiveEnvelope, Zenon DEF SessionInv, SessionTypeOK
  <1>4. /\ touched \in Envelope /\ touched.login = l /\ touched.last_seen = n
        /\ touched.principal = e.principal /\ touched.until = e.until
        /\ touched.step_up = e.step_up
    BY <1>2, <1>3, Zenon DEF Envelope
  <1>5. PICK record : record = [Load(i) EXCEPT !.envelope = touched]
    BY Zenon
  <1>6. record \in Record /\ record.envelope = touched
    BY <1>2, <1>4, <1>5, Zenon DEF Record
  <1>7. /\ Saving(r, i, record, outcome)
        /\ logins' = [logins EXCEPT ![l].active = n]
        /\ UNCHANGED <<store, issued, transactions, identities, now, completed,
                       rank>>
    BY <1>1, <1>5, Zenon DEF Authorize, Touched, Saving
  <1>8. Level(touched) = Level(e)
    BY <1>4, Zenon DEF Level
  <1> HIDE DEF touched, l
  <1>9. /\ logins' \in [Logins -> LoginRow]
        /\ \A k \in Logins : /\ logins'[k].account = logins[k].account
                             /\ logins'[k].at = logins[k].at
                             /\ logins'[k].by = logins[k].by
                             /\ logins'[k].auth_time = logins[k].auth_time
        /\ logins'[l].active = n
        /\ \A k \in Logins \ {l} : logins'[k] = logins[k]
    BY <1>2, <1>3, <1>7, Zenon DEF SessionTypeOK, LoginRow
  <1>10. SessionTypeOK'
    <2>1. [pc |-> "SAVE", id |-> i, record |-> record, admitted |-> outcome]
            \in InFlight
      BY <1>2, <1>6, SavedTyped, Zenon
    <2>2. inflight' \in [Requests -> InFlight]
      BY <1>2, <1>7, <2>1, Zenon DEF Saving, SessionTypeOK
    <2> QED
      BY <1>2, <1>7, <1>9, <2>2, Zenon DEF SessionTypeOK
  <1>11. \A k \in Logins : logins[k].active \in Nat
                           /\ logins[k].active <= logins'[k].active
    BY <1>1, <1>2, <1>3, <1>9 DEF SessionTypeOK, LoginRow, LoginOK
  <1>12. Onward
    BY <1>2, <1>7, <1>9, <1>11 DEF Onward, SessionTypeOK
  <1>13. NoCompletion /\ RowsKeptOrGone
    BY <1>7, Zenon DEF NoCompletion, RowsKeptOrGone
  <1>14. CopyOK(i, touched)'
    <2>1. CopyOK(i, e)'
      BY <1>2, <1>10, <1>12, CopyKept, Zenon
    <2>2. e # NoEnvelope
      BY <1>2 DEF NotExpired, NoEnvelope
    <2>3. n <= logins'[l].active
      BY <1>3, <1>9
    <2>4. EnvelopeOK(touched)'
      BY <2>1, <2>2, <2>3, <1>4, Zenon DEF CopyOK, EnvelopeOK, l
    <2> QED
      BY <2>1, <2>4, <1>4, <1>8, Zenon DEF CopyOK
  <1>15. CopiesOK'
    <2>1. CopyOK(i, record.envelope)'
      BY <1>6, <1>14, Zenon
    <2> QED
      BY <1>2, <1>6, <1>7, <1>10, <1>12, <1>13, <2>1, SavingStep, Zenon
  <1>16. \A k \in Logins : LoginOK(k)'
    <2>1. \A k \in Logins : LoginOK(k)
      BY Zenon DEF SessionInv
    <2>2. logins[l].account # "NULL"
      BY <1>2, LiveEnvelope, SessionAssumption, Zenon DEF l
    <2> QED
      BY <1>1, <1>3, <1>7, <1>9, <2>1, <2>2 DEF LoginOK
  <1>17. OneAccountPerPrincipal'
    BY <1>7, Zenon DEF SessionInv, OneAccountPerPrincipal
  <1> QED
    BY <1>10, <1>15, <1>16, <1>17, SessionInvParts, Zenon

-----------------------------------------------------------------------------
(* The second half of a callback.                                          *)

(* The completion of a callback keeps what is known of the copies.         *)
LEMMA CompletionStep ==
  ASSUME SessionInv, SessionTypeOK', Onward, RowsKeptOrGone,
         NEW r \in Requests, NEW i \in Ids, NEW record \in Record,
         NEW admitted, Saving(r, i, record, admitted),
         CopyOK(i, record.envelope)', inflight[r].pc = "EXCHANGE",
         completed' = [completed EXCEPT
                         ![inflight[r].record.flow.transaction] = @ + 1],
         UNCHANGED transactions
  PROVE  CopiesOK'
  <1>1. inflight \in [Requests -> InFlight] /\ completed \in [Transactions -> Nat]
    BY Zenon DEF SessionInv, SessionTypeOK
  <1>2. /\ inflight'[r].pc = "SAVE" /\ inflight'[r].id = i
        /\ inflight'[r].record = record
        /\ \A q \in Requests \ {r} : inflight'[q] = inflight[q]
    BY <1>1, Zenon DEF Saving
  <1>3. RequestCopyOK(r)'
    BY <1>2, Zenon DEF RequestCopyOK, CopyOK, EnvelopeOK
  <1>4. \A q \in Requests : RequestCopyOK(q)'
    BY <1>2, <1>3, RequestKept, Zenon
  <1>5. \A j \in Ids : RowOK(j)'
    BY RowKept, Zenon DEF RowsKeptOrGone
  <1>6. PICK t : t = inflight[r].record.flow.transaction
    BY Zenon
  <1>7. /\ t \in Transactions /\ transactions[t] = "GONE" /\ completed[t] = 0
        /\ \A q \in Requests \ {r} :
             inflight[q].pc = "EXCHANGE" =>
               inflight[q].record.flow.transaction # t
    BY <1>6, Zenon DEF SessionInv, ExchangeOK
  <1>8. completed'[t] = 1
        /\ \A u \in Transactions \ {t} : completed'[u] = completed[u]
    BY <1>1, <1>6, <1>7
  <1>9. \A u \in Transactions : CompletedOK(u)'
    BY <1>7, <1>8 DEF SessionInv, CompletedOK
  <1>10. \A q \in Requests : ExchangeOK(q)
    BY Zenon DEF SessionInv
  <1>11. \A q \in Requests : ExchangeOK(q)'
    BY <1>2, <1>7, <1>8, <1>10 DEF ExchangeOK
  <1> QED
    BY <1>4, <1>5, <1>9, <1>11, Zenon DEF CopiesOK

(* Establishing a session keeps the invariant.                             *)
LEMMA EstablishInv ==
  ASSUME SessionInv, NEW r \in Requests, NEW a \in Accounts,
         NEW p \in PrincipalIds, NEW l \in Logins, NEW new \in Ids,
         Establish(r, a, p, l, new)
  PROVE  SessionInv'
  <1>1. PICK n, old : n = now /\ old = inflight[r].id
    BY Zenon
  <1> DEFINE e == [principal |-> p, login |-> l, last_seen |-> n,
                   until |-> n + Absolute, step_up |-> 0]
             record == [flow |-> NoFlow, envelope |-> e]
             row == [NoLogin EXCEPT !.account = a, !.at = n, !.active = n]
  <1>2. /\ inflight[r].pc = "EXCHANGE"
        /\ logins[l] = NoLogin
        /\ UpsertVerifiedIdentity(a, p)
        /\ Issue(old, new, e)
        /\ Saving(r, new, record, "NO")
        /\ logins' = [logins EXCEPT ![l] = row]
        /\ completed' = [completed EXCEPT
                           ![inflight[r].record.flow.transaction] = @ + 1]
        /\ UNCHANGED <<transactions, now>>
    BY <1>1, Zenon DEF Establish, Issue, Saving
  <1>3. /\ SessionTypeOK /\ n \in Nat /\ old \in Ids /\ Absolute \in Nat
        /\ inflight[r].record.flow.transaction \in Transactions
        /\ "NULL" \notin Accounts /\ "NULL" \notin PrincipalIds
    BY <1>1, <1>2, SessionAssumption, Zenon
       DEF SessionInv, SessionTypeOK, RequestCopyOK, CopyOK, ExchangeOK
  <1>4. /\ e \in Envelope /\ e.principal = p /\ e.login = l /\ e.last_seen = n
        /\ e.until = n + Absolute /\ e.step_up = 0
    BY <1>3 DEF Envelope
  <1>5. /\ row \in LoginRow /\ row.account = a /\ row.at = n /\ row.active = n
        /\ row.by = {}
    BY <1>3, NullsTyped, Zenon DEF LoginRow, NoLogin
  <1> HIDE DEF e, row
  <1>6. record \in Record /\ record.envelope = e
    BY <1>4, NullsTyped, Zenon DEF Record
  <1> HIDE DEF record
  <1>7. /\ store' \in [Ids -> [present : BOOLEAN, record : Record]]
        /\ issued' \subseteq Ids
        /\ rank' \in [Ids -> [level : 0 .. 2,
                              principal : PrincipalIds \cup {"NULL"}]]
        /\ RowsKeptOrGone
        /\ \A i \in issued : i \in issued' /\ rank'[i] = rank[i]
        /\ new \in issued'
        /\ rank'[new] = [level |-> Level(e), principal |-> e.principal]
    BY <1>2, <1>3, <1>4, IssueFacts, Zenon
  <1>8. /\ identities' = [identities EXCEPT ![a] = p]
        /\ identities[a] = "NULL" => \A b \in Accounts : identities[b] # p
        /\ identities[a] # "NULL" => p = identities[a]
    BY <1>2, Zenon DEF UpsertVerifiedIdentity
  <1>9. /\ identities' \in [Accounts -> PrincipalIds \cup {"NULL"}]
        /\ identities'[a] = p
        /\ \A b \in Accounts : identities[b] # "NULL"
                                 => identities'[b] = identities[b]
        /\ \A b \in Accounts \ {a} : identities'[b] = identities[b]
    BY <1>3, <1>8, Zenon DEF SessionTypeOK
  <1>10. /\ logins' \in [Logins -> LoginRow] /\ logins'[l] = row
         /\ \A k \in Logins \ {l} : logins'[k] = logins[k]
    BY <1>2, <1>3, <1>5, Zenon DEF SessionTypeOK
  <1>11. SessionTypeOK'
    <2>1. [pc |-> "SAVE", id |-> new, record |-> record, admitted |-> "NO"]
            \in InFlight
      BY <1>6, SavedTyped, Zenon
    <2>2. inflight' \in [Requests -> InFlight]
      BY <1>2, <1>3, <2>1, Zenon DEF Saving, SessionTypeOK
    <2>3. completed' \in [Transactions -> Nat]
      BY <1>2, <1>3 DEF SessionTypeOK
    <2> QED
      BY <1>2, <1>3, <1>7, <1>9, <1>10, <2>2, <2>3, Zenon DEF SessionTypeOK
  <1>12. logins[l].account = "NULL"
    BY <1>2 DEF NoLogin
  <1>13. Onward
    <2>1. \A k \in Logins : logins[k].active \in Nat
      BY <1>3, Zenon DEF SessionTypeOK, LoginRow
    <2>2. now' \in Nat /\ now <= now'
      BY <1>2, <1>3 DEF SessionTypeOK
    <2>3. ASSUME NEW k \in Logins, logins[k].account \in Accounts
          PROVE  /\ logins'[k] = logins[k]
                 /\ logins[k].active <= logins'[k].active
      <3>1. k # l
        BY <1>12, <2>3, SessionAssumption, Zenon DEF SessionAssumption
      <3> QED
        BY <1>10, <2>1, <3>1
    <2>4. \A i \in issued : i \in issued' /\ rank'[i] = rank[i]
      BY <1>7, Zenon
    <2> QED
      BY <1>9, <2>2, <2>3, <2>4, Zenon DEF Onward
  <1>14. CopyOK(new, record.envelope)'
    <2>1. EnvelopeOK(e)'
      BY <1>3, <1>4, <1>5, <1>9, <1>10 DEF EnvelopeOK
    <2> QED
      BY <2>1, <1>6, <1>7, Zenon DEF CopyOK
  <1>15. CopiesOK'
    BY <1>2, <1>6, <1>7, <1>11, <1>13, <1>14, CompletionStep, Zenon
  <1>16. \A k \in Logins : LoginOK(k)'
    <2>1. LoginOK(l)'
      BY <1>1, <1>2, <1>3, <1>5, <1>9, <1>10 DEF LoginOK
    <2>2. ASSUME NEW k \in Logins \ {l} PROVE LoginOK(k)'
      <3>1. LoginOK(k) /\ logins'[k] = logins[k] /\ logins[k] \in LoginRow
        BY <2>2, <1>3, <1>10, Zenon DEF SessionInv, SessionTypeOK
      <3>2. logins[k].account \in Accounts \cup {"NULL"}
        BY <3>1, Zenon DEF LoginRow
      <3> QED
        BY <3>1, <3>2, <1>2, <1>9, Zenon DEF LoginOK
    <2> QED
      BY <2>1, <2>2, Zenon
  <1>17. OneAccountPerPrincipal'
    BY <1>3, <1>8, <1>9 DEF SessionInv, OneAccountPerPrincipal
  <1> QED
    BY <1>11, <1>15, <1>16, <1>17, SessionInvParts, Zenon

(* Recording a verified step-up keeps the invariant.                       *)
LEMMA RecordVerifiedStepUpInv ==
  ASSUME SessionInv, NEW r \in Requests, NEW a \in Accounts,
         NEW auth_time \in 0 .. now, NEW new \in Ids,
         RecordVerifiedStepUp(r, a, auth_time, new)
  PROVE  SessionInv'
  <1>1. PICK n, old, e : /\ n = now /\ old = inflight[r].id
                         /\ e = inflight[r].record.envelope
    BY Zenon
  <1> DEFINE l == e.login
             until == n + StepUp
             raised == [e EXCEPT !.step_up = until, !.last_seen = n]
             record == [flow |-> NoFlow, envelope |-> raised]
  <1>2. /\ inflight[r].pc = "EXCHANGE"
        /\ identities[a] = e.principal
        /\ auth_time <= n /\ n <= auth_time + MaxAge
        /\ NotExpired(e)
        /\ Issue(old, new, raised)
        /\ Saving(r, new, record, "NO")
        /\ logins' = [logins EXCEPT ![l].active = n, ![l].auth_time = auth_time,
                                    ![l].by = @ \cup {a}]
        /\ completed' = [completed EXCEPT
                           ![inflight[r].record.flow.transaction] = @ + 1]
        /\ UNCHANGED <<transactions, identities, now>>
    BY <1>1, Zenon
       DEF RecordVerifiedStepUp, SameActor, VerifyStepUp, Issue, Saving
  <1>3. /\ SessionTypeOK /\ n \in Nat /\ old \in Ids
        /\ StepUp \in Nat /\ StepUp # 0 /\ MaxAge \in Nat /\ auth_time \in Nat
        /\ inflight[r].record.flow.transaction \in Transactions
        /\ inflight[r].record \in Record /\ CopyOK(old, e)
        /\ "NULL" \notin Accounts /\ "NULL" \notin PrincipalIds
    <2>1. SessionTypeOK /\ n \in Nat /\ inflight[r] \in InFlight
      BY <1>1, Zenon DEF SessionInv, SessionTypeOK
    <2>2. CopyOK(old, e)
      BY <1>1, <1>2, Zenon DEF SessionInv, RequestCopyOK
    <2>3. old \in Ids
      BY <2>1, <2>2, Zenon DEF CopyOK, SessionTypeOK
    <2>4. inflight[r].record.flow.transaction \in Transactions
      BY <1>2, Zenon DEF SessionInv, ExchangeOK
    <2>5. inflight[r].record \in Record
      BY <2>1, Zenon DEF InFlight
    <2>6. auth_time \in Nat
      BY <1>1, <2>1
    <2> QED
      BY <2>1, <2>2, <2>3, <2>4, <2>5, <2>6, SessionAssumption, Zenon
  <1>4. e \in Envelope /\ EnvelopeOK(e)
    BY <1>1, <1>3, Zenon DEF Record, CopyOK
  <1>5. /\ l \in Logins /\ logins[l] \in LoginRow
        /\ logins[l].account \in Accounts
        /\ e.principal \in PrincipalIds
        /\ e.principal = identities[logins[l].account]
        /\ e.until = logins[l].at + Absolute
    BY <1>2, <1>4, LiveEnvelope, Zenon
  <1>6. a = logins[l].account
    BY <1>2, <1>3, <1>5, Zenon DEF SessionInv, OneAccountPerPrincipal
  <1>7. /\ raised \in Envelope /\ raised.login = l /\ raised.last_seen = n
        /\ raised.principal = e.principal /\ raised.until = e.until
        /\ raised.step_up = until
    <2>1. until \in Nat
      BY <1>3
    <2> HIDE DEF until
    <2> QED
      BY <2>1, <1>3, <1>4, Zenon DEF Envelope
  <1> HIDE DEF raised, l
  <1>8. record \in Record /\ record.envelope = raised
    BY <1>7, NullsTyped, Zenon DEF Record
  <1> HIDE DEF record
  <1>9. /\ store' \in [Ids -> [present : BOOLEAN, record : Record]]
        /\ issued' \subseteq Ids
        /\ rank' \in [Ids -> [level : 0 .. 2,
                              principal : PrincipalIds \cup {"NULL"}]]
        /\ RowsKeptOrGone
        /\ \A i \in issued : i \in issued' /\ rank'[i] = rank[i]
        /\ new \in issued'
        /\ rank'[new] = [level |-> Level(raised), principal |-> raised.principal]
    BY <1>2, <1>3, <1>7, IssueFacts, Zenon
  <1>10. /\ logins' \in [Logins -> LoginRow]
         /\ logins'[l].account = logins[l].account
         /\ logins'[l].at = logins[l].at
         /\ logins'[l].active = n /\ logins'[l].auth_time = auth_time
         /\ logins'[l].by = logins[l].by \cup {a}
         /\ \A k \in Logins \ {l} : logins'[k] = logins[k]
    BY <1>2, <1>3, <1>5, Zenon DEF SessionTypeOK, LoginRow
  <1>11. SessionTypeOK'
    <2>1. [pc |-> "SAVE", id |-> new, record |-> record, admitted |-> "NO"]
            \in InFlight
      BY <1>8, SavedTyped, Zenon
    <2>2. inflight' \in [Requests -> InFlight]
      BY <1>2, <1>3, <2>1, Zenon DEF Saving, SessionTypeOK
    <2>3. completed' \in [Transactions -> Nat]
      BY <1>2, <1>3 DEF SessionTypeOK
    <2> QED
      BY <1>2, <1>3, <1>9, <1>10, <2>2, <2>3, Zenon DEF SessionTypeOK
  <1>12. \A k \in Logins : /\ logins[k].active \in Nat
                           /\ LoginOK(k)
    BY <1>3, Zenon DEF SessionInv, SessionTypeOK, LoginRow
  <1>13. Onward
    <2>1. logins[l].active <= n
      BY <1>1, <1>5, <1>12, Zenon DEF LoginOK
    <2>2. \A k \in Logins :
            /\ logins'[k].account = logins[k].account
            /\ logins'[k].at = logins[k].at
            /\ logins[k].active <= logins'[k].active
            /\ logins[k].by \subseteq logins'[k].by
            /\ \/ logins'[k].auth_time = logins[k].auth_time
               \/ now <= logins'[k].auth_time + MaxAge
      BY <1>1, <1>2, <1>10, <1>12, <2>1
    <2> QED
      BY <1>2, <1>3, <1>9, <2>2 DEF Onward, SessionTypeOK
  <1>14. CopyOK(new, record.envelope)'
    <2>1. n <= logins'[l].active /\ now' = n
      BY <1>1, <1>2, <1>3, <1>10
    <2>2. /\ until <= now' + StepUp
          /\ until <= logins'[l].auth_time + MaxAge + StepUp
          /\ logins'[l].by # {}
      BY <2>1, <1>2, <1>3, <1>10
    <2> HIDE DEF until
    <2>3. EnvelopeOK(raised)'
      BY <2>1, <2>2, <1>2, <1>3, <1>5, <1>7, <1>10, Zenon DEF EnvelopeOK
    <2> QED
      BY <2>3, <1>8, <1>9, Zenon DEF CopyOK
  <1>15. CopiesOK'
    BY <1>2, <1>8, <1>9, <1>11, <1>13, <1>14, CompletionStep, Zenon
  <1>16. \A k \in Logins : LoginOK(k)'
    <2>1. LoginOK(l)'
      BY <1>1, <1>2, <1>3, <1>5, <1>6, <1>10, <1>12 DEF LoginOK
    <2>2. \A k \in Logins \ {l} : LoginOK(k)'
      BY <1>2, <1>10, <1>12, Zenon DEF LoginOK
    <2> QED
      BY <2>1, <2>2, Zenon
  <1>17. OneAccountPerPrincipal'
    BY <1>2, Zenon DEF SessionInv, OneAccountPerPrincipal
  <1> QED
    BY <1>11, <1>15, <1>16, <1>17, SessionInvParts, Zenon

(* Every step keeps the invariant.                                         *)
LEMMA SessionNextInv ==
  SessionInv /\ [SessionNext]_sessionVars => SessionInv'
  <1> SUFFICES ASSUME SessionInv, [SessionNext]_sessionVars
               PROVE  SessionInv'
    BY Zenon
  <1>1. ASSUME NEW r \in Requests, NEW i \in Known \cup {"NULL"},
               NEW t \in Transactions, NEW purpose \in {"LOGIN", "STEP_UP"},
               Login(r, i, t, purpose)
        PROVE  SessionInv'
    BY <1>1, LoginKnownInv, LoginNewInv, Zenon
  <1>2. ASSUME NEW r \in Requests, NEW i \in Known, NEW t \in Transactions,
               Callback(r, i, t)
        PROVE  SessionInv'
    BY <1>2, CallbackInv, Zenon
  <1>3. ASSUME NEW r \in Requests, NEW i \in Known,
               NEW outcome \in {"NO", "PLAIN", "SENSITIVE"},
               Authorize(r, i, outcome)
        PROVE  SessionInv'
    BY <1>3, AuthorizeInv, Zenon
  <1>4. ASSUME NEW r \in Requests, NEW a \in Accounts, NEW new \in Ids,
               NEW p \in PrincipalIds, NEW l \in Logins,
               Establish(r, a, p, l, new)
        PROVE  SessionInv'
    BY <1>4, EstablishInv, Zenon
  <1>5. ASSUME NEW r \in Requests, NEW a \in Accounts, NEW new \in Ids,
               NEW auth_time \in 0 .. now,
               RecordVerifiedStepUp(r, a, auth_time, new)
        PROVE  SessionInv'
    BY <1>5, RecordVerifiedStepUpInv, Zenon
  <1>6. ASSUME NEW r \in Requests, NEW a \in Accounts, StepUpRefused(r, a)
        PROVE  SessionInv'
    BY <1>6, FlowDropped, Zenon DEF StepUpRefused
  <1>7. ASSUME NEW r \in Requests, ExchangeRefused(r) PROVE SessionInv'
    BY <1>7, FlowDropped, Zenon DEF ExchangeRefused
  <1>8. ASSUME NEW r \in Requests, ExchangeFails(r) PROVE SessionInv'
    BY <1>8, RequestOver, Zenon DEF ExchangeFails
  <1>9. ASSUME NEW r \in Requests, Save(r) PROVE SessionInv'
    BY <1>9, SaveInv, Zenon
  <1>10. ASSUME NEW r \in Requests, SaveLost(r) PROVE SessionInv'
    BY <1>10, RequestOver, Zenon DEF SaveLost
  <1>11. ASSUME NEW i \in Known, Logout(i) PROVE SessionInv'
    BY <1>11, LogoutInv, Zenon
  <1>12. ASSUME NEW t \in Transactions, TransactionExpires(t) PROVE SessionInv'
    BY <1>12, TransactionExpiresInv, Zenon
  <1>13. CASE Tick
    BY <1>13, TickInv, Zenon
  <1>14. CASE UNCHANGED sessionVars
    <2>1. SessionTypeOK
      BY Zenon DEF SessionInv
    <2> QED
      BY <2>1, <1>14, QuietStep DEF sessionVars, SessionTypeOK, RowsKeptOrGone
  <1> QED
    BY <1>1, <1>2, <1>3, <1>4, <1>5, <1>6, <1>7, <1>8, <1>9, <1>10, <1>11,
       <1>12, <1>13, <1>14, Zenon DEF SessionNext

(* The invariant of the sessions, in every reachable state.                *)
THEOREM SessionInvariant == SessionSpec => []SessionInv
  BY SessionInitInv, SessionNextInv, PTL DEF SessionSpec

-----------------------------------------------------------------------------
(* Sessions: results.                                                      *)

(* Concurrent callbacks with the same state included, a transaction ends   *)
(* in one login or one step-up at most (complete_callback_inner).          *)
THEOREM ACallbackIsUsedOnce == SessionSpec => []CallbackUsedOnce
  <1>1. SessionInv => CallbackUsedOnce
    BY DEF SessionInv, SessionTypeOK, CompletedOK, CallbackUsedOnce
  <1> QED
    BY <1>1, SessionInvariant, PTL

(* An id keeps the level and the principal it was issued with, whatever    *)
(* copies of its record are saved late (cycle_id).                         *)
THEOREM AnIdKeepsItsRank == SessionSpec => []IdsKeepTheirRank
  <1>1. SessionInv => IdsKeepTheirRank
    BY Zenon DEF SessionInv, RowOK, CopyOK, IdsKeepTheirRank
  <1> QED
    BY <1>1, SessionInvariant, PTL

(* Only the account that opened a session steps it up (callback,           *)
(* record_verified_step_up).                                               *)
THEOREM StepUpsAreByTheAccount == SessionSpec => []StepUpByItsAccount
  <1>1. SessionInv => StepUpByItsAccount
    BY Zenon DEF SessionInv, LoginOK, StepUpByItsAccount
  <1> QED
    BY <1>1, SessionInvariant, PTL

(* Requests are let in by authorize_current alone.                         *)
LEMMA AdmissionIsAuthorize ==
  ASSUME SessionInv, [SessionNext]_sessionVars, NEW r \in Requests,
         Admits(r, {"PLAIN", "SENSITIVE"})
  PROVE  \E i \in Known, outcome \in {"NO", "PLAIN", "SENSITIVE"} :
           Authorize(r, i, outcome) /\ inflight'[r].admitted = outcome
  <1>1. inflight \in [Requests -> InFlight]
    BY Zenon DEF SessionInv, SessionTypeOK
  <1>2. inflight[r].admitted = "NO" /\ inflight'[r].admitted # "NO"
    BY Zenon DEF Admits
  <1>3. ~ UNCHANGED inflight
    BY <1>2, Zenon
  <1>4. ASSUME NEW q \in Requests, NEW copy, copy.admitted = "NO",
               inflight' = [inflight EXCEPT ![q] = copy]
        PROVE  FALSE
    BY <1>1, <1>2, <1>4, Zenon
  <1>5. ASSUME NEW q \in Requests, NEW i, NEW record, Saving(q, i, record, "NO")
        PROVE  FALSE
    <2> DEFINE copy == [pc |-> "SAVE", id |-> i, record |-> record,
                        admitted |-> "NO"]
    <2>1. inflight' = [inflight EXCEPT ![q] = copy] /\ copy.admitted = "NO"
      BY <1>5, Zenon DEF Saving
    <2> HIDE DEF copy
    <2> QED
      BY <2>1, <1>4, Zenon
  <1>6. ASSUME NEW q \in Requests,
               \E i, record : Saving(q, i, record, "NO")
        PROVE  FALSE
    BY <1>5, <1>6, Zenon
  <1>7. ASSUME NEW q \in Requests, ExchangeFails(q) \/ Save(q) \/ SaveLost(q)
        PROVE  FALSE
    <2>1. inflight' = [inflight EXCEPT ![q] = Vacant] /\ Vacant.admitted = "NO"
      BY <1>7, Zenon DEF ExchangeFails, Save, SaveLost, Vacant
    <2> QED
      BY <2>1, <1>4, Zenon
  <1>8. ASSUME NEW q \in Requests, NEW i, NEW t, Callback(q, i, t)
        PROVE  FALSE
    <2>1. inflight'[q].admitted = "NO"
      BY <1>1, <1>8, Zenon DEF Callback, Vacant
    <2>2. \A p \in Requests \ {q} : inflight'[p] = inflight[p]
      BY <1>1, <1>8, Zenon DEF Callback
    <2> QED
      BY <1>2, <2>1, <2>2, Zenon
  <1>9. ASSUME NEW q \in Requests, NEW i \in Known,
               NEW outcome \in {"NO", "PLAIN", "SENSITIVE"},
               Authorize(q, i, outcome)
        PROVE  q = r /\ inflight'[r].admitted = outcome
    BY <1>1, <1>2, <1>9, Zenon DEF Authorize, Saving
  <1>10. SessionNext
    BY <1>3, Zenon DEF sessionVars
  <1>11. /\ ~ Tick
         /\ ~ \E i \in Known : Logout(i)
         /\ ~ \E t \in Transactions : TransactionExpires(t)
    BY <1>3, Zenon DEF Tick, Logout, TransactionExpires
  <1>12. ASSUME NEW q \in Requests, NEW i \in Known \cup {"NULL"},
                NEW t \in Transactions, NEW purpose \in {"LOGIN", "STEP_UP"},
                Login(q, i, t, purpose)
         PROVE  FALSE
    BY <1>6, <1>12, Zenon DEF Login
  <1>13. ASSUME NEW q \in Requests, NEW a \in Accounts, NEW new \in Ids,
                NEW p \in PrincipalIds, NEW l \in Logins,
                Establish(q, a, p, l, new)
         PROVE  FALSE
    BY <1>6, <1>13, Zenon DEF Establish
  <1>14. ASSUME NEW q \in Requests, NEW a \in Accounts, NEW new \in Ids,
                NEW auth_time \in 0 .. now,
                RecordVerifiedStepUp(q, a, auth_time, new)
         PROVE  FALSE
    BY <1>6, <1>14, Zenon DEF RecordVerifiedStepUp
  <1>15. ASSUME NEW q \in Requests, NEW a \in Accounts, StepUpRefused(q, a)
         PROVE  FALSE
    BY <1>6, <1>15, Zenon DEF StepUpRefused
  <1>16. ASSUME NEW q \in Requests, ExchangeRefused(q) PROVE FALSE
    BY <1>6, <1>16, Zenon DEF ExchangeRefused
  <1> QED
    BY <1>7, <1>8, <1>9, <1>10, <1>11, <1>12, <1>13, <1>14, <1>15, <1>16, Zenon
       DEF SessionNext

(* An admitted request carries the envelope that its id names.             *)
LEMMA AdmittedEnvelope ==
  ASSUME SessionInv, NEW r \in Requests, NEW i \in Known, NEW outcome,
         Authorize(r, i, outcome)
  PROVE  \E e \in Envelope :
           /\ e = Load(i).envelope /\ EnvelopeOK(e) /\ NotExpired(e)
           /\ LoginOf(r) = logins[e.login]
  <1>1. PICK e : e = Load(i).envelope
    BY Zenon
  <1>2. /\ Load(i) \in Record /\ e \in Envelope /\ EnvelopeOK(e)
        /\ NotExpired(e)
    BY <1>1, LoadFacts, Zenon DEF Record, CopyOK, Authorize
  <1>3. inflight \in [Requests -> InFlight]
    BY Zenon DEF SessionInv, SessionTypeOK
  <1>4. inflight'[r].record = [Load(i) EXCEPT !.envelope = Touched(e)]
    BY <1>1, <1>3, Zenon DEF Authorize, Saving
  <1>5. inflight'[r].record.envelope = Touched(e)
    BY <1>2, <1>4, Zenon DEF Record
  <1>6. Touched(e).login = e.login
    BY <1>2, Zenon DEF Touched, Envelope
  <1> QED
    BY <1>1, <1>2, <1>5, <1>6, Zenon DEF LoginOf

(* No chain of touches, step-ups and late saves lets a request in beyond   *)
(* the limits of its login (ensure_not_expired, touch_authenticated).      *)
THEOREM SessionsEndInTime == SessionSpec => SessionsEnd
  <1>1. SessionInv /\ [SessionNext]_sessionVars =>
          [\A r \in Requests :
             Admits(r, {"PLAIN", "SENSITIVE"}) =>
               /\ now < LoginOf(r).at + Absolute
               /\ now < LoginOf(r).active + Idle]_sessionVars
    <2> SUFFICES ASSUME SessionInv, [SessionNext]_sessionVars,
                        NEW r \in Requests, Admits(r, {"PLAIN", "SENSITIVE"})
                 PROVE  /\ now < LoginOf(r).at + Absolute
                        /\ now < LoginOf(r).active + Idle
      BY Zenon
    <2>1. PICK i \in Known, outcome \in {"NO", "PLAIN", "SENSITIVE"} :
            Authorize(r, i, outcome)
      BY AdmissionIsAuthorize, Zenon
    <2>2. PICK e \in Envelope : /\ EnvelopeOK(e) /\ NotExpired(e)
                                /\ LoginOf(r) = logins[e.login]
      BY <2>1, AdmittedEnvelope, Zenon
    <2> QED
      BY <2>2, LiveEnvelope, Zenon
  <1> QED
    BY <1>1, SessionInvariant, PTL DEF SessionSpec, SessionsEnd

(* A sensitive action is let in only soon after a sign-in that the         *)
(* provider attested (evaluate_one, verify_step_up_claims).                *)
THEOREM StepUpsAreFresh == SessionSpec => StepUpIsFresh
  <1>1. SessionInv /\ [SessionNext]_sessionVars =>
          [\A r \in Requests :
             Admits(r, {"SENSITIVE"}) =>
               /\ LoginOf(r).by # {}
               /\ now < LoginOf(r).auth_time + MaxAge + StepUp]_sessionVars
    <2> SUFFICES ASSUME SessionInv, [SessionNext]_sessionVars,
                        NEW r \in Requests, Admits(r, {"SENSITIVE"})
                 PROVE  /\ LoginOf(r).by # {}
                        /\ now < LoginOf(r).auth_time + MaxAge + StepUp
      BY Zenon
    <2>1. /\ Admits(r, {"PLAIN", "SENSITIVE"})
          /\ inflight'[r].admitted = "SENSITIVE"
      BY Zenon DEF Admits
    <2>2. PICK i \in Known : Authorize(r, i, "SENSITIVE")
      BY <2>1, AdmissionIsAuthorize, Zenon
    <2>3. PICK e \in Envelope : /\ e = Load(i).envelope
                                /\ EnvelopeOK(e) /\ NotExpired(e)
                                /\ LoginOf(r) = logins[e.login]
      BY <2>2, AdmittedEnvelope, Zenon
    <2>4. now < e.step_up
      BY <2>2, <2>3, Zenon DEF Authorize, StepUpHeld
    <2>5. /\ now \in Nat /\ e.step_up \in Nat /\ MaxAge \in Nat
          /\ StepUp \in Nat
      BY SessionAssumption, Zenon DEF SessionInv, SessionTypeOK, Envelope
    <2>6. /\ logins[e.login] \in LoginRow /\ logins[e.login].by # {}
          /\ e.step_up <= logins[e.login].auth_time + MaxAge + StepUp
      BY <2>3, <2>4, <2>5, LiveEnvelope
    <2>7. logins[e.login].auth_time \in Nat
      BY <2>6, Zenon DEF LoginRow
    <2> QED
      BY <2>3, <2>4, <2>5, <2>6, <2>7
  <1> QED
    BY <1>1, SessionInvariant, PTL DEF SessionSpec, StepUpIsFresh

=============================================================================
