------------------------------ MODULE Sessions ------------------------------
(***************************************************************************)
(* Browser sessions and login (host-api/src/auth/session.rs, router.rs and *)
(* gate.rs, identity-oidc/src/lib.rs).  A request works on a copy of the   *)
(* session record that it loads once and saves when it ends; the session   *)
(* store (tower-sessions) is external.  What takes time lies between: the  *)
(* exchange of a code with the identity provider, and the save.  Requests  *)
(* of one browser overlap and may carry an id that was replaced meanwhile. *)
(*                                                                         *)
(* The membership a request is admitted under is the subject of            *)
(* Memberships.                                                            *)
(***************************************************************************)
EXTENDS Naturals, FiniteSets

CONSTANTS
  Ids,          \* session ids
  Transactions, \* login transactions
  Requests,     \* requests in flight
  Logins,       \* completed logins
  Accounts,     \* subjects at the identity provider
  PrincipalIds, \* principals in oidc_identities
  Idle,         \* idle_timeout
  Absolute,     \* absolute_timeout
  StepUp,       \* step_up_timeout
  MaxAge,       \* step_up_max_age_seconds and step_up_clock_skew_seconds
  MaxTime

ASSUME SessionAssumption ==
  /\ {Idle, Absolute, StepUp} \subseteq Nat \ {0}
  /\ MaxAge \in Nat
  /\ "NULL" \notin Accounts \cup PrincipalIds \cup Transactions
                   \cup Logins \cup Ids

VARIABLES
  store,        \* the session table
  issued,       \* ids a browser has been given
  transactions, \* oidc_auth_transactions
  identities,   \* oidc_identities: the principal of an account
  inflight,     \* the copy of the record that each request works on
  now,
  completed,    \* history: how often a transaction ended in a login or step-up
  logins,       \* history: of each login, its time and what happened since
  rank          \* history: the rights an id was issued with

sessionVars == <<store, issued, transactions, identities, inflight, now,
                 completed, logins, rank>>

NoFlow == [purpose |-> "NONE", transaction |-> "NULL", principal |-> "NULL"]

NoEnvelope == [principal |-> "NULL", login |-> "NULL", last_seen |-> 0,
               until |-> 0, step_up |-> 0]

Anonymous == [flow |-> NoFlow, envelope |-> NoEnvelope]

NoRecord == [present |-> FALSE, record |-> Anonymous]

Vacant == [pc |-> "NONE", id |-> "NULL", record |-> Anonymous,
           admitted |-> "NO"]

NoLogin == [account |-> "NULL", at |-> 0, active |-> 0, auth_time |-> 0,
            by |-> {}]

SessionInit ==
  /\ store = [i \in Ids |-> NoRecord]
  /\ issued = {}
  /\ transactions = [t \in Transactions |-> "NONE"]
  /\ identities = [a \in Accounts |-> "NULL"]
  /\ inflight = [r \in Requests |-> Vacant]
  /\ now = 0
  /\ completed = [t \in Transactions |-> 0]
  /\ logins = [l \in Logins |-> NoLogin]
  /\ rank = [i \in Ids |-> [level |-> 0, principal |-> "NULL"]]

-----------------------------------------------------------------------------

(* read_envelope and ensure_not_expired.                                   *)
NotExpired(envelope) ==
  /\ envelope.login # "NULL"
  /\ now < envelope.until
  /\ now < envelope.last_seen + Idle

(* Fault: activity renews the absolute lifetime as well.                   *)
Renewed(envelope) ==
  [envelope EXCEPT !.last_seen = now, !.until = now + Absolute]

(* touch_authenticated.                                                    *)
Touched(envelope) == [envelope EXCEPT !.last_seen = now]

Level(envelope) ==
  IF envelope.login = "NULL" THEN 0 ELSE IF envelope.step_up = 0 THEN 1 ELSE 2

(* External: the ids the store knows; a request with any other id is as    *)
(* one without.                                                            *)
Known == {i \in issued : store[i].present}

(* External: no id is a new anonymous session.                             *)
Load(i) == IF i = "NULL" THEN Anonymous ELSE store[i].record

(* Fault: the id stays as it is across the boundary.                       *)
KeepsId(old, new) == IF old = "NULL" THEN new \notin issued ELSE new = old

(* cycle_id, or the first id of a new session: never one given out before. *)
FreshId(old, new) == new \notin issued

(* The old row is deleted at once; the new one is written by Save.         *)
Issue(old, new, envelope) ==
  /\ FreshId(old, new)
  /\ issued' = issued \cup {new}
  /\ rank' = [rank EXCEPT ![new] =
                IF new \in issued THEN @
                ELSE [level |-> Level(envelope),
                      principal |-> envelope.principal]]
  /\ store' = IF old = "NULL" THEN store
              ELSE [store EXCEPT ![old] = NoRecord]

Saving(r, i, record, admitted) ==
  inflight' = [inflight EXCEPT ![r] =
                 [pc |-> "SAVE", id |-> i, record |-> record,
                  admitted |-> admitted]]

-----------------------------------------------------------------------------
(* GET /auth/login.                                                        *)

(* begin_authorization: a fresh state, nonce, verifier and binding.        *)
BeginAuthorization(t) == transactions' = [transactions EXCEPT ![t] = "OPEN"]

(* A step-up needs a live session; a login needs none and keeps what the   *)
(* session holds.                                                          *)
Login(r, i, t, purpose) ==
  LET record == Load(i)
      flow == [purpose |-> purpose, transaction |-> t,
               principal |-> IF purpose = "LOGIN" THEN "NULL"
                             ELSE record.envelope.principal]
      bound == [record EXCEPT !.flow = flow]
  IN  /\ inflight[r].pc = "NONE"
      /\ transactions[t] = "NONE"
      /\ purpose = "STEP_UP" => NotExpired(record.envelope)
      /\ BeginAuthorization(t)
      /\ \/ /\ i # "NULL"
            /\ Saving(r, i, bound, "NO")
            /\ UNCHANGED <<store, issued, rank>>
         \/ /\ i = "NULL"
            /\ \E new \in Ids \ issued : /\ Saving(r, new, bound, "NO")
                                         /\ Issue(i, new, NoEnvelope)
      /\ UNCHANGED <<identities, now, completed, logins>>

-----------------------------------------------------------------------------
(* GET /auth/callback.                                                     *)

(* Fault: the transaction is read, and deleted later.                      *)
LeaveOpen(t) == UNCHANGED transactions

(* DELETE ... RETURNING before anything is exchanged.                      *)
Consume(t) == transactions' = [transactions EXCEPT ![t] = "GONE"]

(* pending_oidc_flow and the first half of complete_callback: the binding  *)
(* in the session must be the one of the transaction.                      *)
Callback(r, i, t) ==
  LET record == Load(i)
  IN  /\ inflight[r].pc = "NONE"
      /\ record.flow.purpose # "NONE"
      /\ record.flow.transaction = t
      /\ transactions[t] = "OPEN"
      /\ Consume(t)
      /\ inflight' = [inflight EXCEPT ![r] =
                        [Vacant EXCEPT !.pc = "EXCHANGE", !.id = i,
                                          !.record = record]]
      /\ UNCHANGED <<store, issued, identities, now, completed, logins, rank>>

(* The provider or its token refuses: the flow is cleared.                 *)
ExchangeRefused(r) ==
  /\ inflight[r].pc = "EXCHANGE"
  /\ Saving(r, inflight[r].id, [inflight[r].record EXCEPT !.flow = NoFlow],
            "NO")
  /\ UNCHANGED <<store, issued, transactions, identities, now, completed,
                 logins, rank>>

(* The database fails, or VerifyStepUp finds the sign-in weak or old: the  *)
(* record is left alone.                                                   *)
ExchangeFails(r) ==
  /\ inflight[r].pc = "EXCHANGE"
  /\ inflight' = [inflight EXCEPT ![r] = Vacant]
  /\ UNCHANGED <<store, issued, transactions, identities, now, completed,
                 logins, rank>>

(* upsert_verified_identity: the first login of an account makes its       *)
(* principal, later ones find it.                                          *)
UpsertVerifiedIdentity(a, p) ==
  /\ IF identities[a] = "NULL" THEN \A b \in Accounts : identities[b] # p
                               ELSE p = identities[a]
  /\ identities' = [identities EXCEPT ![a] = p]

(* establish_authenticated_session: nothing anonymous survives.            *)
Establish(r, a, p, l, new) ==
  LET t == inflight[r].record.flow.transaction
      envelope == [principal |-> p, login |-> l, last_seen |-> now,
                   until |-> now + Absolute, step_up |-> 0]
  IN  /\ inflight[r].pc = "EXCHANGE"
      /\ inflight[r].record.flow.purpose = "LOGIN"
      /\ logins[l] = NoLogin
      /\ UpsertVerifiedIdentity(a, p)
      /\ Issue(inflight[r].id, new, envelope)
      /\ Saving(r, new, [flow |-> NoFlow, envelope |-> envelope], "NO")
      /\ logins' = [logins EXCEPT ![l] =
                      [NoLogin EXCEPT !.account = a, !.at = now,
                                      !.active = now]]
      /\ completed' = [completed EXCEPT ![t] = @ + 1]
      /\ UNCHANGED <<transactions, now>>

(* Fault: whoever signed in at the provider counts.                        *)
AnyActor(record, a) == TRUE

(* resolve_existing_step_up_identity, the comparison in callback and the   *)
(* one in record_verified_step_up.                                         *)
SameActor(record, a) ==
  /\ identities[a] = record.flow.principal
  /\ identities[a] = record.envelope.principal

(* verify_step_up_claims: a strong sign-in, recent enough.                 *)
VerifyStepUp(auth_time) == auth_time <= now /\ now <= auth_time + MaxAge

(* record_verified_step_up, in the step that verified the evidence.        *)
RecordVerifiedStepUp(r, a, auth_time, new) ==
  LET record == inflight[r].record
      t == record.flow.transaction
      l == record.envelope.login
      envelope == [record.envelope EXCEPT !.step_up = now + StepUp,
                                          !.last_seen = now]
  IN  /\ inflight[r].pc = "EXCHANGE"
      /\ record.flow.purpose = "STEP_UP"
      /\ SameActor(record, a)
      /\ VerifyStepUp(auth_time)
      /\ NotExpired(record.envelope)
      /\ Issue(inflight[r].id, new, envelope)
      /\ Saving(r, new, [flow |-> NoFlow, envelope |-> envelope], "NO")
      /\ logins' = [logins EXCEPT ![l].active = now,
                                  ![l].auth_time = auth_time,
                                  ![l].by = @ \cup {a}]
      /\ completed' = [completed EXCEPT ![t] = @ + 1]
      /\ UNCHANGED <<transactions, identities, now>>

(* Another account, or a session that expired during the exchange.         *)
StepUpRefused(r, a) ==
  LET record == inflight[r].record
  IN  /\ inflight[r].pc = "EXCHANGE"
      /\ record.flow.purpose = "STEP_UP"
      /\ ~ (SameActor(record, a) /\ NotExpired(record.envelope))
      /\ Saving(r, inflight[r].id, [record EXCEPT !.flow = NoFlow], "NO")
      /\ UNCHANGED <<store, issued, transactions, identities, now, completed,
                     logins, rank>>

-----------------------------------------------------------------------------
(* Other requests.                                                         *)

(* Fault: a step-up, once made, is not compared with the clock.            *)
SteppedUp(envelope) == envelope.step_up # 0

(* evaluate_one of an action that requires a step-up.                      *)
StepUpHeld(envelope) == now < envelope.step_up

(* verify_for_tenant, authorize_current and session_view.  The session is  *)
(* touched first, so also when membership, policy or a missing step-up     *)
(* then refuses the request ("NO").                                        *)
Authorize(r, i, outcome) ==
  LET envelope == Load(i).envelope
  IN  /\ inflight[r].pc = "NONE"
      /\ NotExpired(envelope)
      /\ outcome = "SENSITIVE" => StepUpHeld(envelope)
      /\ Saving(r, i, [Load(i) EXCEPT !.envelope = Touched(envelope)], outcome)
      /\ logins' = [logins EXCEPT ![envelope.login].active = now]
      /\ UNCHANGED <<store, issued, transactions, identities, now, completed,
                     rank>>

(* POST /auth/logout with the session's own token: the row goes at once.   *)
Logout(i) ==
  /\ NotExpired(Load(i).envelope)
  /\ store' = [store EXCEPT ![i] = NoRecord]
  /\ UNCHANGED <<issued, transactions, identities, inflight, now, completed,
                 logins, rank>>

(* External: the end of a request writes its copy over whatever is there,  *)
(* also over a row that was deleted meanwhile; an empty record is deleted. *)
Save(r) ==
  /\ inflight[r].pc = "SAVE"
  /\ store' = [store EXCEPT ![inflight[r].id] =
                 [present |-> inflight[r].record # Anonymous,
                  record |-> inflight[r].record]]
  /\ inflight' = [inflight EXCEPT ![r] = Vacant]
  /\ UNCHANGED <<issued, transactions, identities, now, completed, logins,
                 rank>>

(* External: the write fails, or the store does not revive a deleted row.  *)
SaveLost(r) ==
  /\ inflight[r].pc = "SAVE"
  /\ inflight' = [inflight EXCEPT ![r] = Vacant]
  /\ UNCHANGED <<store, issued, transactions, identities, now, completed,
                 logins, rank>>

Tick ==
  /\ now < MaxTime
  /\ now' = now + 1
  /\ UNCHANGED <<store, issued, transactions, identities, inflight, completed,
                 logins, rank>>

(* expires_at of a transaction passes, or it is cleaned up after that.     *)
TransactionExpires(t) ==
  /\ transactions[t] = "OPEN"
  /\ transactions' = [transactions EXCEPT ![t] = "GONE"]
  /\ UNCHANGED <<store, issued, identities, inflight, now, completed, logins,
                 rank>>

SessionNext ==
  \/ \E r \in Requests :
       \/ \E i \in Known \cup {"NULL"}, t \in Transactions,
             purpose \in {"LOGIN", "STEP_UP"} : Login(r, i, t, purpose)
       \/ \E i \in Known : \/ \E t \in Transactions : Callback(r, i, t)
                           \/ \E outcome \in {"NO", "PLAIN", "SENSITIVE"} :
                                Authorize(r, i, outcome)
       \/ \E a \in Accounts :
            \/ \E new \in Ids :
                 \/ \E p \in PrincipalIds, l \in Logins :
                      Establish(r, a, p, l, new)
                 \/ \E auth_time \in 0 .. now :
                      RecordVerifiedStepUp(r, a, auth_time, new)
            \/ StepUpRefused(r, a)
       \/ ExchangeRefused(r) \/ ExchangeFails(r) \/ Save(r) \/ SaveLost(r)
  \/ \E i \in Known : Logout(i)
  \/ \E t \in Transactions : TransactionExpires(t)
  \/ Tick

SessionSpec == SessionInit /\ [][SessionNext]_sessionVars

-----------------------------------------------------------------------------

(* However many callbacks carry the same state, concurrent ones included,  *)
(* one at most ends in a session or a step-up: the DELETE ... RETURNING of *)
(* complete_callback_inner is the only one to see the row.                 *)
CallbackUsedOnce == \A t \in Transactions : completed[t] <= 1

(* What the row of an id permits never changes: an id given to an          *)
(* anonymous browser never becomes an authenticated one, an authenticated  *)
(* one never gains a step-up or another principal, whatever copies of it   *)
(* are saved late (cycle_id in establish_authenticated_session and in      *)
(* record_verified_step_up).                                               *)
IdsKeepTheirRank ==
  \A i \in Ids :
    LET envelope == store[i].record.envelope
    IN  store[i].present =>
          rank[i] = [level |-> Level(envelope),
                     principal |-> envelope.principal]

(* A step-up of a session was made by the account that opened it, although *)
(* another one may have signed in at the provider or in another tab since  *)
(* (callback, record_verified_step_up).                                    *)
StepUpByItsAccount ==
  \A l \in Logins : logins[l].by \subseteq {logins[l].account}

Admits(r, kinds) ==
  inflight[r].admitted = "NO" /\ inflight'[r].admitted \in kinds

LoginOf(r) == logins[inflight'[r].record.envelope.login]

(* No chain of touches, step-ups and late saves admits a request later     *)
(* than absolute_timeout after the login it descends from, or than         *)
(* idle_timeout after an earlier request of that login, whichever copy of  *)
(* the record was saved last (ensure_not_expired, touch_authenticated).    *)
SessionsEnd ==
  [][\A r \in Requests :
       Admits(r, {"PLAIN", "SENSITIVE"}) =>
         /\ now < LoginOf(r).at + Absolute
         /\ now < LoginOf(r).active + Idle
    ]_sessionVars

(* An action that requires a step-up is admitted only within               *)
(* step_up_timeout and the allowed age of a sign-in that the provider      *)
(* attested for this login (evaluate_one, verify_step_up_claims).          *)
StepUpIsFresh ==
  [][\A r \in Requests :
       Admits(r, {"SENSITIVE"}) =>
         /\ LoginOf(r).by # {}
         /\ now < LoginOf(r).auth_time + MaxAge + StepUp
    ]_sessionVars

=============================================================================
