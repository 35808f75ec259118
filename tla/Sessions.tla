------------------------------ MODULE Sessions ------------------------------
(***************************************************************************)
(* The sessions of one account: the requests that open, refresh and revoke *)
(* them, change or reset the password and disable the account, as the      *)
(* interleaved steps they take on Postgres and Redis (src/internal/auth,   *)
(* the account requests of src/internal/user, src/internal/token).         *)
(*                                                                         *)
(* Every statement names one user_id, so that one account stands for any.  *)
(* A refresh token is the number of its making within its session, a       *)
(* password the number of its setting.  A transaction that locks the       *)
(* account first is one step; ResetPassword's, which does not, is two.     *)
(* The session cache is written and never read, and left out.              *)
(***************************************************************************)
EXTENDS Integers, FiniteSets

CONSTANTS
  Sessions,      \* ids of sessions
  Requests,      \* requests under way at one time
  NoSession,     \* a request that is about no session
  Kinds,         \* the requests that clients make, a subset of AllKinds
  MaxTokens,     \* bound: refresh tokens one session ever has
  MaxPasswords,  \* bound: passwords the account ever has
  MaxResets      \* bound: password reset tokens sent

AllKinds == {"login", "refresh", "revoke", "password", "disable", "delete", "reset"}

ASSUME SessionsAssumption == NoSession \notin Sessions
ASSUME KindsAssumption == Kinds \subseteq AllKinds
ASSUME LimitsAssumption ==
  /\ MaxTokens \in Nat \ {0}
  /\ MaxPasswords \in Nat \ {0}
  /\ MaxResets \in Nat

Tokens == 1..MaxTokens
Passwords == 0..MaxPasswords
Resets == 1..MaxResets

VARIABLES
  account,   \* the row of users
  session,   \* [Sessions -> Rows]: the rows of sessions
  held,      \* [Sessions -> SUBSET Tokens]: the tokens some client was handed
  consumed,  \* [Sessions -> SUBSET Tokens]: those whose id is in Redis
  resets,    \* the reset tokens: how many were sent, whose ids are in Redis
  req,       \* [Requests -> Steps]: where each request is
  heirs,     \* history: <<m, n>> when token m was exchanged for n
  origin,    \* history: what a session's life rests on
  lost,      \* history: the tokens whose ids Redis has lost
  failed     \* history: the sessions of which an answer or a refresh was lost

vars == <<account, session, held, consumed, resets, req,
          heirs, origin, lost, failed>>

Accounts ==
  [password  : Passwords,    \* 0: not registered
   disabled  : BOOLEAN,      \* disabled_at IS NOT NULL
   scheduled : BOOLEAN]      \* delete_scheduled_at IS NOT NULL

Rows ==
  [life    : {"unborn", "live", "revoked", "deleted"},  \* live: revoked_at IS NULL
   expired : BOOLEAN,                                   \* expires_at has passed
   hash    : 0..MaxTokens]                              \* of which token

(***************************************************************************)
(* "consumed": the token's id is, the session is still to be read.         *)
(* "match", "reuse": it was read, the hash is the token's or another's.    *)
(* "resetting": the reset's transaction has revoked what it found live.    *)
(* The others have read the account, or consumed their token, and are      *)
(* before the transaction they are named after.                            *)
(***************************************************************************)
Steps ==
  [at      : {"idle", "login", "consumed", "match", "reuse",
              "password", "disable", "delete", "reset", "resetting"},
   session : Sessions \cup {NoSession},
   token   : 0..MaxTokens,
   found   : SUBSET Sessions,
   copy    : Accounts]

\* The password whose bearer opened the session, or kept it when it changed,
\* and whether it was opened on a state of the account that was not checked,
\* or beside a reset that had revoked already.
Origins == [password : Passwords, unchecked : BOOLEAN]

NoAccount == [password |-> 0, disabled |-> FALSE, scheduled |-> FALSE]

Idle == [at |-> "idle", session |-> NoSession, token |-> 0, found |-> {},
         copy |-> NoAccount]

\* EnsureActive
Active(a) == ~a.disabled /\ ~a.scheduled

At(r, step) == req[r].at = step

Begin(r, step, s, n) ==
  /\ At(r, "idle")
  /\ req' = [req EXCEPT ![r] =
               [Idle EXCEPT !.at = step, !.session = s, !.token = n, !.copy = account]]

Done(r) == [req EXCEPT ![r] = Idle]

Live(s) == session[s].life = "live"
-----------------------------------------------------------------------------
Init ==
  /\ account = NoAccount
  /\ session = [s \in Sessions |-> [life |-> "unborn", expired |-> FALSE, hash |-> 0]]
  /\ held = [s \in Sessions |-> {}]
  /\ consumed = [s \in Sessions |-> {}]
  /\ resets = [sent |-> 0, consumed |-> {}]
  /\ req = [r \in Requests |-> Idle]
  /\ heirs = [s \in Sessions |-> {}]
  /\ origin = [s \in Sessions |-> [password |-> 0, unchecked |-> FALSE]]
  /\ lost = [s \in Sessions |-> {}]
  /\ failed = {}

(***************************************************************************)
(* Faulty variants: no part of the model, each would replace the           *)
(* definition it is named after.                                           *)
(***************************************************************************)
\* Rotatable without the hash, without revoked_at.
RotatableById(s, n) == Live(s)
RotatableWhenRevoked(s, n) ==
  session[s].life \in {"live", "revoked"} /\ session[s].hash = n

\* Rotated that leaves the old hash, that stores a hash of no token.
RotatedInTimeOnly(s, n) == [session[s] EXCEPT !.expired = FALSE]
RotatedToNothing(s, n) == [session[s] EXCEPT !.hash = 0, !.expired = FALSE]

\* Refresh that does not ask whether the id was consumed.
RefreshAgain(r, s, n) ==
  /\ "refresh" \in Kinds
  /\ n \in held[s]
  /\ consumed' = [consumed EXCEPT ![s] = @ \cup {n}]
  /\ Begin(r, "consumed", s, n)
  /\ UNCHANGED <<account, session, held, resets, heirs, origin, lost, failed>>

\* Revoked of the sessions that have not expired.
RevokedIfFresh(S) ==
  [s \in Sessions |->
     IF s \in S /\ Live(s) /\ ~session[s].expired
     THEN [session[s] EXCEPT !.life = "revoked"]
     ELSE session[s]]

\* Reactivated that does nothing.
ReactivatedLater(copy) == account
-----------------------------------------------------------------------------
\* Revoke, RevokeAll, RevokeAllExcept: live sessions among S get a revoked_at.
Revoked(S) ==
  [s \in Sessions |->
     IF s \in S /\ Live(s) THEN [session[s] EXCEPT !.life = "revoked"]
     ELSE session[s]]

\* A reset other than r's is between its revocation and its commit.
ResetUnderWay(r) == \E q \in Requests \ {r} : At(q, "resetting")

\* A session with its first refresh token is added to table.  Its answer may
\* never arrive.
Open(s, table, from) ==
  /\ session[s].life = "unborn"
  /\ session' = [table EXCEPT ![s] = [life |-> "live", expired |-> FALSE, hash |-> 1]]
  /\ origin' = [origin EXCEPT ![s] = from]
  /\ \/ held' = [held EXCEPT ![s] = {1}] /\ UNCHANGED failed
     \/ failed' = failed \cup {s} /\ UNCHANGED held
  /\ UNCHANGED <<consumed, heirs, lost>>

\* Register's transaction.
Register(s) ==
  /\ account = NoAccount
  /\ account' = [NoAccount EXCEPT !.password = 1]
  /\ Open(s, session, [password |-> 1, unchecked |-> FALSE])
  /\ UNCHANGED <<resets, req>>
-----------------------------------------------------------------------------
(***************************************************************************)
(* Login: the account is read, the password compared with the copy, and    *)
(* the session created.  When the copy is disabled or scheduled for        *)
(* deletion the same transaction takes the account back.                   *)
(***************************************************************************)
Login(r) ==
  /\ "login" \in Kinds
  /\ account # NoAccount
  /\ Begin(r, "login", NoSession, 0)
  /\ UNCHANGED <<account, session, held, consumed, resets,
                 heirs, origin, lost, failed>>

Reactivated(copy) ==
  IF copy.scheduled THEN [account EXCEPT !.scheduled = FALSE, !.disabled = FALSE]
  ELSE IF copy.disabled THEN [account EXCEPT !.disabled = FALSE]
  ELSE account

CommitLogin(r, s) ==
  /\ At(r, "login")
  /\ account' = Reactivated(req[r].copy)
  /\ Open(s, session, [password  |-> req[r].copy.password,
                       unchecked |-> account # req[r].copy \/ ResetUnderWay(r)])
  /\ req' = Done(r)
  /\ UNCHANGED resets
-----------------------------------------------------------------------------
(***************************************************************************)
(* Refresh: the token's id is consumed in Redis, the session read, and     *)
(* rotated to the hash of a new token if it still has the hash it was read *)
(* with.  The rotation compares expires_at with the time of the reading,   *)
(* so that the same hash implies it passes again.                          *)
(***************************************************************************)
Refresh(r, s, n) ==
  /\ "refresh" \in Kinds
  /\ n \in held[s] \ consumed[s]
  /\ consumed' = [consumed EXCEPT ![s] = @ \cup {n}]
  /\ Begin(r, "consumed", s, n)
  /\ UNCHANGED <<account, session, held, resets, heirs, origin, lost, failed>>

\* A session that is gone, revoked or expired ends the request.
ReadSession(r) ==
  /\ At(r, "consumed")
  /\ LET s == req[r].session
     IN  req' = IF Live(s) /\ ~session[s].expired
                THEN [req EXCEPT ![r].at =
                        IF session[s].hash = req[r].token THEN "match" ELSE "reuse"]
                ELSE Done(r)
  /\ UNCHANGED <<account, session, held, consumed, resets,
                 heirs, origin, lost, failed>>

RevokeReused(r) ==
  /\ At(r, "reuse")
  /\ session' = Revoked(Sessions)
  /\ req' = Done(r)
  /\ UNCHANGED <<account, held, consumed, resets, heirs, origin, lost, failed>>

Rotatable(s, n) == Live(s) /\ session[s].hash = n

Rotated(s, n) == [session[s] EXCEPT !.hash = n, !.expired = FALSE]

\* The rotation, or no row and an error.  Its answer may never arrive.
Rotate(r) ==
  /\ At(r, "match")
  /\ LET s == req[r].session
         n == session[s].hash + 1
     IN  IF Rotatable(s, req[r].token)
         THEN /\ n \in Tokens
              /\ session' = [session EXCEPT ![s] = Rotated(s, n)]
              /\ heirs' = [heirs EXCEPT ![s] = @ \cup {<<req[r].token, n>>}]
              /\ \/ held' = [held EXCEPT ![s] = @ \cup {n}] /\ UNCHANGED failed
                 \/ failed' = failed \cup {s} /\ UNCHANGED held
         ELSE UNCHANGED <<session, heirs, held, failed>>
  /\ req' = Done(r)
  /\ UNCHANGED <<account, consumed, resets, origin, lost>>
-----------------------------------------------------------------------------
\* RevokeSession, which is log-out too, and RevokeAllSessions.
Revoke(S) ==
  /\ "revoke" \in Kinds
  /\ session' = Revoked(S)
  /\ UNCHANGED <<account, held, consumed, resets, req, heirs, origin, lost, failed>>

(***************************************************************************)
(* UpdatePassword, Disable and ScheduleDelete: the account is read, must   *)
(* be active, and the password is compared with the copy.  The access      *)
(* token that lets the request in outlives its session s.                  *)
(***************************************************************************)
Authenticate(r, step, s) ==
  /\ step \in Kinds
  /\ account # NoAccount
  /\ Active(account)
  /\ session[s].life # "unborn"
  /\ Begin(r, step, s, 0)
  /\ UNCHANGED <<account, session, held, consumed, resets,
                 heirs, origin, lost, failed>>

CommitPassword(r) ==
  /\ At(r, "password")
  /\ account.password < MaxPasswords
  /\ account' = [account EXCEPT !.password = @ + 1]
  /\ session' = Revoked(Sessions \ {req[r].session})
  /\ origin' = [origin EXCEPT ![req[r].session].password = account.password + 1]
  /\ req' = Done(r)
  /\ UNCHANGED <<held, consumed, resets, heirs, lost, failed>>

CommitDisable(r) ==
  /\ \/ /\ At(r, "disable")
        /\ account' = [account EXCEPT !.disabled = TRUE]
     \/ /\ At(r, "delete")
        /\ account' = [account EXCEPT !.disabled = TRUE, !.scheduled = TRUE]
  /\ session' = Revoked(Sessions)
  /\ req' = Done(r)
  /\ UNCHANGED <<held, consumed, resets, heirs, origin, lost, failed>>
-----------------------------------------------------------------------------
\* ForgotPassword: the token reaches the user by mail.
ForgotPassword ==
  /\ "reset" \in Kinds
  /\ account # NoAccount
  /\ Active(account)
  /\ resets.sent < MaxResets
  /\ resets' = [resets EXCEPT !.sent = @ + 1]
  /\ UNCHANGED <<account, session, held, consumed, req, heirs, origin, lost, failed>>

\* ResetPassword consumes the token; that the account is active is not asked.
Reset(r, n) ==
  /\ n \in (1..resets.sent) \ resets.consumed
  /\ resets' = [resets EXCEPT !.consumed = @ \cup {n}]
  /\ Begin(r, "reset", NoSession, 0)
  /\ UNCHANGED <<account, session, held, consumed, heirs, origin, lost, failed>>

\* Its transaction first revokes all sessions, which others see at its commit.
RevokeForReset(r) ==
  /\ At(r, "reset")
  /\ req' = [req EXCEPT ![r].at = "resetting", ![r].found = {s \in Sessions : Live(s)}]
  /\ UNCHANGED <<account, session, held, consumed, resets,
                 heirs, origin, lost, failed>>

\* Then it locks the account; sessions opened since the revocation stay.
CommitReset(r, s) ==
  /\ At(r, "resetting")
  /\ account.password < MaxPasswords
  /\ account' = [account EXCEPT !.password = @ + 1]
  /\ Open(s, Revoked(req[r].found),
          [password  |-> account.password + 1,
           unchecked |-> ~Active(account) \/ ResetUnderWay(r)])
  /\ req' = Done(r)
  /\ UNCHANGED resets
-----------------------------------------------------------------------------
(***************************************************************************)
(* A statement fails, the caller goes away or the process dies: what the   *)
(* request has done so far stays.                                          *)
(***************************************************************************)
Fail(r) ==
  /\ ~At(r, "idle")
  /\ req' = Done(r)
  /\ failed' = IF req[r].at \in {"consumed", "match"}
               THEN failed \cup {req[r].session} ELSE failed
  /\ UNCHANGED <<account, session, held, consumed, resets, heirs, origin, lost>>

Expire(s) ==
  /\ Live(s)
  /\ session' = [session EXCEPT ![s].expired = TRUE]
  /\ UNCHANGED <<account, held, consumed, resets, req, heirs, origin, lost, failed>>

\* DeleteBatchExpired, DeleteBatchRevoked.
Delete(s) ==
  /\ \/ Live(s) /\ session[s].expired
     \/ session[s].life = "revoked"
  /\ session' = [session EXCEPT ![s].life = "deleted"]
  /\ UNCHANGED <<account, held, consumed, resets, req, heirs, origin, lost, failed>>

\* Redis comes back without its last writes.
Forget(s, n) ==
  /\ n \in consumed[s]
  /\ consumed' = [consumed EXCEPT ![s] = @ \ {n}]
  /\ lost' = [lost EXCEPT ![s] = @ \cup {n}]
  /\ UNCHANGED <<account, session, held, resets, req, heirs, origin, failed>>

ForgetReset(n) ==
  /\ n \in resets.consumed
  /\ resets' = [resets EXCEPT !.consumed = @ \ {n}]
  /\ UNCHANGED <<account, session, held, consumed, req, heirs, origin, lost, failed>>

RequestStep(r) ==
  \/ Login(r) \/ ReadSession(r) \/ RevokeReused(r) \/ Rotate(r)
  \/ CommitPassword(r) \/ CommitDisable(r) \/ RevokeForReset(r) \/ Fail(r)
  \/ \E n \in Resets : Reset(r, n)
  \/ \E s \in Sessions :
       \/ CommitLogin(r, s) \/ CommitReset(r, s)
       \/ \E n \in Tokens : Refresh(r, s, n)
       \/ \E step \in {"password", "disable", "delete"} : Authenticate(r, step, s)

Next ==
  \/ \E r \in Requests : RequestStep(r)
  \/ \E s \in Sessions : \/ Register(s) \/ Revoke({s}) \/ Expire(s) \/ Delete(s)
                         \/ \E n \in Tokens : Forget(s, n)
  \/ Revoke(Sessions)
  \/ ForgotPassword
  \/ \E n \in Resets : ForgetReset(n)

Spec == Init /\ [][Next]_vars
-----------------------------------------------------------------------------
(***************************************************************************)
(* The variables have their types, and the sessions that were created, and *)
(* no others, the hash of a token (Create, RotateRefreshTokenHash).        *)
(***************************************************************************)
TypeOK ==
  /\ account \in Accounts
  /\ session \in [Sessions -> Rows]
  /\ \A s \in Sessions : session[s].life = "unborn" <=> session[s].hash = 0
  /\ held \in [Sessions -> SUBSET Tokens]
  /\ consumed \in [Sessions -> SUBSET Tokens]
  /\ resets \in [sent : 0..MaxResets, consumed : SUBSET Resets]
  /\ req \in [Requests -> Steps]
  /\ heirs \in [Sessions -> SUBSET (Tokens \X Tokens)]
  /\ origin \in [Sessions -> Origins]
  /\ lost \in [Sessions -> SUBSET Tokens]
  /\ failed \subseteq Sessions

(***************************************************************************)
(* A refresh token is exchanged for one other at most, and the token a     *)
(* session accepts for none yet, whatever refreshes race and even when     *)
(* Redis loses the ids of consumed tokens (RotateRefreshTokenHash).        *)
(***************************************************************************)
ExchangedOnce ==
  \A s \in Sessions :
    /\ \A h, k \in heirs[s] : h[1] = k[1] => h = k
    /\ \A h \in heirs[s] : h[1] # session[s].hash

(***************************************************************************)
(* The branch of Refresh that revokes every session is entered only after  *)
(* Redis has lost an id: otherwise a token presented again is refused      *)
(* before the session is read, and revokes nothing.                        *)
(***************************************************************************)
ReuseSeenOnlyAfterLoss ==
  \A r \in Requests : At(r, "reuse") => req[r].token \in lost[req[r].session]

(***************************************************************************)
(* A live session whose client holds no token to refresh it with is being  *)
(* refreshed, or a refresh or an answer of it was lost: the id is consumed *)
(* before the rotation and not given back.                                 *)
(***************************************************************************)
StrandedOnlyByFailure ==
  \A s \in Sessions :
    Live(s) /\ ~session[s].expired =>
      \/ session[s].hash \in held[s] \ consumed[s]
      \/ s \in failed
      \/ \E r \in Requests : /\ req[r].at \in {"consumed", "match"}
                             /\ req[r].session = s
                             /\ req[r].token = session[s].hash

(***************************************************************************)
(* A live session rests on the current password, but for two races: it was *)
(* opened on a state of the account that was not checked, since a login    *)
(* reads the account before it creates the session, or by a login or reset *)
(* that committed between another reset's revocation and its commit        *)
(* (Login, UpdatePassword, ResetPassword).                                 *)
(***************************************************************************)
SessionsFollowThePassword ==
  \A s \in Sessions :
    Live(s) => \/ origin[s].password = account.password
               \/ origin[s].unchecked

(***************************************************************************)
(* A disabled account, or one scheduled for deletion, has no live session  *)
(* but those opened in such a race, or by a password reset, which does not *)
(* ask whether the account is active (Disable, ScheduleDelete, Login).     *)
(***************************************************************************)
InactiveHasNoSessions ==
  \A s \in Sessions : Live(s) => Active(account) \/ origin[s].unchecked

(***************************************************************************)
(* The sessions implement TokenChain.                                      *)
(***************************************************************************)
ChainLife ==
  [s \in Sessions |->
     CASE session[s].life = "unborn" -> "unborn"
       [] Live(s)                    -> "open"
       [] OTHER                      -> "closed"]

ChainCurrent == [s \in Sessions |-> session[s].hash]

ChainSpent == [s \in Sessions |-> {h[1] : h \in heirs[s]}]

Chain == INSTANCE TokenChain
           WITH life <- ChainLife, current <- ChainCurrent, spent <- ChainSpent

ImplementsTokenChain == Chain!Spec
=============================================================================
