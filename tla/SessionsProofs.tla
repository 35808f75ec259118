--------------------------- MODULE SessionsProofs ---------------------------
(***************************************************************************)
(* Theorems of Sessions, for every value of its constants.                 *)
(***************************************************************************)
EXTENDS Sessions, TLAPS

\* A request that has consumed a token knows its session.
RefreshesNameSessions ==
  \A r \in Requests :
    req[r].at \in {"consumed", "match"} => req[r].session \in Sessions

\* The tokens exchanged are older than the token the session accepts, and
\* each was exchanged for one.
TokensInOrder ==
  \A s \in Sessions :
    /\ \A h \in heirs[s] : h[1] < session[s].hash
    /\ \A h, k \in heirs[s] : h[1] = k[1] => h = k

IInv == TypeOK /\ RefreshesNameSessions /\ TokensInOrder
-----------------------------------------------------------------------------
(***************************************************************************)
(* The account stays an account under each assignment to a column.         *)
(***************************************************************************)
LEMMA AccountUpdates ==
  ASSUME NEW a \in Accounts
  PROVE  /\ \A p \in Passwords : [a EXCEPT !.password = p] \in Accounts
         /\ [a EXCEPT !.disabled = TRUE] \in Accounts
         /\ [a EXCEPT !.disabled = FALSE] \in Accounts
         /\ [a EXCEPT !.disabled = TRUE, !.scheduled = TRUE] \in Accounts
         /\ [a EXCEPT !.scheduled = FALSE, !.disabled = FALSE] \in Accounts
BY DEF Accounts

LEMMA NoAccountType == NoAccount \in Accounts
<1>1. 0 \in Passwords
  BY LimitsAssumption DEF Passwords
<1> QED
  BY <1>1 DEF NoAccount, Accounts

LEMMA IdleType == Idle \in Steps
BY NoAccountType, LimitsAssumption DEF Idle, Steps

(***************************************************************************)
(* Where a request goes when it begins, moves on and ends.                 *)
(***************************************************************************)
LEMMA RequestUpdates ==
  ASSUME TypeOK, NEW r \in Requests
  PROVE  /\ Done(r) \in [Requests -> Steps]
         /\ \A step \in {"login", "consumed", "match", "reuse", "password",
                         "disable", "delete", "reset"},
               s \in Sessions \cup {NoSession}, n \in 0..MaxTokens :
              Begin(r, step, s, n) => req' \in [Requests -> Steps]
         /\ \A step \in {"match", "reuse"} :
              [req EXCEPT ![r].at = step] \in [Requests -> Steps]
         /\ \A S \in SUBSET Sessions :
              [req EXCEPT ![r].at = "resetting", ![r].found = S]
                \in [Requests -> Steps]
<1>1. req \in [Requests -> Steps] /\ account \in Accounts /\ req[r] \in Steps
  BY DEF TypeOK
<1>2. Done(r) \in [Requests -> Steps]
  BY <1>1, IdleType DEF Done
<1>3. ASSUME NEW step \in {"login", "consumed", "match", "reuse", "password",
                           "disable", "delete", "reset"},
             NEW s \in Sessions \cup {NoSession}, NEW n \in 0..MaxTokens,
             Begin(r, step, s, n)
      PROVE  req' \in [Requests -> Steps]
  <2>1. [Idle EXCEPT !.at = step, !.session = s, !.token = n, !.copy = account]
          \in Steps
    BY <1>1, IdleType DEF Steps
  <2> QED
    BY <1>1, <1>3, <2>1 DEF Begin
<1>4. ASSUME NEW step \in {"match", "reuse"}
      PROVE  [req EXCEPT ![r].at = step] \in [Requests -> Steps]
  <2>1. [req[r] EXCEPT !.at = step] \in Steps
    BY <1>1 DEF Steps
  <2> QED
    BY <1>1, <2>1
<1>5. ASSUME NEW S \in SUBSET Sessions
      PROVE  [req EXCEPT ![r].at = "resetting", ![r].found = S]
               \in [Requests -> Steps]
  <2>1. [req[r] EXCEPT !.at = "resetting", !.found = S] \in Steps
    BY <1>1 DEF Steps
  <2> QED
    BY <1>1, <2>1
<1> QED
  BY <1>2, <1>3, <1>4, <1>5

(***************************************************************************)
(* What the actions do to rows of sessions.                                *)
(***************************************************************************)
SessionsType(table) ==
  /\ table \in [Sessions -> Rows]
  /\ \A s \in Sessions : table[s].life = "unborn" <=> table[s].hash = 0

LEMMA RowUpdates ==
  ASSUME NEW row \in Rows
  PROVE  /\ [row EXCEPT !.life = "revoked"] \in Rows
         /\ [row EXCEPT !.life = "deleted"] \in Rows
         /\ [row EXCEPT !.expired = TRUE] \in Rows
         /\ \A n \in Tokens : [row EXCEPT !.hash = n, !.expired = FALSE] \in Rows
<1>1. \A n \in Tokens : n \in 0..MaxTokens
  BY LimitsAssumption DEF Tokens
<1>2. \A n \in 0..MaxTokens : [row EXCEPT !.hash = n, !.expired = FALSE] \in Rows
  BY DEF Rows
<1>3. /\ [row EXCEPT !.life = "revoked"] \in Rows
      /\ [row EXCEPT !.life = "deleted"] \in Rows
  BY DEF Rows
<1>4. [row EXCEPT !.expired = TRUE] \in Rows
  BY DEF Rows
<1> QED
  BY <1>1, <1>2, <1>3, <1>4

LEMMA RevokedType ==
  ASSUME TypeOK, NEW S \in SUBSET Sessions
  PROVE  SessionsType(Revoked(S))
<1>1. session \in [Sessions -> Rows]
  BY DEF TypeOK
<1>2. \A s \in Sessions : [session[s] EXCEPT !.life = "revoked"] \in Rows
  BY <1>1, RowUpdates
<1>3. Revoked(S) \in [Sessions -> Rows]
  BY <1>1, <1>2 DEF Revoked
<1>4. ASSUME NEW s \in Sessions
      PROVE  Revoked(S)[s].life = "unborn" <=> Revoked(S)[s].hash = 0
  <2>1. session[s] \in Rows /\ (session[s].life = "unborn" <=> session[s].hash = 0)
    BY DEF TypeOK
  <2>2. CASE s \in S /\ Live(s)
    BY <2>1, <2>2 DEF Revoked, Live, Rows
  <2>3. CASE ~(s \in S /\ Live(s))
    BY <2>1, <2>3 DEF Revoked
  <2> QED
    BY <2>2, <2>3
<1> QED
  BY <1>3, <1>4 DEF SessionsType

(***************************************************************************)
(* Opening a session in a well-formed table keeps the types.               *)
(***************************************************************************)
LEMMA OpenType ==
  ASSUME TypeOK, NEW s \in Sessions, NEW table, SessionsType(table),
         NEW from \in Origins, Open(s, table, from)
  PROVE  /\ SessionsType(session')
         /\ held' \in [Sessions -> SUBSET Tokens]
         /\ consumed' \in [Sessions -> SUBSET Tokens]
         /\ heirs' \in [Sessions -> SUBSET (Tokens \X Tokens)]
         /\ origin' \in [Sessions -> Origins]
         /\ lost' \in [Sessions -> SUBSET Tokens]
         /\ failed' \subseteq Sessions
<1>1. 1 \in Tokens
  BY LimitsAssumption DEF Tokens
<1> DEFINE new == [life |-> "live", expired |-> FALSE, hash |-> 1]
<1>2. new \in Rows
  BY LimitsAssumption DEF Rows
<1>3. SessionsType(session')
  BY <1>2 DEF Open, SessionsType
<1>4. held' \in [Sessions -> SUBSET Tokens]
  BY <1>1 DEF Open, TypeOK
<1>5. origin' \in [Sessions -> Origins]
  BY DEF Open, TypeOK
<1> QED
  BY <1>3, <1>4, <1>5 DEF Open, TypeOK

\* The part of TypeOK about the tokens and the histories.
TokensType ==
  /\ held \in [Sessions -> SUBSET Tokens]
  /\ consumed \in [Sessions -> SUBSET Tokens]
  /\ heirs \in [Sessions -> SUBSET (Tokens \X Tokens)]
  /\ origin \in [Sessions -> Origins]
  /\ lost \in [Sessions -> SUBSET Tokens]
  /\ failed \subseteq Sessions

ResetsType == resets \in [sent : 0..MaxResets, consumed : SUBSET Resets]

LEMMA TypeParts ==
  TypeOK <=> /\ account \in Accounts
             /\ SessionsType(session)
             /\ TokensType
             /\ ResetsType
             /\ req \in [Requests -> Steps]
BY DEF TypeOK, SessionsType, TokensType, ResetsType

(***************************************************************************)
(* Every step keeps the types: the requests that open a session.           *)
(***************************************************************************)
LEMMA OpeningTypes ==
  ASSUME TypeOK, NEW s \in Sessions,
         \/ Register(s)
         \/ \E r \in Requests : CommitLogin(r, s) \/ CommitReset(r, s)
  PROVE  TypeOK'
<1>1. SessionsType(session)
  BY TypeParts
<1>2. CASE Register(s)
  <2>1. 1 \in Passwords
    BY LimitsAssumption DEF Passwords
  <2>2. [password |-> 1, unchecked |-> FALSE] \in Origins
    BY <2>1 DEF Origins
  <2>3. account' \in Accounts
    BY <1>2, <2>1, NoAccountType, AccountUpdates DEF Register
  <2>4. Open(s, session, [password |-> 1, unchecked |-> FALSE])
    BY <1>2 DEF Register
  <2>5. SessionsType(session)' /\ TokensType'
    BY <1>1, <2>2, <2>4, OpenType DEF SessionsType, TokensType
  <2>6. ResetsType' /\ req' \in [Requests -> Steps]
    BY <1>2, TypeParts DEF Register, ResetsType
  <2> QED
    BY <2>3, <2>5, <2>6 DEF TypeOK, SessionsType, TokensType, ResetsType
<1>3. ASSUME NEW r \in Requests, CommitLogin(r, s)
      PROVE  TypeOK'
  <2> DEFINE from == [password  |-> req[r].copy.password,
                      unchecked |-> account # req[r].copy \/ ResetUnderWay(r)]
  <2>1. req[r].copy \in Accounts /\ account \in Accounts
    BY DEF TypeOK, Steps
  <2>2. (account # req[r].copy \/ ResetUnderWay(r)) \in BOOLEAN
    OBVIOUS
  <2>3. from \in Origins
    BY <2>1, <2>2 DEF Origins, Accounts
  <2>4. account' \in Accounts
    BY <1>3, <2>1, AccountUpdates DEF CommitLogin, Reactivated
  <2>5. Open(s, session, from)
    BY <1>3 DEF CommitLogin
  <2>6. SessionsType(session)' /\ TokensType'
    BY <1>1, <2>3, <2>5, OpenType DEF SessionsType, TokensType
  <2>7. ResetsType' /\ req' \in [Requests -> Steps]
    BY <1>3, TypeParts, RequestUpdates DEF CommitLogin, ResetsType
  <2> QED
    BY <2>4, <2>6, <2>7 DEF TypeOK, SessionsType, TokensType, ResetsType
<1>4. ASSUME NEW r \in Requests, CommitReset(r, s)
      PROVE  TypeOK'
  <2> DEFINE from == [password  |-> account.password + 1,
                      unchecked |-> ~Active(account) \/ ResetUnderWay(r)]
  <2>1. account \in Accounts /\ req[r].found \in SUBSET Sessions
    BY DEF TypeOK, Steps
  <2>2. account.password + 1 \in Passwords
    BY <1>4, <2>1, LimitsAssumption DEF CommitReset, Accounts, Passwords
  <2>3. (~Active(account) \/ ResetUnderWay(r)) \in BOOLEAN
    OBVIOUS
  <2>4. from \in Origins
    BY <2>2, <2>3 DEF Origins
  <2>5. account' \in Accounts
    BY <1>4, <2>1, <2>2, AccountUpdates DEF CommitReset
  <2>6. Open(s, Revoked(req[r].found), from)
    BY <1>4 DEF CommitReset
  <2>7. SessionsType(Revoked(req[r].found))
    BY <2>1, RevokedType
  <2>8. SessionsType(session)' /\ TokensType'
    BY <2>4, <2>6, <2>7, OpenType DEF SessionsType, TokensType
  <2>9. ResetsType' /\ req' \in [Requests -> Steps]
    BY <1>4, TypeParts, RequestUpdates DEF CommitReset, ResetsType
  <2> QED
    BY <2>5, <2>8, <2>9 DEF TypeOK, SessionsType, TokensType, ResetsType
<1> QED
  BY <1>2, <1>3, <1>4

(***************************************************************************)
(* Every step keeps the types: the requests that change or end sessions.   *)
(***************************************************************************)
LEMMA RequestTypes ==
  ASSUME TypeOK, RefreshesNameSessions, NEW r \in Requests,
         \/ Login(r) \/ ReadSession(r) \/ RevokeReused(r) \/ Rotate(r)
         \/ CommitPassword(r) \/ CommitDisable(r) \/ RevokeForReset(r) \/ Fail(r)
         \/ \E n \in Resets : Reset(r, n)
         \/ \E s \in Sessions :
              \/ \E n \in Tokens : Refresh(r, s, n)
              \/ \E step \in {"password", "disable", "delete"} :
                   Authenticate(r, step, s)
  PROVE  TypeOK'
<1> USE DEF TypeOK, SessionsType, TokensType, ResetsType
<1>1. /\ account \in Accounts /\ SessionsType(session) /\ TokensType
      /\ ResetsType /\ req \in [Requests -> Steps]
  OBVIOUS
<1> DEFINE KeepsSessions == UNCHANGED session
           KeepsTokens == UNCHANGED <<held, consumed, heirs, origin, lost, failed>>
<1>2. Tokens \subseteq 0..MaxTokens /\ 0 \in 0..MaxTokens
  BY LimitsAssumption DEF Tokens
<1>3. CASE Login(r)
  <2>1. req' \in [Requests -> Steps]
    BY <1>2, <1>3, RequestUpdates DEF Login
  <2> QED
    BY <1>1, <1>3, <2>1 DEF Login
<1>4. CASE ReadSession(r)
  <2>1. req' \in [Requests -> Steps]
    BY <1>4, RequestUpdates DEF ReadSession
  <2> QED
    BY <1>1, <1>4, <2>1 DEF ReadSession
<1>5. CASE RevokeReused(r)
  <2>1. req' \in [Requests -> Steps]
    BY <1>5, RequestUpdates DEF RevokeReused
  <2>2. SessionsType(session)'
    BY <1>5, RevokedType DEF RevokeReused
  <2> QED
    BY <1>1, <1>5, <2>1, <2>2 DEF RevokeReused
<1>6. CASE Rotate(r)
  <2> DEFINE s == req[r].session
             n == session[s].hash + 1
  <2>1. s \in Sessions
    BY <1>6 DEF Rotate, At, RefreshesNameSessions
  <2>2. req' \in [Requests -> Steps]
    BY <1>6, RequestUpdates DEF Rotate
  <2>3. CASE Rotatable(s, req[r].token)
    <3>1. /\ n \in Tokens
          /\ session' = [session EXCEPT ![s] = Rotated(s, n)]
          /\ heirs' = [heirs EXCEPT ![s] = @ \cup {<<req[r].token, n>>}]
          /\ \/ held' = [held EXCEPT ![s] = @ \cup {n}] /\ UNCHANGED failed
             \/ failed' = failed \cup {s} /\ UNCHANGED held
          /\ UNCHANGED <<account, consumed, resets, origin, lost>>
      BY <1>6, <2>3 DEF Rotate
    <3>2. session[s] \in Rows
      BY <2>1
    <3>3. Rotated(s, n) \in Rows
      BY <3>1, <3>2, RowUpdates DEF Rotated
    <3>4. session[s].life = "live" /\ req[r].token = session[s].hash
      BY <2>3 DEF Rotatable, Live
    <3>5. Rotated(s, n).life = "live" /\ Rotated(s, n).hash # 0
      BY <3>1, <3>2, <3>4, LimitsAssumption DEF Rotated, Rows, Tokens
    <3>6. SessionsType(session)'
      BY <2>1, <3>1, <3>3, <3>5
    <3>7. req[r].token \in Tokens
      <4>1. session[s].hash \in 0..MaxTokens /\ session[s].hash # 0
        BY <2>1, <3>2, <3>4 DEF Rows
      <4> QED
        BY <3>4, <4>1, LimitsAssumption DEF Tokens
    <3>8. heirs' \in [Sessions -> SUBSET (Tokens \X Tokens)]
      BY <2>1, <3>1, <3>7
    <3>9. held' \in [Sessions -> SUBSET Tokens] /\ failed' \subseteq Sessions
      BY <2>1, <3>1
    <3> QED
      BY <1>1, <2>2, <3>1, <3>6, <3>8, <3>9
  <2>4. CASE ~Rotatable(s, req[r].token)
    <3>1. UNCHANGED <<account, session, heirs, held, failed, consumed, resets,
                      origin, lost>>
      BY <1>6, <2>4 DEF Rotate
    <3> QED
      BY <1>1, <2>2, <3>1
  <2> QED
    BY <2>3, <2>4
<1>7. CASE CommitPassword(r)
  <2> DEFINE s == req[r].session
  <2>1. req' \in [Requests -> Steps]
    BY <1>7, RequestUpdates DEF CommitPassword
  <2>2. account.password + 1 \in Passwords
    BY <1>7, LimitsAssumption DEF CommitPassword, Accounts, Passwords
  <2>3. account' \in Accounts
    BY <1>7, <2>2, AccountUpdates DEF CommitPassword
  <2>4. SessionsType(session)'
    BY <1>7, RevokedType DEF CommitPassword
  <2>5. \A o \in Origins : [o EXCEPT !.password = account.password + 1] \in Origins
    BY <2>2 DEF Origins
  <2>6. origin' \in [Sessions -> Origins]
    BY <1>7, <2>5 DEF CommitPassword
  <2> QED
    BY <1>1, <1>7, <2>1, <2>3, <2>4, <2>6 DEF CommitPassword
<1>8. CASE CommitDisable(r)
  <2>1. req' \in [Requests -> Steps]
    BY <1>8, RequestUpdates DEF CommitDisable
  <2>2. account' \in Accounts
    BY <1>8, AccountUpdates DEF CommitDisable
  <2>3. SessionsType(session)'
    BY <1>8, RevokedType DEF CommitDisable
  <2> QED
    BY <1>1, <1>8, <2>1, <2>2, <2>3 DEF CommitDisable
<1>9. CASE RevokeForReset(r)
  <2>1. req' \in [Requests -> Steps]
    BY <1>9, RequestUpdates DEF RevokeForReset
  <2> QED
    BY <1>1, <1>9, <2>1 DEF RevokeForReset
<1>10. CASE Fail(r)
  <2>1. req' \in [Requests -> Steps]
    BY <1>10, RequestUpdates DEF Fail
  <2>2. failed' \subseteq Sessions
    BY <1>10 DEF Fail, RefreshesNameSessions
  <2> QED
    BY <1>1, <1>10, <2>1, <2>2 DEF Fail
<1>11. ASSUME NEW n \in Resets, Reset(r, n)
       PROVE  TypeOK'
  <2>1. req' \in [Requests -> Steps]
    BY <1>2, <1>11, RequestUpdates DEF Reset
  <2>2. resets' \in [sent : 0..MaxResets, consumed : SUBSET Resets]
    BY <1>11 DEF Reset
  <2> QED
    BY <1>1, <1>11, <2>1, <2>2 DEF Reset
<1>12. ASSUME NEW s \in Sessions, NEW n \in Tokens, Refresh(r, s, n)
       PROVE  TypeOK'
  <2>1. req' \in [Requests -> Steps]
    BY <1>2, <1>12, RequestUpdates DEF Refresh
  <2>2. consumed' \in [Sessions -> SUBSET Tokens]
    BY <1>12 DEF Refresh
  <2> QED
    BY <1>1, <1>12, <2>1, <2>2 DEF Refresh
<1>13. ASSUME NEW s \in Sessions, NEW step \in {"password", "disable", "delete"},
              Authenticate(r, step, s)
       PROVE  TypeOK'
  <2>1. Begin(r, step, s, 0) /\ s \in Sessions \cup {NoSession}
    BY <1>13 DEF Authenticate
  <2>2. \/ Begin(r, "password", s, 0)
        \/ Begin(r, "disable", s, 0)
        \/ Begin(r, "delete", s, 0)
    BY <2>1
  <2>3. req' \in [Requests -> Steps]
    BY <1>2, <2>1, <2>2, RequestUpdates
  <2> QED
    BY <1>1, <1>13, <2>3 DEF Authenticate
<1> QED
  BY <1>3, <1>4, <1>5, <1>6, <1>7, <1>8, <1>9, <1>10, <1>11, <1>12, <1>13

(***************************************************************************)
(* Every step keeps the types: revocation, time, purge, mail and Redis.    *)
(***************************************************************************)
LEMMA OtherTypes ==
  ASSUME TypeOK,
         \/ \E S \in SUBSET Sessions : Revoke(S)
         \/ \E s \in Sessions : Expire(s) \/ Delete(s) \/ \E n \in Tokens : Forget(s, n)
         \/ ForgotPassword
         \/ \E n \in Resets : ForgetReset(n)
         \/ UNCHANGED vars
  PROVE  TypeOK'
<1> USE DEF TypeOK, SessionsType, TokensType, ResetsType
<1>1. /\ account \in Accounts /\ SessionsType(session) /\ TokensType
      /\ ResetsType /\ req \in [Requests -> Steps]
  OBVIOUS
<1>2. ASSUME NEW S \in SUBSET Sessions, Revoke(S)
      PROVE  TypeOK'
  <2>1. SessionsType(session)'
    BY <1>2, RevokedType DEF Revoke
  <2> QED
    BY <1>1, <1>2, <2>1 DEF Revoke
<1>3. ASSUME NEW s \in Sessions, Expire(s)
      PROVE  TypeOK'
  <2>1. session[s] \in Rows /\ session' = [session EXCEPT ![s].expired = TRUE]
    BY <1>3 DEF Expire
  <2>2. [session[s] EXCEPT !.expired = TRUE] \in Rows
    BY <2>1, RowUpdates
  <2>3. session' \in [Sessions -> Rows]
    BY <2>1, <2>2
  <2>4. \A t \in Sessions : /\ session'[t].life = session[t].life
                            /\ session'[t].hash = session[t].hash
    BY <2>1 DEF Rows
  <2>5. SessionsType(session)'
    BY <2>3, <2>4
  <2> QED
    BY <1>1, <1>3, <2>5 DEF Expire
<1>4. ASSUME NEW s \in Sessions, Delete(s)
      PROVE  TypeOK'
  <2>1. session[s] \in Rows /\ session' = [session EXCEPT ![s].life = "deleted"]
    BY <1>4 DEF Delete
  <2>2. [session[s] EXCEPT !.life = "deleted"] \in Rows
    BY <2>1, RowUpdates
  <2>3. session[s].hash # 0
    BY <1>4 DEF Delete, Live
  <2>4. /\ session'[s].life = "deleted" /\ session'[s].hash = session[s].hash
        /\ \A t \in Sessions \ {s} : session'[t] = session[t]
    BY <2>1 DEF Rows
  <2>5. SessionsType(session)'
    BY <2>1, <2>2, <2>3, <2>4
  <2> QED
    BY <1>1, <1>4, <2>5 DEF Delete
<1>5. ASSUME NEW s \in Sessions, NEW n \in Tokens, Forget(s, n)
      PROVE  TypeOK'
  <2>1. consumed' \in [Sessions -> SUBSET Tokens] /\ lost' \in [Sessions -> SUBSET Tokens]
    BY <1>5 DEF Forget
  <2> QED
    BY <1>1, <1>5, <2>1 DEF Forget
<1>6. CASE ForgotPassword
  <2>1. resets' \in [sent : 0..MaxResets, consumed : SUBSET Resets]
    BY <1>6, LimitsAssumption DEF ForgotPassword
  <2> QED
    BY <1>1, <1>6, <2>1 DEF ForgotPassword
<1>7. ASSUME NEW n \in Resets, ForgetReset(n)
      PROVE  TypeOK'
  <2>1. resets' \in [sent : 0..MaxResets, consumed : SUBSET Resets]
    BY <1>7 DEF ForgetReset
  <2> QED
    BY <1>1, <1>7, <2>1 DEF ForgetReset
<1>8. CASE UNCHANGED vars
  BY <1>1, <1>8 DEF vars
<1> QED
  BY <1>2, <1>3, <1>4, <1>5, <1>6, <1>7, <1>8

(***************************************************************************)
(* A step is one of those the lemmas are about.                            *)
(***************************************************************************)
LEMMA StepCases ==
  ASSUME [Next]_vars
  PROVE  \/ \E s \in Sessions :
              Register(s) \/ \E r \in Requests : CommitLogin(r, s) \/ CommitReset(r, s)
         \/ \E r \in Requests :
              \/ Login(r) \/ ReadSession(r) \/ RevokeReused(r) \/ Rotate(r)
              \/ CommitPassword(r) \/ CommitDisable(r) \/ RevokeForReset(r) \/ Fail(r)
              \/ \E n \in Resets : Reset(r, n)
              \/ \E s \in Sessions :
                   \/ \E n \in Tokens : Refresh(r, s, n)
                   \/ \E step \in {"password", "disable", "delete"} :
                        Authenticate(r, step, s)
         \/ \E S \in SUBSET Sessions : Revoke(S)
         \/ \E s \in Sessions : Expire(s) \/ Delete(s) \/ \E n \in Tokens : Forget(s, n)
         \/ ForgotPassword
         \/ \E n \in Resets : ForgetReset(n)
         \/ UNCHANGED vars
<1>1. ASSUME NEW r \in Requests, RequestStep(r)
      PROVE  \/ \E s \in Sessions : CommitLogin(r, s) \/ CommitReset(r, s)
             \/ Login(r) \/ ReadSession(r) \/ RevokeReused(r) \/ Rotate(r)
             \/ CommitPassword(r) \/ CommitDisable(r) \/ RevokeForReset(r) \/ Fail(r)
             \/ \E n \in Resets : Reset(r, n)
             \/ \E s \in Sessions :
                  \/ \E n \in Tokens : Refresh(r, s, n)
                  \/ \E step \in {"password", "disable", "delete"} :
                       Authenticate(r, step, s)
  BY <1>1, Zenon DEF RequestStep
<1>2. \A s \in Sessions : {s} \in SUBSET Sessions
  OBVIOUS
<1>3. Sessions \in SUBSET Sessions
  OBVIOUS
<1> QED
  BY <1>1, <1>2, <1>3, Zenon DEF Next
-----------------------------------------------------------------------------
(***************************************************************************)
(* A request that consumed a token keeps its session until it ends.        *)
(***************************************************************************)
LEMMA NamesStep ==
  ASSUME TypeOK, RefreshesNameSessions, [Next]_vars
  PROVE  RefreshesNameSessions'
<1> USE DEF RefreshesNameSessions, Done, Idle
<1>1. req \in [Requests -> Steps]
  BY DEF TypeOK
<1>2. ASSUME NEW q \in Requests, req' = Done(q)
      PROVE  RefreshesNameSessions'
  BY <1>1, <1>2
<1>3. ASSUME req' = req
      PROVE  RefreshesNameSessions'
  BY <1>3
<1>4. ASSUME NEW q \in Requests, NEW step, NEW s, NEW n, Begin(q, step, s, n),
             step \in {"consumed", "match"} => s \in Sessions
      PROVE  RefreshesNameSessions'
  BY <1>1, <1>4 DEF Begin
<1>5. CASE \E s \in Sessions :
             Register(s) \/ \E r \in Requests : CommitLogin(r, s) \/ CommitReset(r, s)
  BY <1>2, <1>3, <1>5 DEF Register, CommitLogin, CommitReset
<1>6. ASSUME NEW r \in Requests,
             \/ RevokeReused(r) \/ Rotate(r) \/ CommitPassword(r)
             \/ CommitDisable(r) \/ Fail(r)
      PROVE  RefreshesNameSessions'
  <2>1. req' = Done(r)
    BY <1>6 DEF RevokeReused, Rotate, CommitPassword, CommitDisable, Fail
  <2> QED
    BY <1>2, <2>1
<1>7. ASSUME NEW r \in Requests, Login(r)
      PROVE  RefreshesNameSessions'
  BY <1>4, <1>7 DEF Login
<1>8. ASSUME NEW r \in Requests, ReadSession(r)
      PROVE  RefreshesNameSessions'
  <2>1. req[r].at = "consumed" /\ req[r].session \in Sessions
    BY <1>8 DEF ReadSession, At
  <2>2. \/ req' = Done(r)
        \/ req' = [req EXCEPT ![r].at = "match"]
        \/ req' = [req EXCEPT ![r].at = "reuse"]
    BY <1>8 DEF ReadSession
  <2>3. CASE \E step \in {"match", "reuse"} : req' = [req EXCEPT ![r].at = step]
    BY <1>1, <2>1, <2>3 DEF Steps
  <2> QED
    BY <1>2, <2>2, <2>3
<1>9. ASSUME NEW r \in Requests, RevokeForReset(r)
      PROVE  RefreshesNameSessions'
  <2>1. req[r].at = "reset" /\ req'[r].at = "resetting"
        /\ \A q \in Requests \ {r} : req'[q] = req[q]
    BY <1>1, <1>9 DEF RevokeForReset, At, Steps
  <2> QED
    BY <2>1
<1>10. ASSUME NEW r \in Requests, NEW n \in Resets, Reset(r, n)
       PROVE  RefreshesNameSessions'
  BY <1>4, <1>10 DEF Reset
<1>11. ASSUME NEW r \in Requests, NEW s \in Sessions, NEW n \in Tokens,
              Refresh(r, s, n)
       PROVE  RefreshesNameSessions'
  BY <1>4, <1>11 DEF Refresh
<1>12. ASSUME NEW r \in Requests, NEW s \in Sessions,
              NEW step \in {"password", "disable", "delete"},
              Authenticate(r, step, s)
       PROVE  RefreshesNameSessions'
  BY <1>4, <1>12 DEF Authenticate
<1>13. CASE \/ \E S \in SUBSET Sessions : Revoke(S)
            \/ \E s \in Sessions :
                 Expire(s) \/ Delete(s) \/ \E n \in Tokens : Forget(s, n)
            \/ ForgotPassword
            \/ \E n \in Resets : ForgetReset(n)
            \/ UNCHANGED vars
  BY <1>3, <1>13 DEF Revoke, Expire, Delete, Forget, ForgotPassword, ForgetReset, vars
<1> QED
  BY <1>5, <1>6, <1>7, <1>8, <1>9, <1>10, <1>11, <1>12, <1>13, StepCases
-----------------------------------------------------------------------------
(***************************************************************************)
(* The three effects a step can have on the sessions: to close some (or    *)
(* none), to open one and close some, to exchange a token.                 *)
(***************************************************************************)
Closing(S) ==
  /\ heirs' = heirs
  /\ \A s \in Sessions :
       /\ session'[s].hash = session[s].hash
       /\ ChainLife'[s] = IF s \in S /\ Live(s) THEN "closed" ELSE ChainLife[s]

Opening(s, S) ==
  /\ heirs' = heirs
  /\ session[s].life = "unborn"
  /\ session'[s].hash = 1
  /\ ChainLife'[s] = "open"
  /\ \A t \in Sessions \ {s} :
       /\ session'[t].hash = session[t].hash
       /\ ChainLife'[t] = IF t \in S /\ Live(t) THEN "closed" ELSE ChainLife[t]

Exchanging(s) ==
  /\ Live(s)
  /\ ChainLife' = ChainLife
  /\ session[s].hash + 1 \in Tokens
  /\ session'[s].hash = session[s].hash + 1
  /\ \A t \in Sessions \ {s} : session'[t].hash = session[t].hash
  /\ heirs' = [heirs EXCEPT ![s] =
                 @ \cup {<<session[s].hash, session[s].hash + 1>>}]

\* What revoking does to a session.
LEMMA RevokedLife ==
  ASSUME TypeOK, NEW S \in SUBSET Sessions, NEW s \in Sessions
  PROVE  /\ Revoked(S)[s].hash = session[s].hash
         /\ s \in S /\ Live(s) => Revoked(S)[s].life = "revoked"
         /\ ~(s \in S /\ Live(s)) => Revoked(S)[s].life = session[s].life
<1>1. session[s] \in Rows
  BY DEF TypeOK
<1> QED
  BY <1>1 DEF Revoked, Rows

LEMMA RevokingCloses ==
  ASSUME TypeOK, NEW S \in SUBSET Sessions, session' = Revoked(S), heirs' = heirs
  PROVE  Closing(S)
<1>1. ASSUME NEW s \in Sessions
      PROVE  /\ session'[s].hash = session[s].hash
             /\ ChainLife'[s] = IF s \in S /\ Live(s) THEN "closed" ELSE ChainLife[s]
  <2>1. CASE s \in S /\ Live(s)
    BY <2>1, RevokedLife DEF ChainLife, Live
  <2>2. CASE ~(s \in S /\ Live(s))
    BY <2>2, RevokedLife DEF ChainLife, Live
  <2> QED
    BY <2>1, <2>2
<1> QED
  BY <1>1 DEF Closing

LEMMA QuietCloses ==
  ASSUME session' = session, heirs' = heirs
  PROVE  Closing({})
BY DEF Closing, ChainLife, Live

LEMMA OpenOpens ==
  ASSUME TypeOK, NEW s \in Sessions, NEW S \in SUBSET Sessions, NEW table, NEW from,
         table = session \/ table = Revoked(S), Open(s, table, from)
  PROVE  \E T \in SUBSET Sessions : Opening(s, T)
<1>1. session \in [Sessions -> Rows]
  BY DEF TypeOK
<1>2. /\ heirs' = heirs
      /\ session[s].life = "unborn"
      /\ session' = [table EXCEPT ![s] = [life |-> "live", expired |-> FALSE,
                                         hash |-> 1]]
  BY DEF Open
<1>3. CASE table = session
  <2>1. Opening(s, {})
    BY <1>1, <1>2, <1>3 DEF Opening, ChainLife, Live
  <2> QED
    BY <2>1
<1>4. CASE table = Revoked(S)
  <2>1. Revoked(S) = [t \in Sessions |-> Revoked(S)[t]]
    BY DEF Revoked
  <2>2. /\ session'[s] = [life |-> "live", expired |-> FALSE, hash |-> 1]
        /\ \A t \in Sessions \ {s} : session'[t] = Revoked(S)[t]
    BY <1>2, <1>4, <2>1
  <2>3. session'[s].hash = 1 /\ ChainLife'[s] = "open"
    BY <2>2 DEF ChainLife, Live
  <2>4. ASSUME NEW t \in Sessions \ {s}
        PROVE  /\ session'[t].hash = session[t].hash
               /\ ChainLife'[t] = IF t \in S /\ Live(t) THEN "closed" ELSE ChainLife[t]
    <3>1. CASE t \in S /\ Live(t)
      BY <2>2, <3>1, RevokedLife DEF ChainLife, Live
    <3>2. CASE ~(t \in S /\ Live(t))
      BY <2>2, <3>2, RevokedLife DEF ChainLife, Live
    <3> QED
      BY <3>1, <3>2
  <2>5. Opening(s, S)
    BY <1>2, <2>3, <2>4 DEF Opening
  <2> QED
    BY <2>5
<1> QED
  BY <1>3, <1>4

(***************************************************************************)
(* Every step has one of the three effects.                                *)
(***************************************************************************)
LEMMA Effects ==
  ASSUME TypeOK, RefreshesNameSessions, [Next]_vars
  PROVE  \/ \E S \in SUBSET Sessions : Closing(S)
         \/ \E s \in Sessions : Exchanging(s) \/ \E S \in SUBSET Sessions : Opening(s, S)
<1>1. {} \in SUBSET Sessions /\ Sessions \in SUBSET Sessions
  OBVIOUS
<1>2. ASSUME session' = session, heirs' = heirs
      PROVE  \E S \in SUBSET Sessions : Closing(S)
  BY <1>1, <1>2, QuietCloses
<1>3. ASSUME NEW S \in SUBSET Sessions, session' = Revoked(S), heirs' = heirs
      PROVE  \E T \in SUBSET Sessions : Closing(T)
  BY <1>3, RevokingCloses
<1>4. ASSUME NEW s \in Sessions, Register(s)
      PROVE  \E S \in SUBSET Sessions : Opening(s, S)
  <2>1. Open(s, session, [password |-> 1, unchecked |-> FALSE])
    BY <1>4 DEF Register
  <2> QED
    BY <1>1, <2>1, OpenOpens
<1>5. ASSUME NEW s \in Sessions, NEW r \in Requests, CommitLogin(r, s)
      PROVE  \E S \in SUBSET Sessions : Opening(s, S)
  <2>1. PICK from : Open(s, session, from)
    BY <1>5 DEF CommitLogin
  <2> QED
    BY <1>1, <2>1, OpenOpens
<1>6. ASSUME NEW s \in Sessions, NEW r \in Requests, CommitReset(r, s)
      PROVE  \E S \in SUBSET Sessions : Opening(s, S)
  <2>1. PICK from : Open(s, Revoked(req[r].found), from)
    BY <1>6 DEF CommitReset
  <2>2. req[r].found \in SUBSET Sessions
    BY DEF TypeOK, Steps
  <2> QED
    BY <2>1, <2>2, OpenOpens
<1>7. ASSUME NEW r \in Requests, Rotate(r)
      PROVE  \/ \E S \in SUBSET Sessions : Closing(S)
             \/ \E s \in Sessions : Exchanging(s)
  <2> DEFINE s == req[r].session
             n == session[s].hash + 1
  <2>1. s \in Sessions /\ session \in [Sessions -> Rows]
    BY <1>7 DEF Rotate, At, RefreshesNameSessions, TypeOK
  <2>2. CASE ~Rotatable(s, req[r].token)
    BY <1>2, <1>7, <2>2 DEF Rotate
  <2>3. CASE Rotatable(s, req[r].token)
    <3>1. /\ n \in Tokens
          /\ session' = [session EXCEPT ![s] = Rotated(s, n)]
          /\ heirs' = [heirs EXCEPT ![s] = @ \cup {<<req[r].token, n>>}]
      BY <1>7, <2>3 DEF Rotate
    <3>2. Live(s) /\ req[r].token = session[s].hash
      BY <2>3 DEF Rotatable
    <3>3. /\ session'[s].hash = n /\ session'[s].life = session[s].life
          /\ \A t \in Sessions \ {s} : session'[t] = session[t]
      BY <2>1, <3>1 DEF Rotated, Rows
    <3>4. ChainLife' = ChainLife
      BY <3>3 DEF ChainLife, Live
    <3>5. Exchanging(s)
      BY <3>1, <3>2, <3>3, <3>4 DEF Exchanging
    <3> QED
      BY <2>1, <3>5
  <2> QED
    BY <2>2, <2>3
<1>8. ASSUME NEW r \in Requests,
             \/ Login(r) \/ ReadSession(r) \/ RevokeForReset(r) \/ Fail(r)
             \/ \E n \in Resets : Reset(r, n)
             \/ \E s \in Sessions :
                  \/ \E n \in Tokens : Refresh(r, s, n)
                  \/ \E step \in {"password", "disable", "delete"} :
                       Authenticate(r, step, s)
      PROVE  session' = session /\ heirs' = heirs
  BY <1>8 DEF Login, ReadSession, RevokeForReset, Fail, Reset, Refresh, Authenticate
<1>9. ASSUME NEW r \in Requests,
             RevokeReused(r) \/ CommitPassword(r) \/ CommitDisable(r)
      PROVE  \E S \in SUBSET Sessions : session' = Revoked(S) /\ heirs' = heirs
  <2>1. Sessions \ {req[r].session} \in SUBSET Sessions
    OBVIOUS
  <2> QED
    BY <1>1, <1>9, <2>1 DEF RevokeReused, CommitPassword, CommitDisable
<1>10. ASSUME NEW S \in SUBSET Sessions, Revoke(S)
       PROVE  \E T \in SUBSET Sessions : Closing(T)
  BY <1>3, <1>10 DEF Revoke
<1>11. ASSUME NEW s \in Sessions, Expire(s)
       PROVE  \E S \in SUBSET Sessions : Closing(S)
  <2>1. heirs' = heirs /\ session' = [session EXCEPT ![s].expired = TRUE]
    BY <1>11 DEF Expire
  <2>2. \A t \in Sessions : /\ session'[t].life = session[t].life
                            /\ session'[t].hash = session[t].hash
    BY <2>1 DEF TypeOK, Rows
  <2>3. Closing({})
    BY <2>1, <2>2 DEF Closing, ChainLife, Live
  <2> QED
    BY <2>3
<1>12. ASSUME NEW s \in Sessions, Delete(s)
       PROVE  \E S \in SUBSET Sessions : Closing(S)
  <2>1. heirs' = heirs /\ session' = [session EXCEPT ![s].life = "deleted"]
    BY <1>12 DEF Delete
  <2>2. /\ session'[s].life = "deleted" /\ session'[s].hash = session[s].hash
        /\ \A t \in Sessions \ {s} : session'[t] = session[t]
    BY <2>1 DEF TypeOK, Rows
  <2>3. ASSUME NEW t \in Sessions
        PROVE  /\ session'[t].hash = session[t].hash
               /\ ChainLife'[t] = IF t \in {s} /\ Live(t) THEN "closed" ELSE ChainLife[t]
    <3>1. CASE t = s
      BY <1>12, <2>2, <3>1 DEF Delete, ChainLife, Live
    <3>2. CASE t # s
      BY <2>2, <3>2 DEF ChainLife, Live
    <3> QED
      BY <3>1, <3>2
  <2>4. Closing({s})
    BY <2>1, <2>3 DEF Closing
  <2> QED
    BY <2>4
<1>13. ASSUME \/ \E s \in Sessions, n \in Tokens : Forget(s, n)
              \/ ForgotPassword
              \/ \E n \in Resets : ForgetReset(n)
              \/ UNCHANGED vars
       PROVE  session' = session /\ heirs' = heirs
  BY <1>13 DEF Forget, ForgotPassword, ForgetReset, vars
<1>14. \/ \E s \in Sessions :
            Register(s) \/ \E r \in Requests : CommitLogin(r, s) \/ CommitReset(r, s)
       \/ \E r \in Requests : Rotate(r)
       \/ session' = session /\ heirs' = heirs
       \/ \E S \in SUBSET Sessions : session' = Revoked(S) /\ heirs' = heirs
       \/ \E S \in SUBSET Sessions : Revoke(S)
       \/ \E s \in Sessions : Expire(s) \/ Delete(s)
  BY <1>8, <1>9, <1>13, StepCases, Zenon
<1> QED
  BY <1>2, <1>3, <1>4, <1>5, <1>6, <1>7, <1>10, <1>11, <1>12, <1>14, Zenon

LEMMA OrderStep ==
  ASSUME TypeOK, RefreshesNameSessions, TokensInOrder, [Next]_vars
  PROVE  TokensInOrder'
<1>1. \A s \in Sessions : session[s].hash \in 0..MaxTokens
  BY DEF TypeOK, Rows
<1>2. \A s \in Sessions : \A h \in heirs[s] : h[1] \in Nat
  BY DEF TypeOK, Tokens
<1>3. ASSUME NEW S \in SUBSET Sessions, Closing(S)
      PROVE  TokensInOrder'
  BY <1>3 DEF Closing, TokensInOrder
<1>4. ASSUME NEW s \in Sessions, NEW S \in SUBSET Sessions, Opening(s, S)
      PROVE  TokensInOrder'
  <2>1. session[s].hash = 0
    BY <1>4 DEF Opening, TypeOK
  <2>2. heirs[s] = {}
    BY <1>2, <2>1 DEF TokensInOrder
  <2> QED
    BY <1>4, <2>2 DEF Opening, TokensInOrder
<1>5. ASSUME NEW s \in Sessions, Exchanging(s)
      PROVE  TokensInOrder'
  <2> DEFINE old == session[s].hash
  <2>1. /\ heirs'[s] = heirs[s] \cup {<<old, old + 1>>}
        /\ session'[s].hash = old + 1
        /\ \A t \in Sessions \ {s} : /\ heirs'[t] = heirs[t]
                                     /\ session'[t].hash = session[t].hash
    BY <1>5 DEF Exchanging, TypeOK
  <2>2. \A h \in heirs[s] : h[1] < old
    BY DEF TokensInOrder
  <2>3. \A h \in heirs'[s] : h[1] < session'[s].hash
    BY <1>1, <1>2, <2>1, <2>2
  <2>4. \A h, k \in heirs'[s] : h[1] = k[1] => h = k
    BY <1>1, <1>2, <2>1, <2>2 DEF TokensInOrder
  <2> QED
    BY <2>1, <2>3, <2>4 DEF TokensInOrder
<1> QED
  BY <1>3, <1>4, <1>5, Effects
-----------------------------------------------------------------------------
LEMMA InitIInv ==
  ASSUME Init
  PROVE  IInv
<1>1. 0 \in 0..MaxTokens /\ 0 \in 0..MaxResets /\ 0 \in Passwords
  BY LimitsAssumption DEF Passwords
<1>2. account \in Accounts
  BY NoAccountType DEF Init
<1>3. req \in [Requests -> Steps]
  BY IdleType DEF Init
<1>4. [life |-> "unborn", expired |-> FALSE, hash |-> 0] \in Rows
  BY <1>1 DEF Rows
<1>5. SessionsType(session)
  BY <1>4 DEF Init, SessionsType
<1>6. [password |-> 0, unchecked |-> FALSE] \in Origins
  BY <1>1 DEF Origins
<1>7. TokensType
  BY <1>6 DEF Init, TokensType
<1>8. ResetsType
  BY <1>1 DEF Init, ResetsType
<1>9. TypeOK
  BY <1>2, <1>3, <1>5, <1>7, <1>8, TypeParts
<1>10. RefreshesNameSessions
  BY DEF Init, Idle, RefreshesNameSessions
<1>11. TokensInOrder
  BY DEF Init, TokensInOrder
<1> QED
  BY <1>9, <1>10, <1>11 DEF IInv

LEMMA NextIInv ==
  ASSUME IInv, [Next]_vars
  PROVE  IInv'
<1> USE DEF IInv
<1>1. TypeOK'
  BY StepCases, OpeningTypes, RequestTypes, OtherTypes, Zenon
<1>2. RefreshesNameSessions'
  BY NamesStep
<1>3. TokensInOrder'
  BY OrderStep
<1> QED
  BY <1>1, <1>2, <1>3

(***************************************************************************)
(* IInv, the inductive invariant, holds in every reachable state of the    *)
(* requests on an account.                                                 *)
(***************************************************************************)
THEOREM Invariance == Spec => []IInv
BY InitIInv, NextIInv, PTL DEF Spec

(***************************************************************************)
(* The variables keep their types: every session that was created has the  *)
(* hash of a token, whatever Create, Refresh and the purge do to it.       *)
(***************************************************************************)
THEOREM TypeCorrect == Spec => []TypeOK
<1>1. IInv => TypeOK
  BY DEF IInv
<1> QED
  BY <1>1, Invariance, PTL

(***************************************************************************)
(* For any number of sessions, racing requests and tokens, a refresh token *)
(* is exchanged for one other at most, whatever Redis has lost: the        *)
(* WHERE clause of the rotation suffices (SessionRotateRefreshTokenHash).  *)
(***************************************************************************)
THEOREM SingleExchange == Spec => []ExchangedOnce
<1>1. ASSUME IInv
      PROVE  ExchangedOnce
  <2>1. \A s \in Sessions : session[s].hash \in 0..MaxTokens
    BY <1>1 DEF IInv, TypeOK, Rows
  <2>2. \A s \in Sessions : \A h \in heirs[s] : h[1] \in Nat
    BY <1>1 DEF IInv, TypeOK, Tokens
  <2> QED
    BY <1>1, <2>1, <2>2 DEF IInv, TokensInOrder, ExchangedOnce
<1> QED
  BY <1>1, Invariance, PTL
-----------------------------------------------------------------------------
\* Two functions on S with the same values are equal.
LEMMA SameFunction ==
  ASSUME NEW S, NEW f, NEW g, f = [x \in S |-> f[x]], g = [x \in S |-> g[x]],
         \A x \in S : f[x] = g[x]
  PROVE  f = g
OBVIOUS

(***************************************************************************)
(* The initial states map to an initial state of TokenChain.               *)
(***************************************************************************)
LEMMA ChainInit ==
  ASSUME Init
  PROVE  Chain!Init
<1>1. ChainLife = [s \in Sessions |-> "unborn"]
  <2>1. ChainLife = [s \in Sessions |-> ChainLife[s]]
    BY DEF ChainLife
  <2>2. \A s \in Sessions : session[s].life = "unborn"
    BY DEF Init
  <2>3. ASSUME NEW s \in Sessions
        PROVE  ChainLife[s] = "unborn"
    BY <2>2 DEF ChainLife, Live
  <2> QED
    BY <2>1, <2>3
<1>2. ChainCurrent = [s \in Sessions |-> 0]
  BY DEF Init, ChainCurrent
<1>3. ChainSpent = [s \in Sessions |-> {}]
  BY DEF Init, ChainSpent
<1> QED
  BY <1>1, <1>2, <1>3 DEF Chain!Init

(***************************************************************************)
(* Every step maps to a step of TokenChain.                                *)
(***************************************************************************)
LEMMA ChainStep ==
  ASSUME IInv, [Next]_vars
  PROVE  Chain!Next
<1>1. TypeOK /\ RefreshesNameSessions /\ TokensInOrder
  BY DEF IInv
<1>2. \A s \in Sessions : /\ ChainLife[s] = "open" <=> Live(s)
                          /\ session[s].life = "unborn" => ChainLife[s] = "unborn"
  BY DEF ChainLife, Live
<1>3. ASSUME NEW S \in SUBSET Sessions, Closing(S)
      PROVE  Chain!Close
  <2>1. ChainLife' = Chain!Closed(S)
    BY <1>2, <1>3 DEF Closing, Chain!Closed, ChainLife
  <2>2. ChainCurrent' = ChainCurrent /\ ChainSpent' = ChainSpent
    BY <1>3 DEF Closing, ChainCurrent, ChainSpent
  <2> QED
    BY <2>1, <2>2 DEF Chain!Close
<1>4. ASSUME NEW s \in Sessions, NEW S \in SUBSET Sessions, Opening(s, S)
      PROVE  Chain!Open(s)
  <2>1. ChainLife[s] = "unborn"
    BY <1>2, <1>4 DEF Opening
  <2>2. ChainLife' = [Chain!Closed(S) EXCEPT ![s] = "open"]
    <3> DEFINE after == [Chain!Closed(S) EXCEPT ![s] = "open"]
    <3>1. Chain!Closed(S) = [t \in Sessions |-> Chain!Closed(S)[t]]
      BY DEF Chain!Closed
    <3>2. after = [t \in Sessions |-> after[t]]
      BY <3>1
    <3>3. ChainLife' = [t \in Sessions |-> ChainLife'[t]]
      BY DEF ChainLife
    <3>4. \A t \in Sessions \ {s} :
            Chain!Closed(S)[t] = IF t \in S /\ Live(t) THEN "closed" ELSE ChainLife[t]
      BY <1>2 DEF Chain!Closed
    <3>5. after[s] = "open" /\ \A t \in Sessions \ {s} : after[t] = Chain!Closed(S)[t]
      BY <3>1
    <3>6. \A t \in Sessions : ChainLife'[t] = after[t]
      BY <1>4, <3>4, <3>5 DEF Opening
    <3> HIDE DEF after
    <3>7. ChainLife' = after
      BY <3>2, <3>3, <3>6, SameFunction
    <3> QED
      BY <3>7 DEF after
  <2>3. ChainCurrent' = [ChainCurrent EXCEPT ![s] = 1] /\ 1 \in Tokens
    <3>1. 1 \in Tokens
      BY LimitsAssumption DEF Tokens
    <3>2. ChainCurrent' = [ChainCurrent EXCEPT ![s] = 1]
      BY <1>4 DEF Opening, ChainCurrent
    <3> QED
      BY <3>1, <3>2
  <2>4. ChainSpent' = ChainSpent
    BY <1>4 DEF Opening, ChainSpent
  <2> QED
    BY <2>1, <2>2, <2>3, <2>4 DEF Chain!Open
<1>5. ASSUME NEW s \in Sessions, Exchanging(s)
      PROVE  Chain!Exchange(s)
  <2> DEFINE n == session[s].hash + 1
  <2>1. ChainLife[s] = "open" /\ ChainLife' = ChainLife
    BY <1>2, <1>5 DEF Exchanging
  <2>2. ChainCurrent' = [ChainCurrent EXCEPT ![s] = n]
    BY <1>5 DEF Exchanging, ChainCurrent
  <2>3. n \in Tokens \ (ChainSpent[s] \cup {ChainCurrent[s]})
    <3>1. session[s].hash \in Nat /\ n \in Tokens
      BY <1>1, <1>5 DEF Exchanging, TypeOK, Rows
    <3>2. \A h \in heirs[s] : h[1] \in Nat /\ h[1] < session[s].hash
      BY <1>1 DEF TypeOK, Tokens, TokensInOrder
    <3>3. n \notin ChainSpent[s] /\ n # ChainCurrent[s]
      BY <3>1, <3>2 DEF ChainSpent, ChainCurrent
    <3> QED
      BY <3>1, <3>3
  <2>4. ChainSpent' = [ChainSpent EXCEPT ![s] = @ \cup {ChainCurrent[s]}]
    <3>1. /\ heirs'[s] = heirs[s] \cup {<<session[s].hash, n>>}
          /\ \A t \in Sessions \ {s} : heirs'[t] = heirs[t]
      BY <1>1, <1>5 DEF Exchanging, TypeOK
    <3>2. ChainSpent'[s] = ChainSpent[s] \cup {ChainCurrent[s]}
      <4>1. ChainSpent'[s] = {h[1] : h \in heirs'[s]}
        BY DEF ChainSpent
      <4>2. ChainSpent[s] = {h[1] : h \in heirs[s]} /\ ChainCurrent[s] = session[s].hash
        BY DEF ChainSpent, ChainCurrent
      <4>3. <<session[s].hash, n>>[1] = session[s].hash
        OBVIOUS
      <4>4. \A x : x \in ChainSpent'[s] <=> x \in ChainSpent[s] \/ x = session[s].hash
        BY <3>1, <4>1, <4>2, <4>3
      <4> QED
        BY <4>2, <4>4
    <3>3. \A t \in Sessions \ {s} : ChainSpent'[t] = ChainSpent[t]
      BY <3>1 DEF ChainSpent
    <3> QED
      BY <3>2, <3>3 DEF ChainSpent
  <2> QED
    BY <2>1, <2>2, <2>3, <2>4 DEF Chain!Exchange
<1> QED
  BY <1>1, <1>3, <1>4, <1>5, Effects DEF Chain!Next

(***************************************************************************)
(* The requests on Postgres and Redis implement TokenChain: no session is  *)
(* opened again, none exchanges a token after it was closed, and no token  *)
(* is current twice.                                                       *)
(***************************************************************************)
THEOREM Refinement == Spec => ImplementsTokenChain
<1>1. IInv /\ [Next]_vars => [Chain!Next]_(Chain!vars)
  BY ChainStep
<1>2. Init => Chain!Init
  BY ChainInit
<1> QED
  BY <1>1, <1>2, Invariance, PTL DEF Spec, ImplementsTokenChain, Chain!Spec
=============================================================================
