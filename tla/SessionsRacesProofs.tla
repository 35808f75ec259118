------------------------ MODULE SessionsRacesProofs -------------------------
(***************************************************************************)
(* Theorems of Sessions about the races of its requests: which sessions    *)
(* survive a change of the account, and what a refresh that failed or that *)
(* another one overtook leaves behind.                                     *)
(***************************************************************************)
EXTENDS SessionsProofs

\* Before the account is registered there is nothing to refresh or change.
NothingBeforeRegister ==
  account.password = 0 =>
    /\ account = NoAccount
    /\ resets.sent = 0
    /\ \A s \in Sessions : session[s].life = "unborn" /\ held[s] = {}
    /\ \A r \in Requests : At(r, "idle")

\* A reset between its two steps has found every session that is live, but
\* for those opened since.
ResetsFoundTheSessions ==
  \A r \in Requests :
    At(r, "resetting") =>
      \A s \in Sessions : Live(s) => s \in req[r].found \/ origin[s].unchecked

AccountInv ==
  /\ NothingBeforeRegister
  /\ ResetsFoundTheSessions
  /\ SessionsFollowThePassword
  /\ InactiveHasNoSessions

\* A request that has consumed its token and not yet rotated it.
InFlight(r) == req[r].at \in {"consumed", "match"}

Fresh(s) == Live(s) /\ ~session[s].expired

\* The tokens that were presented, though Redis may have lost their ids.
Presented(s) == consumed[s] \cup lost[s]

TokensWereIssued ==
  \A s \in Sessions : \A n \in held[s] \cup consumed[s] : n <= session[s].hash

OldTokensWerePresented ==
  \A s \in Sessions : \A n \in Tokens : n < session[s].hash => n \in Presented(s)

FlightsArePresented ==
  \A r \in Requests : InFlight(r) => req[r].token \in Presented(req[r].session)

FlightsAreCurrent ==
  \A r \in Requests :
    InFlight(r) => \/ req[r].token = session[req[r].session].hash
                   \/ req[r].token \in lost[req[r].session]

OneFlight ==
  \A r, q \in Requests :
    /\ r # q /\ InFlight(r) /\ InFlight(q)
    /\ req[r].session = req[q].session
    /\ req[r].token = req[q].token
    => req[r].token \in lost[req[r].session]

ReusesNameSessions ==
  \A r \in Requests : At(r, "reuse") => req[r].session \in Sessions

TokensInv ==
  /\ TokensWereIssued
  /\ OldTokensWerePresented
  /\ FlightsArePresented
  /\ FlightsAreCurrent
  /\ OneFlight
  /\ ReusesNameSessions
  /\ ReuseSeenOnlyAfterLoss
  /\ StrandedOnlyByFailure

RacesInv == IInv /\ AccountInv /\ TokensInv
-----------------------------------------------------------------------------
(***************************************************************************)
(* What a step does to one session, and to the requests.                   *)
(***************************************************************************)
Subsides(s) ==
  /\ session'[s].hash = session[s].hash
  /\ Live(s)' => Live(s)
  /\ Fresh(s)' => Fresh(s)

OthersWait(r) == \A q \in Requests \ {r} : req'[q] = req[q]

LEMMA RequestEnds ==
  ASSUME TypeOK, NEW r \in Requests, req' = Done(r)
  PROVE  req'[r].at = "idle" /\ req'[r] = Idle /\ OthersWait(r)
BY DEF TypeOK, Done, Idle, OthersWait

LEMMA RequestBegins ==
  ASSUME TypeOK, NEW r \in Requests, NEW step, NEW s, NEW n, Begin(r, step, s, n)
  PROVE  /\ req[r].at = "idle"
         /\ req'[r].at = step /\ req'[r].session = s /\ req'[r].token = n
         /\ req'[r].copy = account
         /\ OthersWait(r)
BY DEF TypeOK, Begin, At, Idle, OthersWait

LEMMA RequestMoves ==
  ASSUME TypeOK, NEW r \in Requests, NEW step, req' = [req EXCEPT ![r].at = step]
  PROVE  /\ req'[r].at = step
         /\ req'[r].session = req[r].session /\ req'[r].token = req[r].token
         /\ req'[r].found = req[r].found
         /\ OthersWait(r)
BY DEF TypeOK, Steps, OthersWait

LEMMA RevokedSubsides ==
  ASSUME TypeOK, NEW S \in SUBSET Sessions, session' = Revoked(S)
  PROVE  /\ \A s \in Sessions : Subsides(s)
         /\ \A s \in S : ~Live(s)'
         /\ \A s \in Sessions : session[s].life = "unborn" => session'[s] = session[s]
<1>1. ASSUME NEW s \in Sessions
      PROVE  /\ Subsides(s)
             /\ s \in S => ~Live(s)'
             /\ session[s].life = "unborn" => session'[s] = session[s]
  <2>1. session[s] \in Rows
    BY DEF TypeOK
  <2>2. CASE s \in S /\ Live(s)
    <3>1. session'[s] = [session[s] EXCEPT !.life = "revoked"]
      BY <2>2 DEF Revoked
    <3>2. session'[s].life = "revoked" /\ session'[s].hash = session[s].hash
      BY <2>1, <3>1 DEF Rows
    <3> QED
      BY <2>2, <3>2 DEF Subsides, Live, Fresh
  <2>3. CASE ~(s \in S /\ Live(s))
    <3>1. session'[s] = session[s]
      BY <2>3 DEF Revoked
    <3> QED
      BY <2>3, <3>1 DEF Subsides, Live, Fresh
  <2> QED
    BY <2>2, <2>3
<1> QED
  BY <1>1

LEMMA SessionsStay ==
  ASSUME session' = session
  PROVE  \A s \in Sessions : Subsides(s)
BY DEF Subsides, Live, Fresh

\* Opening a session, in the table as it is or as a revocation leaves it.
LEMMA OpenEffect ==
  ASSUME TypeOK, NEW s \in Sessions, NEW S \in SUBSET Sessions, NEW table, NEW from,
         table = session \/ table = Revoked(S), Open(s, table, from)
  PROVE  /\ session[s].life = "unborn"
         /\ session'[s] = [life |-> "live", expired |-> FALSE, hash |-> 1]
         /\ \A t \in Sessions \ {s} : Subsides(t)
         /\ table = Revoked(S) => \A t \in S \ {s} : ~Live(t)'
         /\ origin'[s] = from
         /\ \A t \in Sessions \ {s} : origin'[t] = origin[t]
<1>1. /\ session \in [Sessions -> Rows]
      /\ origin \in [Sessions -> Origins]
  BY DEF TypeOK
<1>2. /\ session[s].life = "unborn"
      /\ session' = [table EXCEPT ![s] = [life |-> "live", expired |-> FALSE,
                                         hash |-> 1]]
      /\ origin' = [origin EXCEPT ![s] = from]
  BY DEF Open
<1>3. table = [t \in Sessions |-> table[t]]
  BY <1>1 DEF Revoked
<1>4. /\ session'[s] = [life |-> "live", expired |-> FALSE, hash |-> 1]
      /\ \A t \in Sessions \ {s} : session'[t] = table[t]
  BY <1>2, <1>3
<1>5. /\ origin'[s] = from
      /\ \A t \in Sessions \ {s} : origin'[t] = origin[t]
  BY <1>1, <1>2
<1>6. ASSUME NEW t \in Sessions \ {s}
      PROVE  Subsides(t) /\ (table = Revoked(S) /\ t \in S => ~Live(t)')
  <2>1. session[t] \in Rows
    BY <1>1
  <2>2. CASE table = Revoked(S) /\ t \in S /\ Live(t)
    <3>1. session'[t] = [session[t] EXCEPT !.life = "revoked"]
      BY <1>4, <2>2 DEF Revoked
    <3>2. session'[t].life = "revoked" /\ session'[t].hash = session[t].hash
      BY <2>1, <3>1 DEF Rows
    <3> QED
      BY <3>2 DEF Subsides, Live, Fresh
  <2>3. CASE ~(table = Revoked(S) /\ t \in S /\ Live(t))
    <3>1. session'[t] = session[t]
      BY <1>4, <2>3 DEF Revoked
    <3>2. Subsides(t) /\ (Live(t)' <=> Live(t))
      BY <3>1 DEF Subsides, Live, Fresh
    <3> QED
      BY <2>3, <3>2
  <2> QED
    BY <2>2, <2>3
<1> QED
  BY <1>2, <1>4, <1>5, <1>6
-----------------------------------------------------------------------------
(***************************************************************************)
(* A step that leaves the account and the origins alone, opens no session  *)
(* and begins no reset's transaction.                                      *)
(***************************************************************************)
AccountStays ==
  /\ account' = account
  /\ origin' = origin
  /\ \A s \in Sessions : Live(s)' => Live(s)
  /\ \A r \in Requests :
       At(r, "resetting")' => At(r, "resetting") /\ req'[r].found = req[r].found

LEMMA RequestStays ==
  ASSUME TypeOK, NEW r \in Requests,
         \/ Login(r) \/ ReadSession(r) \/ RevokeReused(r) \/ Rotate(r) \/ Fail(r)
         \/ \E n \in Resets : Reset(r, n)
         \/ \E s \in Sessions :
              \/ \E n \in Tokens : Refresh(r, s, n)
              \/ \E step \in {"password", "disable", "delete"} :
                   Authenticate(r, step, s)
  PROVE  /\ account' = account /\ origin' = origin
         /\ \A q \in Requests :
              At(q, "resetting")' => /\ At(q, "resetting")
                                     /\ req'[q].found = req[q].found
<1>1. account' = account /\ origin' = origin
  BY DEF Login, ReadSession, RevokeReused, Rotate, Fail, Reset, Refresh, Authenticate
<1>2. OthersWait(r) /\ req'[r].at # "resetting"
  <2>1. ASSUME req' = Done(r)
        PROVE  OthersWait(r) /\ req'[r].at # "resetting"
    BY <2>1, RequestEnds
  <2>2. ASSUME NEW step, NEW s, NEW n, step # "resetting", Begin(r, step, s, n)
        PROVE  OthersWait(r) /\ req'[r].at # "resetting"
    BY <2>2, RequestBegins
  <2>3. ASSUME NEW step \in {"match", "reuse"}, req' = [req EXCEPT ![r].at = step]
        PROVE  OthersWait(r) /\ req'[r].at # "resetting"
    BY <2>3, RequestMoves
  <2>4. CASE Login(r)
    BY <2>2, <2>4 DEF Login
  <2>5. CASE ReadSession(r)
    <3>1. \/ req' = Done(r)
          \/ req' = [req EXCEPT ![r].at = "match"]
          \/ req' = [req EXCEPT ![r].at = "reuse"]
      BY <2>5 DEF ReadSession
    <3> QED
      BY <2>1, <2>3, <3>1
  <2>6. CASE RevokeReused(r) \/ Rotate(r) \/ Fail(r)
    BY <2>1, <2>6 DEF RevokeReused, Rotate, Fail
  <2>7. CASE \E n \in Resets : Reset(r, n)
    BY <2>2, <2>7 DEF Reset
  <2>8. CASE \E s \in Sessions, n \in Tokens : Refresh(r, s, n)
    BY <2>2, <2>8 DEF Refresh
  <2>9. CASE \E s \in Sessions : \E step \in {"password", "disable", "delete"} :
               Authenticate(r, step, s)
    BY <2>2, <2>9 DEF Authenticate
  <2> QED
    BY <2>4, <2>5, <2>6, <2>7, <2>8, <2>9
<1> QED
  BY <1>1, <1>2 DEF At, OthersWait

LEMMA RotateKeepsLife ==
  ASSUME TypeOK, RefreshesNameSessions, NEW r \in Requests, Rotate(r)
  PROVE  \A s \in Sessions : Live(s)' <=> Live(s)
<1> DEFINE s == req[r].session
           n == session[s].hash + 1
<1>1. s \in Sessions /\ session \in [Sessions -> Rows]
  BY DEF Rotate, At, RefreshesNameSessions, TypeOK
<1>2. CASE Rotatable(s, req[r].token)
  <2>1. session' = [session EXCEPT ![s] = Rotated(s, n)]
    BY <1>2 DEF Rotate
  <2>2. Rotated(s, n).life = session[s].life
    BY <1>1 DEF Rotated, Rows
  <2>3. \A t \in Sessions : session'[t].life = session[t].life
    BY <1>1, <2>1, <2>2
  <2> QED
    BY <2>3 DEF Live
<1>3. CASE ~Rotatable(s, req[r].token)
  BY <1>3 DEF Rotate, Live
<1> QED
  BY <1>2, <1>3

LEMMA ExpireOrDelete ==
  ASSUME TypeOK, NEW s \in Sessions, Expire(s) \/ Delete(s)
  PROVE  \A t \in Sessions : Subsides(t)
<1>1. session \in [Sessions -> Rows]
  BY DEF TypeOK
<1>2. CASE Expire(s)
  <2>1. /\ Live(s) /\ session'[s].hash = session[s].hash
        /\ session'[s].expired = TRUE
        /\ \A t \in Sessions \ {s} : session'[t] = session[t]
    BY <1>1, <1>2 DEF Expire, Rows
  <2> QED
    BY <2>1 DEF Subsides, Live, Fresh
<1>3. CASE Delete(s)
  <2>1. /\ session'[s].hash = session[s].hash /\ session'[s].life = "deleted"
        /\ \A t \in Sessions \ {s} : session'[t] = session[t]
    BY <1>1, <1>3 DEF Delete, Rows
  <2> QED
    BY <2>1 DEF Subsides, Live, Fresh
<1> QED
  BY <1>2, <1>3

(***************************************************************************)
(* A step leaves the account alone, or is one of those that do not.        *)
(***************************************************************************)
LEMMA AccountCases ==
  ASSUME TypeOK, RefreshesNameSessions, [Next]_vars
  PROVE  \/ \E s \in Sessions :
              Register(s) \/ \E r \in Requests : CommitLogin(r, s) \/ CommitReset(r, s)
         \/ \E r \in Requests : CommitPassword(r) \/ CommitDisable(r) \/ RevokeForReset(r)
         \/ AccountStays
<1>1. ASSUME NEW r \in Requests,
             \/ Login(r) \/ ReadSession(r) \/ RevokeReused(r) \/ Rotate(r) \/ Fail(r)
             \/ \E n \in Resets : Reset(r, n)
             \/ \E s \in Sessions :
                  \/ \E n \in Tokens : Refresh(r, s, n)
                  \/ \E step \in {"password", "disable", "delete"} :
                       Authenticate(r, step, s)
      PROVE  AccountStays
  <2>1. \A s \in Sessions : Live(s)' => Live(s)
    <3>1. CASE session' = session
      BY <3>1 DEF Live
    <3>2. CASE RevokeReused(r)
      <4>1. session' = Revoked(Sessions) /\ Sessions \in SUBSET Sessions
        BY <3>2 DEF RevokeReused
      <4> QED
        BY <4>1, RevokedSubsides DEF Subsides
    <3>3. CASE Rotate(r)
      BY <3>3, RotateKeepsLife
    <3>4. session' = session \/ RevokeReused(r) \/ Rotate(r)
      BY <1>1 DEF Login, ReadSession, Fail, Reset, Refresh, Authenticate
    <3> QED
      BY <3>1, <3>2, <3>3, <3>4
  <2> QED
    BY <1>1, <2>1, RequestStays DEF AccountStays
<1>2. ASSUME \/ \E S \in SUBSET Sessions : Revoke(S)
             \/ \E s \in Sessions :
                  Expire(s) \/ Delete(s) \/ \E n \in Tokens : Forget(s, n)
             \/ ForgotPassword
             \/ \E n \in Resets : ForgetReset(n)
             \/ UNCHANGED vars
      PROVE  AccountStays
  <2>1. account' = account /\ origin' = origin /\ req' = req
    BY <1>2 DEF Revoke, Expire, Delete, Forget, ForgotPassword, ForgetReset, vars
  <2>2. \A s \in Sessions : Live(s)' => Live(s)
    <3>1. CASE session' = session
      BY <3>1 DEF Live
    <3>2. CASE \E S \in SUBSET Sessions : Revoke(S)
      BY <3>2, RevokedSubsides DEF Revoke, Subsides
    <3>3. CASE \E s \in Sessions : Expire(s) \/ Delete(s)
      BY <3>3, ExpireOrDelete DEF Subsides
    <3>4. \/ session' = session
          \/ \E S \in SUBSET Sessions : Revoke(S)
          \/ \E s \in Sessions : Expire(s) \/ Delete(s)
      BY <1>2 DEF Forget, ForgotPassword, ForgetReset, vars
    <3> QED
      BY <3>1, <3>2, <3>3, <3>4
  <2> QED
    BY <2>1, <2>2 DEF AccountStays, At
<1> QED
  BY <1>1, <1>2, StepCases, Zenon
-----------------------------------------------------------------------------
(***************************************************************************)
(* Nothing happens before the account is registered, and no statement      *)
(* takes its password away.                                                *)
(***************************************************************************)
LEMMA PasswordStays ==
  ASSUME TypeOK, account.password # 0,
         \/ \E s \in Sessions :
              Register(s) \/ \E r \in Requests : CommitLogin(r, s) \/ CommitReset(r, s)
         \/ \E r \in Requests : CommitPassword(r) \/ CommitDisable(r) \/ RevokeForReset(r)
         \/ AccountStays
  PROVE  account'.password # 0
<1>1. account \in Accounts /\ account.password \in Nat
  BY LimitsAssumption DEF TypeOK, Accounts, Passwords
<1>2. /\ [account EXCEPT !.disabled = TRUE].password = account.password
      /\ [account EXCEPT !.disabled = FALSE].password = account.password
      /\ [account EXCEPT !.disabled = TRUE, !.scheduled = TRUE].password
           = account.password
      /\ [account EXCEPT !.scheduled = FALSE, !.disabled = FALSE].password
           = account.password
      /\ [account EXCEPT !.password = account.password + 1].password
           = account.password + 1
      /\ [NoAccount EXCEPT !.password = 1].password = 1
  BY <1>1 DEF Accounts, NoAccount
<1>3. CASE \E s \in Sessions : Register(s)
  BY <1>2, <1>3 DEF Register
<1>4. CASE \E s \in Sessions, r \in Requests : CommitLogin(r, s)
  BY <1>2, <1>4 DEF CommitLogin, Reactivated
<1>5. CASE \/ \E s \in Sessions, r \in Requests : CommitReset(r, s)
           \/ \E r \in Requests : CommitPassword(r)
  <2>1. account' = [account EXCEPT !.password = account.password + 1]
    BY <1>5 DEF CommitReset, CommitPassword
  <2> QED
    BY <1>1, <1>2, <2>1
<1>6. CASE \E r \in Requests : CommitDisable(r)
  BY <1>2, <1>6 DEF CommitDisable
<1>7. CASE \E r \in Requests : RevokeForReset(r)
  BY <1>7 DEF RevokeForReset
<1>8. CASE AccountStays
  BY <1>8 DEF AccountStays
<1> QED
  BY <1>3, <1>4, <1>5, <1>6, <1>7, <1>8

LEMMA NothingStep ==
  ASSUME TypeOK, RefreshesNameSessions, NothingBeforeRegister, [Next]_vars
  PROVE  NothingBeforeRegister'
<1>1. CASE account.password # 0
  BY <1>1, AccountCases, PasswordStays DEF NothingBeforeRegister
<1>2. CASE account.password = 0
  <2>1. /\ account = NoAccount /\ resets.sent = 0
        /\ \A s \in Sessions : session[s].life = "unborn" /\ held[s] = {}
        /\ \A r \in Requests : req[r].at = "idle"
    BY <1>2 DEF NothingBeforeRegister, At
  <2>2. CASE \E s \in Sessions : Register(s)
    <3>1. account'.password = 1
      BY <2>2 DEF Register, NoAccount
    <3> QED
      BY <3>1 DEF NothingBeforeRegister
  <2>3. ASSUME NEW S \in SUBSET Sessions, Revoke(S)
        PROVE  NothingBeforeRegister'
    <3>1. /\ session' = Revoked(S)
          /\ account' = account /\ resets' = resets /\ held' = held /\ req' = req
      BY <2>3 DEF Revoke
    <3>2. \A s \in Sessions : session'[s] = session[s]
      BY <2>1, <3>1, RevokedSubsides
    <3> QED
      BY <2>1, <3>1, <3>2 DEF NothingBeforeRegister, At
  <2>4. ASSUME \/ \E s \in Sessions : \E n \in Tokens : Forget(s, n)
               \/ \E n \in Resets : ForgetReset(n)
               \/ UNCHANGED vars
        PROVE  NothingBeforeRegister'
    <3>1. /\ account' = account /\ session' = session /\ held' = held /\ req' = req
          /\ resets'.sent = resets.sent
      BY <2>4 DEF Forget, ForgetReset, vars, TypeOK
    <3> QED
      BY <2>1, <3>1 DEF NothingBeforeRegister, At
  <2>5. ~\E s \in Sessions :
           \/ \E r \in Requests : CommitLogin(r, s) \/ CommitReset(r, s)
           \/ Expire(s) \/ Delete(s)
    BY <2>1 DEF CommitLogin, CommitReset, Expire, Delete, At, Live
  <2>6. ~ForgotPassword
    BY <2>1 DEF ForgotPassword
  <2>7. ASSUME NEW r \in Requests
        PROVE  ~(\/ Login(r) \/ ReadSession(r) \/ RevokeReused(r) \/ Rotate(r)
                 \/ CommitPassword(r) \/ CommitDisable(r) \/ RevokeForReset(r) \/ Fail(r)
                 \/ \E n \in Resets : Reset(r, n)
                 \/ \E s \in Sessions :
                      \/ \E n \in Tokens : Refresh(r, s, n)
                      \/ \E step \in {"password", "disable", "delete"} :
                           Authenticate(r, step, s))
    <3>1. 1..0 = {}
      OBVIOUS
    <3> QED
      BY <2>1, <3>1 DEF Login, ReadSession, RevokeReused, Rotate, CommitPassword,
         CommitDisable, RevokeForReset, Fail, Reset, Refresh, Authenticate, At
  <2> QED
    BY <2>2, <2>3, <2>4, <2>5, <2>6, <2>7, StepCases, Zenon
<1> QED
  BY <1>1, <1>2
-----------------------------------------------------------------------------
(***************************************************************************)
(* The three parts of AccountInv that speak of live sessions.              *)
(***************************************************************************)
LiveSessionsInv ==
  ResetsFoundTheSessions /\ SessionsFollowThePassword /\ InactiveHasNoSessions

LEMMA StayingLive ==
  ASSUME LiveSessionsInv, AccountStays
  PROVE  LiveSessionsInv'
BY DEF LiveSessionsInv, AccountStays, ResetsFoundTheSessions,
       SessionsFollowThePassword, InactiveHasNoSessions, Active

\* A session opened beside the others: what the two invariants ask of it.
LEMMA OpeningLive ==
  ASSUME TypeOK, LiveSessionsInv, NEW s \in Sessions, NEW r \in Requests,
         NEW S \in SUBSET Sessions, NEW table, NEW from,
         table = session \/ table = Revoked(S), Open(s, table, from),
         req' = Done(r),
         from.unchecked \/ ~ResetUnderWay(r),
         from.unchecked \/ (from.password = account'.password /\ Active(account'))
  PROVE  /\ ResetsFoundTheSessions'
         /\ Live(s)' => /\ origin'[s].password = account'.password
                           \/ origin'[s].unchecked
                        /\ Active(account') \/ origin'[s].unchecked
<1>1. /\ \A t \in Sessions \ {s} : Subsides(t) /\ origin'[t] = origin[t]
      /\ origin'[s] = from
  BY OpenEffect
<1>2. req'[r].at = "idle" /\ OthersWait(r)
  BY RequestEnds
<1>3. ASSUME NEW q \in Requests, At(q, "resetting")', NEW t \in Sessions, Live(t)'
      PROVE  t \in req'[q].found \/ origin'[t].unchecked
  <2>1. q # r /\ req'[q] = req[q] /\ req[q].at = "resetting"
    BY <1>2, <1>3 DEF At, OthersWait
  <2>2. CASE t = s
    BY <1>1, <2>1, <2>2 DEF ResetUnderWay, At
  <2>3. CASE t # s
    BY <1>1, <1>3, <2>1, <2>3 DEF Subsides, LiveSessionsInv, ResetsFoundTheSessions, At
  <2> QED
    BY <2>2, <2>3
<1> QED
  BY <1>1, <1>3 DEF ResetsFoundTheSessions

LEMMA RegisterLive ==
  ASSUME TypeOK, NothingBeforeRegister, NEW s \in Sessions, Register(s)
  PROVE  LiveSessionsInv'
<1>1. account = NoAccount /\ account.password = 0
  BY DEF Register, NoAccount
<1>2. /\ \A t \in Sessions : ~Live(t)
      /\ \A r \in Requests : req[r].at = "idle"
  BY <1>1 DEF NothingBeforeRegister, Live, At
<1>3. {} \in SUBSET Sessions
  OBVIOUS
<1>4. Open(s, session, [password |-> 1, unchecked |-> FALSE])
  BY DEF Register
<1>5. /\ \A t \in Sessions \ {s} : Subsides(t)
      /\ origin'[s] = [password |-> 1, unchecked |-> FALSE]
  BY <1>3, <1>4, OpenEffect
<1>6. /\ account' = [password |-> 1, disabled |-> FALSE, scheduled |-> FALSE]
      /\ req' = req
  BY DEF Register, NoAccount
<1>7. \A t \in Sessions : Live(t)' => t = s
  BY <1>2, <1>5 DEF Subsides
<1>8. ResetsFoundTheSessions'
  BY <1>2, <1>6 DEF ResetsFoundTheSessions, At
<1>9. SessionsFollowThePassword' /\ InactiveHasNoSessions'
  BY <1>5, <1>6, <1>7 DEF SessionsFollowThePassword, InactiveHasNoSessions, Active
<1> QED
  BY <1>8, <1>9 DEF LiveSessionsInv

LEMMA LoginLive ==
  ASSUME TypeOK, LiveSessionsInv, NEW s \in Sessions, NEW r \in Requests,
         CommitLogin(r, s)
  PROVE  LiveSessionsInv'
<1> DEFINE copy == req[r].copy
           from == [password  |-> copy.password,
                    unchecked |-> account # copy \/ ResetUnderWay(r)]
<1>1. account \in Accounts /\ copy \in Accounts /\ {} \in SUBSET Sessions
  BY DEF TypeOK, Steps
<1>2. Open(s, session, from) /\ req' = Done(r) /\ account' = Reactivated(copy)
  BY DEF CommitLogin
<1>3. account'.password = account.password /\ (Active(account) => Active(account'))
  BY <1>1, <1>2 DEF Reactivated, Accounts, Active
<1>4. account = copy => Active(account')
  BY <1>1, <1>2 DEF Reactivated, Accounts, Active
<1>5. /\ from.unchecked <=> account # copy \/ ResetUnderWay(r)
      /\ from.password = copy.password
  OBVIOUS
<1>6. /\ from.unchecked \/ ~ResetUnderWay(r)
      /\ from.unchecked \/ (from.password = account'.password /\ Active(account'))
  BY <1>3, <1>4, <1>5
<1> HIDE DEF from, copy
<1>7. /\ ResetsFoundTheSessions'
      /\ Live(s)' => /\ origin'[s].password = account'.password
                        \/ origin'[s].unchecked
                     /\ Active(account') \/ origin'[s].unchecked
  BY <1>1, <1>2, <1>6, OpeningLive
<1>8. \A t \in Sessions \ {s} : Subsides(t) /\ origin'[t] = origin[t]
  BY <1>1, <1>2, OpenEffect
<1>9. SessionsFollowThePassword'
  BY <1>3, <1>7, <1>8 DEF Subsides, LiveSessionsInv, SessionsFollowThePassword
<1>10. InactiveHasNoSessions'
  BY <1>3, <1>7, <1>8 DEF Subsides, LiveSessionsInv, InactiveHasNoSessions
<1> QED
  BY <1>7, <1>9, <1>10 DEF LiveSessionsInv

LEMMA ResetLive ==
  ASSUME TypeOK, LiveSessionsInv, NEW s \in Sessions, NEW r \in Requests,
         CommitReset(r, s)
  PROVE  LiveSessionsInv'
<1> DEFINE S == req[r].found
           from == [password  |-> account.password + 1,
                    unchecked |-> ~Active(account) \/ ResetUnderWay(r)]
<1>1. account \in Accounts /\ S \in SUBSET Sessions /\ req[r].at = "resetting"
  BY DEF TypeOK, Steps, CommitReset, At
<1>2. /\ Open(s, Revoked(S), from) /\ req' = Done(r)
      /\ account' = [account EXCEPT !.password = @ + 1]
  BY DEF CommitReset
<1>3. /\ account'.password = account.password + 1
      /\ Active(account') <=> Active(account)
  BY <1>1, <1>2 DEF Accounts, Active
<1>4. /\ from.unchecked <=> ~Active(account) \/ ResetUnderWay(r)
      /\ from.password = account.password + 1
  OBVIOUS
<1>5. /\ from.unchecked \/ ~ResetUnderWay(r)
      /\ from.unchecked \/ (from.password = account'.password /\ Active(account'))
  BY <1>3, <1>4
<1>6. \A t \in Sessions : Live(t) => t \in S \/ origin[t].unchecked
  BY <1>1 DEF LiveSessionsInv, ResetsFoundTheSessions, At
<1> HIDE DEF from, S
<1>7. /\ ResetsFoundTheSessions'
      /\ Live(s)' => /\ origin'[s].password = account'.password
                        \/ origin'[s].unchecked
                     /\ Active(account') \/ origin'[s].unchecked
  BY <1>1, <1>2, <1>5, OpeningLive
<1>8. /\ \A t \in Sessions \ {s} : Subsides(t) /\ origin'[t] = origin[t]
      /\ \A t \in S \ {s} : ~Live(t)'
  BY <1>1, <1>2, OpenEffect
<1>9. \A t \in Sessions \ {s} : Live(t)' => origin'[t].unchecked
  BY <1>6, <1>8 DEF Subsides
<1>10. SessionsFollowThePassword' /\ InactiveHasNoSessions'
  BY <1>7, <1>9 DEF SessionsFollowThePassword, InactiveHasNoSessions
<1> QED
  BY <1>7, <1>10 DEF LiveSessionsInv

LEMMA PasswordLive ==
  ASSUME TypeOK, LiveSessionsInv, NEW r \in Requests, CommitPassword(r)
  PROVE  LiveSessionsInv'
<1> DEFINE s == req[r].session
           S == Sessions \ {s}
<1>1. account \in Accounts /\ S \in SUBSET Sessions /\ origin \in [Sessions -> Origins]
  BY DEF TypeOK
<1>2. /\ session' = Revoked(S) /\ req' = Done(r)
      /\ account' = [account EXCEPT !.password = @ + 1]
      /\ origin' = [origin EXCEPT ![s].password = account.password + 1]
  BY DEF CommitPassword
<1>3. /\ account'.password = account.password + 1
      /\ Active(account') <=> Active(account)
  BY <1>1, <1>2 DEF Accounts, Active
<1>4. /\ s \in Sessions => origin'[s].password = account.password + 1
      /\ \A t \in Sessions : origin'[t].unchecked = origin[t].unchecked
  BY <1>1, <1>2 DEF Origins
<1>5. /\ \A t \in Sessions : Live(t)' => Live(t)
      /\ \A t \in S : ~Live(t)'
  BY <1>1, <1>2, RevokedSubsides DEF Subsides
<1>6. req'[r].at = "idle" /\ OthersWait(r)
  BY <1>2, RequestEnds
<1>7. ResetsFoundTheSessions'
  BY <1>4, <1>5, <1>6 DEF LiveSessionsInv, ResetsFoundTheSessions, At, OthersWait
<1>8. SessionsFollowThePassword'
  BY <1>3, <1>4, <1>5 DEF SessionsFollowThePassword
<1>9. InactiveHasNoSessions'
  BY <1>3, <1>4, <1>5 DEF LiveSessionsInv, InactiveHasNoSessions
<1> QED
  BY <1>7, <1>8, <1>9 DEF LiveSessionsInv

LEMMA LiveStep ==
  ASSUME TypeOK, RefreshesNameSessions, NothingBeforeRegister, LiveSessionsInv,
         [Next]_vars
  PROVE  LiveSessionsInv'
<1>1. ASSUME NEW r \in Requests, CommitDisable(r)
      PROVE  LiveSessionsInv'
  <2>1. session' = Revoked(Sessions) /\ Sessions \in SUBSET Sessions
    BY <1>1 DEF CommitDisable
  <2>2. \A t \in Sessions : ~Live(t)'
    BY <2>1, RevokedSubsides
  <2> QED
    BY <2>2 DEF LiveSessionsInv, ResetsFoundTheSessions, SessionsFollowThePassword,
                InactiveHasNoSessions
<1>2. ASSUME NEW r \in Requests, RevokeForReset(r)
      PROVE  LiveSessionsInv'
  <2>1. /\ account' = account /\ origin' = origin /\ session' = session
        /\ req' = [req EXCEPT ![r].at = "resetting",
                              ![r].found = {s \in Sessions : Live(s)}]
    BY <1>2 DEF RevokeForReset
  <2>2. req'[r].found = {s \in Sessions : Live(s)} /\ OthersWait(r)
    BY <2>1 DEF TypeOK, Steps, OthersWait
  <2>3. \A s \in Sessions : Live(s)' <=> Live(s)
    BY <2>1 DEF Live
  <2>4. ResetsFoundTheSessions'
    BY <2>1, <2>2, <2>3 DEF LiveSessionsInv, ResetsFoundTheSessions, At, OthersWait
  <2>5. SessionsFollowThePassword' /\ InactiveHasNoSessions'
    BY <2>1, <2>3 DEF LiveSessionsInv, SessionsFollowThePassword, InactiveHasNoSessions,
                      Active
  <2> QED
    BY <2>4, <2>5 DEF LiveSessionsInv
<1> QED
  BY <1>1, <1>2, AccountCases, RegisterLive, LoginLive, ResetLive, PasswordLive,
     StayingLive, Zenon
-----------------------------------------------------------------------------
(***************************************************************************)
(* A step that presents, exchanges and loses no token: a request may read  *)
(* its session, and end.  One that ends between its two steps was lost, or *)
(* its session is over, or is not about the current token.                 *)
(***************************************************************************)
SameToken(r) ==
  req'[r].session = req[r].session /\ req'[r].token = req[r].token

\* After the step the session is revoked, gone or expired.
Over(s) == session'[s].life = "live" => session'[s].expired

RequestQuiet(r) ==
  /\ InFlight(r)' => InFlight(r) /\ SameToken(r)
  /\ At(r, "reuse")' =>
       /\ SameToken(r)
       /\ \/ At(r, "reuse")
          \/ InFlight(r) /\ req[r].token # session[req[r].session].hash
  /\ InFlight(r) /\ ~InFlight(r)' =>
       \/ req[r].session \in failed'
       \/ Over(req[r].session)
       \/ req[r].token # session[req[r].session].hash

TokensStay ==
  /\ held' = held /\ consumed' = consumed /\ lost' = lost
  /\ failed \subseteq failed'
  /\ \A s \in Sessions : Subsides(s)
  /\ \A r \in Requests : RequestQuiet(r)

LEMMA OthersQuiet ==
  ASSUME NEW r \in Requests, OthersWait(r)
  PROVE  \A q \in Requests \ {r} : RequestQuiet(q)
BY DEF OthersWait, RequestQuiet, InFlight, At, SameToken

LEMMA RequestsWait ==
  ASSUME req' = req
  PROVE  \A r \in Requests : RequestQuiet(r)
BY DEF RequestQuiet, InFlight, At, SameToken

\* A request in no flight before the step and after it.
LEMMA GroundedQuiet ==
  ASSUME NEW r \in Requests, OthersWait(r),
         ~InFlight(r), ~InFlight(r)', req'[r].at # "reuse"
  PROVE  \A q \in Requests : RequestQuiet(q)
<1>1. RequestQuiet(r)
  BY DEF RequestQuiet, At
<1> QED
  BY <1>1, OthersQuiet

LEMMA StaysByRequest ==
  ASSUME TypeOK, RefreshesNameSessions, NEW r \in Requests,
         \/ Login(r) \/ ReadSession(r) \/ RevokeReused(r)
         \/ CommitPassword(r) \/ CommitDisable(r) \/ RevokeForReset(r) \/ Fail(r)
         \/ \E n \in Resets : Reset(r, n)
         \/ \E s \in Sessions : \E step \in {"password", "disable", "delete"} :
              Authenticate(r, step, s)
  PROVE  TokensStay
<1>1. CASE ReadSession(r)
  <2> DEFINE s == req[r].session
  <2>1. /\ req[r].at = "consumed" /\ s \in Sessions
        /\ UNCHANGED <<session, held, consumed, lost, failed>>
    BY <1>1 DEF ReadSession, At, RefreshesNameSessions
  <2>2. \A t \in Sessions : Subsides(t)
    BY <2>1, SessionsStay
  <2>3. CASE ~Fresh(s)
    <3>1. req' = Done(r)
      BY <1>1, <2>3 DEF ReadSession, Fresh
    <3>2. req'[r].at = "idle" /\ OthersWait(r) /\ Over(s)
      BY <2>1, <2>3, <3>1, RequestEnds DEF Fresh, Live, Over
    <3>3. RequestQuiet(r)
      BY <3>2 DEF RequestQuiet, InFlight, At
    <3> QED
      BY <2>1, <2>2, <3>2, <3>3, OthersQuiet DEF TokensStay
  <2>4. CASE Fresh(s) /\ session[s].hash = req[r].token
    <3>1. req' = [req EXCEPT ![r].at = "match"]
      BY <1>1, <2>4 DEF ReadSession, Fresh
    <3>2. req'[r].at = "match" /\ SameToken(r) /\ OthersWait(r)
      BY <3>1, RequestMoves DEF SameToken
    <3>3. RequestQuiet(r)
      BY <2>1, <3>2 DEF RequestQuiet, InFlight, At
    <3> QED
      BY <2>1, <2>2, <3>2, <3>3, OthersQuiet DEF TokensStay
  <2>5. CASE Fresh(s) /\ session[s].hash # req[r].token
    <3>1. req' = [req EXCEPT ![r].at = "reuse"]
      BY <1>1, <2>5 DEF ReadSession, Fresh
    <3>2. req'[r].at = "reuse" /\ SameToken(r) /\ OthersWait(r)
      BY <3>1, RequestMoves DEF SameToken
    <3>3. RequestQuiet(r)
      BY <2>1, <2>5, <3>2 DEF RequestQuiet, InFlight, At
    <3> QED
      BY <2>1, <2>2, <3>2, <3>3, OthersQuiet DEF TokensStay
  <2> QED
    BY <2>3, <2>4, <2>5
<1>2. CASE Fail(r)
  <2>1. /\ req' = Done(r) /\ UNCHANGED <<session, held, consumed, lost>>
        /\ failed \subseteq failed'
        /\ InFlight(r) => req[r].session \in failed'
    BY <1>2 DEF Fail, InFlight
  <2>2. req'[r].at = "idle" /\ OthersWait(r)
    BY <2>1, RequestEnds
  <2>3. RequestQuiet(r)
    BY <2>1, <2>2 DEF RequestQuiet, InFlight, At
  <2> QED
    BY <2>1, <2>2, <2>3, OthersQuiet, SessionsStay DEF TokensStay
<1>3. CASE RevokeReused(r) \/ CommitPassword(r) \/ CommitDisable(r)
  <2>1. /\ req' = Done(r) /\ UNCHANGED <<held, consumed, lost, failed>>
        /\ ~InFlight(r)
        /\ \E S \in SUBSET Sessions : session' = Revoked(S)
    BY <1>3 DEF RevokeReused, CommitPassword, CommitDisable, InFlight, At
  <2>2. req'[r].at = "idle" /\ OthersWait(r)
    BY <2>1, RequestEnds
  <2>3. \A q \in Requests : RequestQuiet(q)
    BY <2>1, <2>2, GroundedQuiet DEF InFlight
  <2>4. \A s \in Sessions : Subsides(s)
    BY <2>1, RevokedSubsides
  <2> QED
    BY <2>1, <2>3, <2>4 DEF TokensStay
<1>4. CASE RevokeForReset(r)
  <2>1. UNCHANGED <<session, held, consumed, lost, failed>> /\ req[r].at = "reset"
    BY <1>4 DEF RevokeForReset, At
  <2>2. req'[r].at = "resetting" /\ OthersWait(r)
    BY <1>4 DEF RevokeForReset, TypeOK, Steps, OthersWait
  <2>3. \A q \in Requests : RequestQuiet(q)
    BY <2>1, <2>2, GroundedQuiet DEF InFlight
  <2> QED
    BY <2>1, <2>3, SessionsStay DEF TokensStay
<1>5. CASE \/ Login(r)
           \/ \E n \in Resets : Reset(r, n)
           \/ \E s \in Sessions : \E step \in {"password", "disable", "delete"} :
                Authenticate(r, step, s)
  <2>1. /\ UNCHANGED <<session, held, consumed, lost, failed>>
        /\ \E step \in {"login", "reset", "password", "disable", "delete"} : \E s, n :
             Begin(r, step, s, n)
    BY <1>5 DEF Login, Reset, Authenticate
  <2>2. /\ req[r].at = "idle" /\ OthersWait(r)
        /\ req'[r].at \in {"login", "reset", "password", "disable", "delete"}
    BY <2>1, RequestBegins
  <2>3. \A q \in Requests : RequestQuiet(q)
    BY <2>2, GroundedQuiet DEF InFlight
  <2> QED
    BY <2>1, <2>3, SessionsStay DEF TokensStay
<1> QED
  BY <1>1, <1>2, <1>3, <1>4, <1>5

LEMMA StaysOtherwise ==
  ASSUME TypeOK,
         \/ \E S \in SUBSET Sessions : Revoke(S)
         \/ \E s \in Sessions : Expire(s) \/ Delete(s)
         \/ ForgotPassword
         \/ \E n \in Resets : ForgetReset(n)
         \/ UNCHANGED vars
  PROVE  TokensStay
<1>1. UNCHANGED <<held, consumed, lost, failed, req>>
  BY DEF Revoke, Expire, Delete, ForgotPassword, ForgetReset, vars
<1>2. \A s \in Sessions : Subsides(s)
  <2>1. CASE \E S \in SUBSET Sessions : Revoke(S)
    BY <2>1, RevokedSubsides DEF Revoke
  <2>2. CASE \E s \in Sessions : Expire(s) \/ Delete(s)
    BY <2>2, ExpireOrDelete
  <2>3. CASE session' = session
    BY <2>3, SessionsStay
  <2>4. \/ \E S \in SUBSET Sessions : Revoke(S)
        \/ \E s \in Sessions : Expire(s) \/ Delete(s)
        \/ session' = session
    BY DEF ForgotPassword, ForgetReset, vars
  <2> QED
    BY <2>1, <2>2, <2>3, <2>4
<1> QED
  BY <1>1, <1>2, RequestsWait DEF TokensStay

LEMMA StayKeeps ==
  ASSUME TypeOK, RefreshesNameSessions, TokensInv, TokensStay
  PROVE  TokensInv'
<1>1. \A s \in Sessions : session'[s].hash = session[s].hash
  BY DEF TokensStay, Subsides
<1>2. \A r \in Requests :
        InFlight(r)' => InFlight(r) /\ SameToken(r) /\ req[r].session \in Sessions
  BY DEF TokensStay, RequestQuiet, RefreshesNameSessions, InFlight
<1>3. TokensWereIssued' /\ OldTokensWerePresented'
  BY <1>1 DEF TokensStay, TokensInv, TokensWereIssued, OldTokensWerePresented, Presented
<1>4. FlightsArePresented' /\ FlightsAreCurrent'
  BY <1>1, <1>2 DEF TokensStay, TokensInv, SameToken, FlightsArePresented,
                    FlightsAreCurrent, Presented
<1>5. OneFlight'
  BY <1>2 DEF TokensStay, TokensInv, SameToken, OneFlight
<1>6. ReusesNameSessions' /\ ReuseSeenOnlyAfterLoss'
  BY DEF TokensStay, RequestQuiet, SameToken, TokensInv, ReusesNameSessions,
         ReuseSeenOnlyAfterLoss, FlightsAreCurrent, RefreshesNameSessions, InFlight
<1>7. ASSUME NEW s \in Sessions, Fresh(s)'
      PROVE  \/ session'[s].hash \in held'[s] \ consumed'[s]
             \/ s \in failed'
             \/ \E r \in Requests : /\ InFlight(r)'
                                    /\ req'[r].session = s
                                    /\ req'[r].token = session'[s].hash
  <2>1. Fresh(s) /\ session'[s].hash = session[s].hash
    BY <1>7 DEF TokensStay, Subsides
  <2>2. \/ session[s].hash \in held[s] \ consumed[s]
        \/ s \in failed
        \/ \E r \in Requests : /\ InFlight(r)
                               /\ req[r].session = s
                               /\ req[r].token = session[s].hash
    BY <2>1 DEF Fresh, TokensInv, StrandedOnlyByFailure, InFlight
  <2>3. ASSUME NEW r \in Requests, InFlight(r), req[r].session = s,
               req[r].token = session[s].hash
        PROVE  s \in failed' \/ (InFlight(r)' /\ SameToken(r))
    BY <1>7, <2>3 DEF TokensStay, RequestQuiet, Fresh, Live, Over
  <2> QED
    BY <2>1, <2>2, <2>3 DEF TokensStay, SameToken
<1>8. StrandedOnlyByFailure'
  BY <1>7 DEF StrandedOnlyByFailure, Fresh, InFlight
<1> QED
  BY <1>3, <1>4, <1>5, <1>6, <1>8 DEF TokensInv
-----------------------------------------------------------------------------
(***************************************************************************)
(* A session opens: no token of it was handed out or presented before.     *)
(***************************************************************************)
LEMMA NewSessionIsUnused ==
  ASSUME TypeOK, TokensInv, RefreshesNameSessions, NEW s \in Sessions,
         session[s].life = "unborn"
  PROVE  /\ session[s].hash = 0
         /\ held[s] = {} /\ consumed[s] = {}
         /\ \A r \in Requests :
              InFlight(r) /\ req[r].session = s => req[r].token \in lost[s]
<1>1. session[s].hash = 0
  BY DEF TypeOK
<1>2. \A n \in Tokens : ~(n <= 0)
  BY DEF Tokens
<1>3. held[s] \subseteq Tokens /\ consumed[s] \subseteq Tokens /\ lost[s] \subseteq Tokens
  BY DEF TypeOK
<1>4. held[s] = {} /\ consumed[s] = {}
  BY <1>1, <1>2, <1>3 DEF TokensInv, TokensWereIssued
<1>5. ASSUME NEW r \in Requests, InFlight(r), req[r].session = s
      PROVE  req[r].token \in lost[s]
  BY <1>4, <1>5 DEF TokensInv, FlightsArePresented, Presented
<1> QED
  BY <1>1, <1>4, <1>5

LEMMA OpenKeeps ==
  ASSUME TypeOK, RefreshesNameSessions, TokensInv, NEW s \in Sessions,
         NEW S \in SUBSET Sessions, NEW table, NEW from,
         table = session \/ table = Revoked(S), Open(s, table, from),
         \A r \in Requests : \/ req'[r] = req[r]
                             \/ ~InFlight(r) /\ req'[r].at = "idle"
  PROVE  TokensInv'
<1>1. /\ session[s].life = "unborn"
      /\ session'[s].hash = 1
      /\ \A t \in Sessions \ {s} : Subsides(t)
  BY OpenEffect
<1>2. /\ session[s].hash = 0 /\ held[s] = {} /\ consumed[s] = {}
      /\ \A r \in Requests :
           InFlight(r) /\ req[r].session = s => req[r].token \in lost[s]
  BY <1>1, NewSessionIsUnused
<1>3. /\ consumed' = consumed /\ lost' = lost
      /\ \/ held' = [held EXCEPT ![s] = {1}] /\ failed' = failed
         \/ failed' = failed \cup {s} /\ held' = held
  BY DEF Open
<1>4. /\ \A t \in Sessions \ {s} : held'[t] = held[t]
      /\ held'[s] \subseteq {1}
      /\ failed \subseteq failed'
      /\ 1 \in held'[s] \/ s \in failed'
  BY <1>2, <1>3 DEF TypeOK
<1>5. \A r \in Requests :
        InFlight(r)' => InFlight(r) /\ SameToken(r) /\ req[r].session \in Sessions
  BY DEF InFlight, SameToken, RefreshesNameSessions
<1>6. TokensWereIssued'
  <2>1. \A n \in held'[s] \cup consumed'[s] : n <= session'[s].hash
    BY <1>1, <1>2, <1>3, <1>4
  <2>2. \A t \in Sessions \ {s} : \A n \in held'[t] \cup consumed'[t] :
          n <= session'[t].hash
    BY <1>1, <1>3, <1>4 DEF Subsides, TokensInv, TokensWereIssued
  <2> QED
    BY <2>1, <2>2 DEF TokensWereIssued
<1>7. OldTokensWerePresented'
  <2>1. \A n \in Tokens : ~(n < session'[s].hash)
    BY <1>1 DEF Tokens
  <2> QED
    BY <1>1, <1>3, <2>1 DEF Subsides, TokensInv, OldTokensWerePresented, Presented
<1>8. FlightsArePresented' /\ OneFlight'
  BY <1>3, <1>5 DEF TokensInv, SameToken, FlightsArePresented, OneFlight, Presented
<1>9. FlightsAreCurrent'
  BY <1>1, <1>2, <1>3, <1>5 DEF TokensInv, SameToken, FlightsAreCurrent, Subsides
<1>10. ReusesNameSessions' /\ ReuseSeenOnlyAfterLoss'
  BY <1>3 DEF TokensInv, ReusesNameSessions, ReuseSeenOnlyAfterLoss, At
<1>11. StrandedOnlyByFailure'
  <2>1. \A r \in Requests : InFlight(r) => req'[r] = req[r]
    OBVIOUS
  <2>2. ASSUME NEW t \in Sessions \ {s}, Fresh(t)'
        PROVE  \/ session'[t].hash \in held'[t] \ consumed'[t]
               \/ t \in failed'
               \/ \E r \in Requests : /\ InFlight(r)'
                                      /\ req'[r].session = t
                                      /\ req'[r].token = session'[t].hash
    <3>1. Fresh(t) /\ session'[t].hash = session[t].hash
      BY <1>1, <2>2 DEF Subsides
    <3>2. \/ session[t].hash \in held[t] \ consumed[t]
          \/ t \in failed
          \/ \E r \in Requests : /\ InFlight(r)
                                 /\ req[r].session = t
                                 /\ req[r].token = session[t].hash
      BY <3>1 DEF Fresh, TokensInv, StrandedOnlyByFailure, InFlight
    <3> QED
      BY <1>3, <1>4, <2>1, <3>1, <3>2 DEF InFlight
  <2>3. \/ session'[s].hash \in held'[s] \ consumed'[s]
        \/ s \in failed'
    BY <1>1, <1>2, <1>3, <1>4
  <2> QED
    BY <2>2, <2>3 DEF StrandedOnlyByFailure, Fresh, InFlight
<1> QED
  BY <1>6, <1>7, <1>8, <1>9, <1>10, <1>11 DEF TokensInv

LEMMA OpeningKeeps ==
  ASSUME TypeOK, RefreshesNameSessions, TokensInv, NEW s \in Sessions,
         Register(s) \/ \E r \in Requests : CommitLogin(r, s) \/ CommitReset(r, s)
  PROVE  TokensInv'
<1>1. {} \in SUBSET Sessions
  OBVIOUS
<1>2. CASE Register(s)
  <2>1. req' = req /\ Open(s, session, [password |-> 1, unchecked |-> FALSE])
    BY <1>2 DEF Register
  <2> QED
    BY <1>1, <2>1, OpenKeeps
<1>3. ASSUME NEW r \in Requests, CommitLogin(r, s)
      PROVE  TokensInv'
  <2>1. PICK from : Open(s, session, from)
    BY <1>3 DEF CommitLogin
  <2>2. req' = Done(r) /\ ~InFlight(r)
    BY <1>3 DEF CommitLogin, At, InFlight
  <2>3. \A q \in Requests : req'[q] = req[q] \/ (~InFlight(q) /\ req'[q].at = "idle")
    BY <2>2, RequestEnds DEF OthersWait
  <2> QED
    BY <1>1, <2>1, <2>3, OpenKeeps
<1>4. ASSUME NEW r \in Requests, CommitReset(r, s)
      PROVE  TokensInv'
  <2>1. PICK from : Open(s, Revoked(req[r].found), from)
    BY <1>4 DEF CommitReset
  <2>2. req' = Done(r) /\ ~InFlight(r) /\ req[r].found \in SUBSET Sessions
    BY <1>4 DEF CommitReset, At, InFlight, TypeOK, Steps
  <2>3. \A q \in Requests : req'[q] = req[q] \/ (~InFlight(q) /\ req'[q].at = "idle")
    BY <2>2, RequestEnds DEF OthersWait
  <2> QED
    BY <2>1, <2>2, <2>3, OpenKeeps
<1> QED
  BY <1>2, <1>3, <1>4
-----------------------------------------------------------------------------
(***************************************************************************)
(* A token is presented: if it is old, or another request has presented    *)
(* it, Redis has lost its id.                                              *)
(***************************************************************************)
LEMMA RefreshKeeps ==
  ASSUME TypeOK, RefreshesNameSessions, TokensInv, NEW r \in Requests,
         NEW s \in Sessions, NEW n \in Tokens, Refresh(r, s, n)
  PROVE  TokensInv'
<1>1. /\ n \in held[s] /\ n \notin consumed[s]
      /\ UNCHANGED <<session, held, lost, failed>>
      /\ consumed' = [consumed EXCEPT ![s] = @ \cup {n}]
      /\ Begin(r, "consumed", s, n)
  BY DEF Refresh
<1>2. /\ req[r].at = "idle" /\ req'[r].at = "consumed"
      /\ req'[r].session = s /\ req'[r].token = n
      /\ OthersWait(r)
  BY <1>1, RequestBegins
<1>3. /\ consumed'[s] = consumed[s] \cup {n}
      /\ \A t \in Sessions \ {s} : consumed'[t] = consumed[t]
  BY <1>1 DEF TypeOK
<1>4. n \in Nat /\ session[s].hash \in Nat
  BY LimitsAssumption DEF TypeOK, Tokens, Rows
<1>5. n <= session[s].hash /\ (n < session[s].hash => n \in lost[s])
  BY <1>1 DEF TokensInv, TokensWereIssued, OldTokensWerePresented, Presented
<1>6. n = session[s].hash \/ n \in lost[s]
  BY <1>4, <1>5
<1>7. \A q \in Requests \ {r} :
        InFlight(q) /\ req[q].session = s /\ req[q].token = n => n \in lost[s]
  BY <1>1 DEF TokensInv, FlightsArePresented, Presented
<1>8. \A q \in Requests \ {r} :
        /\ req'[q] = req[q] /\ (InFlight(q)' <=> InFlight(q))
        /\ InFlight(q) => req[q].session \in Sessions
  BY <1>2 DEF OthersWait, InFlight, RefreshesNameSessions
<1>9. \A t \in Sessions : Presented(t) \subseteq Presented(t)' /\ n \in Presented(s)'
  BY <1>1, <1>3 DEF Presented
<1>10. TokensWereIssued'
  BY <1>1, <1>3, <1>5 DEF TokensInv, TokensWereIssued
<1>11. OldTokensWerePresented'
  BY <1>1, <1>9 DEF TokensInv, OldTokensWerePresented
<1>12. FlightsArePresented'
  <2>1. InFlight(r)' => req'[r].token \in consumed'[req'[r].session] \cup lost'[req'[r].session]
    BY <1>2, <1>9 DEF Presented
  <2>2. ASSUME NEW q \in Requests \ {r}, InFlight(q)'
        PROVE  req'[q].token \in consumed'[req'[q].session] \cup lost'[req'[q].session]
    <3>1. req[q].token \in Presented(req[q].session) /\ req[q].session \in Sessions
      BY <1>8, <2>2 DEF TokensInv, FlightsArePresented
    <3>2. PICK t \in Sessions : t = req[q].session
      BY <3>1
    <3>3. req[q].token \in Presented(t)' /\ req'[q].session = t
      BY <1>8, <1>9, <3>1, <3>2
    <3> QED
      BY <1>8, <2>2, <3>3 DEF Presented
  <2> QED
    BY <2>1, <2>2 DEF FlightsArePresented, Presented
<1>13. FlightsAreCurrent'
  BY <1>1, <1>2, <1>6, <1>8 DEF TokensInv, FlightsAreCurrent
<1>14. OneFlight'
  BY <1>1, <1>2, <1>7, <1>8 DEF TokensInv, OneFlight
<1>15. ReusesNameSessions' /\ ReuseSeenOnlyAfterLoss'
  BY <1>1, <1>2, <1>8 DEF TokensInv, ReusesNameSessions, ReuseSeenOnlyAfterLoss, At
<1>16. StrandedOnlyByFailure'
  <2>1. \A q \in Requests : InFlight(q) => InFlight(q)' /\ req'[q] = req[q]
    BY <1>2, <1>8 DEF InFlight
  <2>2. ASSUME NEW t \in Sessions, Fresh(t)
        PROVE  \/ session[t].hash \in held[t] \ consumed'[t]
               \/ t \in failed
               \/ \E q \in Requests : /\ InFlight(q)'
                                      /\ req'[q].session = t
                                      /\ req'[q].token = session[t].hash
    <3>1. \/ session[t].hash \in held[t] \ consumed[t]
          \/ t \in failed
          \/ \E q \in Requests : /\ InFlight(q)
                                 /\ req[q].session = t
                                 /\ req[q].token = session[t].hash
      BY <2>2 DEF Fresh, TokensInv, StrandedOnlyByFailure, InFlight
    <3>2. CASE t = s /\ session[t].hash = n
      BY <1>2, <3>2 DEF InFlight
    <3>3. CASE ~(t = s /\ session[t].hash = n)
      BY <1>3, <2>1, <3>1, <3>3
    <3> QED
      BY <3>2, <3>3
  <2> QED
    BY <1>1, <2>2 DEF StrandedOnlyByFailure, Fresh, Live, InFlight
<1> QED
  BY <1>10, <1>11, <1>12, <1>13, <1>14, <1>15, <1>16 DEF TokensInv

(***************************************************************************)
(* A token is exchanged: it becomes an old one, which was presented, and   *)
(* who else presents it does so after a loss.                              *)
(***************************************************************************)
LEMMA ExchangeKeeps ==
  ASSUME TypeOK, RefreshesNameSessions, TokensInv, NEW r \in Requests, Rotate(r),
         Rotatable(req[r].session, req[r].token)
  PROVE  TokensInv'
<1> DEFINE s == req[r].session
           old == session[s].hash
           n == old + 1
<1>1. s \in Sessions /\ InFlight(r)
  BY DEF Rotate, At, InFlight, RefreshesNameSessions
<1>2. Live(s) /\ req[r].token = old
  BY DEF Rotatable
<1>3. /\ n \in Tokens
      /\ session' = [session EXCEPT ![s] = Rotated(s, n)]
      /\ \/ held' = [held EXCEPT ![s] = @ \cup {n}] /\ failed' = failed
         \/ failed' = failed \cup {s} /\ held' = held
      /\ consumed' = consumed /\ lost' = lost /\ req' = Done(r)
  BY DEF Rotate
<1>4. /\ req'[r].at = "idle" /\ OthersWait(r)
  BY <1>3, RequestEnds
<1>5. /\ session'[s].hash = n
      /\ \A t \in Sessions \ {s} : session'[t] = session[t]
  BY <1>1, <1>3 DEF TypeOK, Rotated, Rows
<1>6. old \in Nat /\ session[s].hash = old
  BY <1>1 DEF TypeOK, Rows
<1>7. /\ \A t \in Sessions \ {s} : held'[t] = held[t]
      /\ held'[s] \subseteq held[s] \cup {n}
      /\ failed \subseteq failed'
      /\ n \in held'[s] \/ s \in failed'
  BY <1>1, <1>3 DEF TypeOK
<1>8. held[s] \subseteq Nat /\ consumed[s] \subseteq Nat
  BY <1>1 DEF TypeOK, Tokens
<1>9. old \in Presented(s)
  BY <1>1, <1>2 DEF TokensInv, FlightsArePresented
<1>10. \A q \in Requests :
         /\ InFlight(q)' => q # r /\ InFlight(q) /\ req'[q] = req[q]
                            /\ req[q].session \in Sessions
         /\ q # r => req'[q] = req[q]
  BY <1>4 DEF OthersWait, InFlight, RefreshesNameSessions
<1>11. \A q \in Requests \ {r} :
         InFlight(q) /\ req[q].session = s /\ req[q].token = old => old \in lost[s]
  BY <1>1, <1>2 DEF TokensInv, OneFlight
<1>12. \A k \in held[s] \cup consumed[s] : k <= old
  BY <1>1 DEF TokensInv, TokensWereIssued
<1> HIDE DEF s, old, n
<1>13. n = old + 1
  BY DEF n
<1>14. TokensWereIssued'
  <2>1. \A k \in held'[s] \cup consumed'[s] : k <= session'[s].hash
    <3>1. \A k \in held'[s] \cup consumed'[s] : k = n \/ (k \in Nat /\ k <= old)
      BY <1>3, <1>7, <1>8, <1>12
    <3> QED
      BY <1>5, <1>6, <1>13, <3>1
  <2> QED
    BY <1>3, <1>5, <1>7, <2>1 DEF TokensInv, TokensWereIssued
<1>15. OldTokensWerePresented'
  <2>1. \A k \in Tokens : k < n => k = old \/ k < old
    BY <1>6, <1>13 DEF Tokens
  <2>2. \A k \in Tokens : k < old => k \in Presented(s)
    BY <1>1, <1>6 DEF TokensInv, OldTokensWerePresented
  <2>3. \A k \in Tokens : k < session'[s].hash => k \in Presented(s)
    BY <1>5, <1>9, <2>1, <2>2
  <2> QED
    BY <1>3, <1>5, <2>3 DEF TokensInv, OldTokensWerePresented, Presented
<1>16. FlightsArePresented' /\ OneFlight'
  BY <1>3, <1>10 DEF TokensInv, FlightsArePresented, OneFlight, Presented
<1>17. FlightsAreCurrent'
  <2>1. ASSUME NEW q \in Requests, InFlight(q)'
        PROVE  \/ req'[q].token = session'[req'[q].session].hash
               \/ req'[q].token \in lost'[req'[q].session]
    <3>1. /\ req[q].token = session[req[q].session].hash
             \/ req[q].token \in lost[req[q].session]
          /\ q # r /\ InFlight(q) /\ req'[q] = req[q] /\ req[q].session \in Sessions
      BY <1>10, <2>1 DEF TokensInv, FlightsAreCurrent
    <3> QED
      BY <1>3, <1>5, <1>6, <1>11, <3>1
  <2> QED
    BY <2>1 DEF FlightsAreCurrent
<1>18. ReusesNameSessions' /\ ReuseSeenOnlyAfterLoss'
  BY <1>3, <1>4, <1>10 DEF TokensInv, ReusesNameSessions, ReuseSeenOnlyAfterLoss, At
<1>19. StrandedOnlyByFailure'
  <2>1. \/ session'[s].hash \in held'[s] \ consumed'[s]
        \/ s \in failed'
    <3>1. n \notin consumed[s]
      BY <1>6, <1>8, <1>12, <1>13
    <3> QED
      BY <1>3, <1>5, <1>7, <3>1
  <2>2. ASSUME NEW t \in Sessions \ {s}, Fresh(t)'
        PROVE  \/ session'[t].hash \in held'[t] \ consumed'[t]
               \/ t \in failed'
               \/ \E q \in Requests : /\ InFlight(q)'
                                      /\ req'[q].session = t
                                      /\ req'[q].token = session'[t].hash
    <3>1. session'[t] = session[t] /\ Fresh(t)
      BY <1>5, <2>2 DEF Fresh, Live
    <3>2. \/ session[t].hash \in held[t] \ consumed[t]
          \/ t \in failed
          \/ \E q \in Requests : /\ InFlight(q)
                                 /\ req[q].session = t
                                 /\ req[q].token = session[t].hash
      BY <3>1 DEF Fresh, TokensInv, StrandedOnlyByFailure, InFlight
    <3>3. \A q \in Requests : InFlight(q) /\ req[q].session = t =>
                                req'[q] = req[q] /\ InFlight(q)'
      <4>1. req[r].session = s
        BY DEF s
      <4> QED
        BY <1>10, <2>2, <4>1 DEF InFlight
    <3> QED
      BY <1>3, <1>7, <3>1, <3>2, <3>3
  <2> QED
    BY <2>1, <2>2 DEF StrandedOnlyByFailure, Fresh, InFlight
<1> QED
  BY <1>14, <1>15, <1>16, <1>17, <1>18, <1>19 DEF TokensInv

\* A rotation that finds no row: the session is over, or has another token.
LEMMA NoRowKeeps ==
  ASSUME TypeOK, RefreshesNameSessions, TokensInv, NEW r \in Requests, Rotate(r),
         ~Rotatable(req[r].session, req[r].token)
  PROVE  TokensInv'
<1>1. UNCHANGED <<session, held, consumed, lost, failed>> /\ req' = Done(r)
  BY DEF Rotate
<1>2. req'[r].at = "idle" /\ OthersWait(r)
  BY <1>1, RequestEnds
<1>3. \/ Over(req[r].session)
      \/ req[r].token # session[req[r].session].hash
  BY <1>1 DEF Rotatable, Live, Over
<1>4. RequestQuiet(r)
  BY <1>2, <1>3 DEF RequestQuiet, InFlight, At
<1>5. TokensStay
  BY <1>1, <1>2, <1>4, OthersQuiet, SessionsStay DEF TokensStay
<1> QED
  BY <1>5, StayKeeps

\* Redis loses the id of a token that was presented.
LEMMA ForgetKeeps ==
  ASSUME TypeOK, RefreshesNameSessions, TokensInv, NEW s \in Sessions,
         NEW n \in Tokens, Forget(s, n)
  PROVE  TokensInv'
<1>1. /\ n \in consumed[s]
      /\ UNCHANGED <<session, held, req, failed>>
      /\ consumed'[s] = consumed[s] \ {n} /\ lost'[s] = lost[s] \cup {n}
      /\ \A t \in Sessions \ {s} : consumed'[t] = consumed[t] /\ lost'[t] = lost[t]
  BY DEF Forget, TypeOK
<1>2. \A t \in Sessions : /\ Presented(t)' = Presented(t)
                          /\ consumed'[t] \subseteq consumed[t]
                          /\ lost[t] \subseteq lost'[t]
  BY <1>1 DEF Presented
<1>3. \A r \in Requests : /\ InFlight(r)' <=> InFlight(r)
                          /\ InFlight(r) => req[r].session \in Sessions
  BY <1>1 DEF InFlight, RefreshesNameSessions
<1>4. TokensWereIssued' /\ OldTokensWerePresented'
  BY <1>1, <1>2 DEF TokensInv, TokensWereIssued, OldTokensWerePresented
<1>5. FlightsArePresented'
  <2>1. ASSUME NEW r \in Requests, InFlight(r)'
        PROVE  req'[r].token \in consumed'[req'[r].session] \cup lost'[req'[r].session]
    <3>1. req[r].token \in Presented(req[r].session)
      BY <1>3, <2>1 DEF TokensInv, FlightsArePresented
    <3>2. PICK t \in Sessions : t = req[r].session
      BY <1>3, <2>1
    <3>3. req[r].token \in Presented(t)' /\ req'[r] = req[r]
      BY <1>1, <1>2, <3>1, <3>2
    <3> QED
      BY <3>2, <3>3 DEF Presented
  <2> QED
    BY <2>1 DEF FlightsArePresented, Presented
<1>6. FlightsAreCurrent' /\ OneFlight'
  BY <1>1, <1>2, <1>3 DEF TokensInv, FlightsAreCurrent, OneFlight
<1>7. ReusesNameSessions' /\ ReuseSeenOnlyAfterLoss'
  BY <1>1, <1>2 DEF TokensInv, ReusesNameSessions, ReuseSeenOnlyAfterLoss, At
<1>8. StrandedOnlyByFailure'
  <2>1. ASSUME NEW t \in Sessions, Fresh(t)
        PROVE  \/ session[t].hash \in held[t] \ consumed'[t]
               \/ t \in failed
               \/ \E q \in Requests : /\ InFlight(q)
                                      /\ req[q].session = t
                                      /\ req[q].token = session[t].hash
    BY <1>2, <2>1 DEF Fresh, TokensInv, StrandedOnlyByFailure, InFlight
  <2> QED
    BY <1>1, <2>1 DEF StrandedOnlyByFailure, Fresh, Live, InFlight
<1> QED
  BY <1>4, <1>5, <1>6, <1>7, <1>8 DEF TokensInv

LEMMA TokensStep ==
  ASSUME TypeOK, RefreshesNameSessions, TokensInv, [Next]_vars
  PROVE  TokensInv'
<1>1. ASSUME NEW r \in Requests,
             \/ Login(r) \/ ReadSession(r) \/ RevokeReused(r) \/ Rotate(r)
             \/ CommitPassword(r) \/ CommitDisable(r) \/ RevokeForReset(r) \/ Fail(r)
             \/ \E n \in Resets : Reset(r, n)
             \/ \E s \in Sessions :
                  \/ \E n \in Tokens : Refresh(r, s, n)
                  \/ \E step \in {"password", "disable", "delete"} :
                       Authenticate(r, step, s)
      PROVE  TokensInv'
  <2>1. CASE Rotate(r)
    BY <2>1, ExchangeKeeps, NoRowKeeps
  <2>2. CASE \E s \in Sessions, n \in Tokens : Refresh(r, s, n)
    BY <2>2, RefreshKeeps
  <2>3. \/ Rotate(r)
        \/ \E s \in Sessions, n \in Tokens : Refresh(r, s, n)
        \/ TokensStay
    BY <1>1, StaysByRequest, Zenon
  <2> QED
    BY <2>1, <2>2, <2>3, StayKeeps
<1>2. ASSUME \/ \E S \in SUBSET Sessions : Revoke(S)
             \/ \E s \in Sessions :
                  Expire(s) \/ Delete(s) \/ \E n \in Tokens : Forget(s, n)
             \/ ForgotPassword
             \/ \E n \in Resets : ForgetReset(n)
             \/ UNCHANGED vars
      PROVE  TokensInv'
  <2>1. CASE \E s \in Sessions, n \in Tokens : Forget(s, n)
    BY <2>1, ForgetKeeps
  <2>2. \/ \E s \in Sessions, n \in Tokens : Forget(s, n)
        \/ TokensStay
    BY <1>2, StaysOtherwise, Zenon
  <2> QED
    BY <2>1, <2>2, StayKeeps
<1> QED
  BY <1>1, <1>2, OpeningKeeps, StepCases, Zenon
-----------------------------------------------------------------------------
LEMMA InitRaces ==
  ASSUME Init
  PROVE  RacesInv
<1>1. IInv
  BY InitIInv
<1>2. \A s \in Sessions : /\ session[s].life = "unborn" /\ session[s].hash = 0
                          /\ held[s] = {} /\ consumed[s] = {}
  BY DEF Init
<1>3. \A r \in Requests : req[r].at = "idle"
  BY DEF Init, Idle
<1>4. NothingBeforeRegister
  BY <1>2, <1>3 DEF Init, NothingBeforeRegister, At
<1>5. ResetsFoundTheSessions /\ SessionsFollowThePassword /\ InactiveHasNoSessions
  BY <1>2, <1>3 DEF ResetsFoundTheSessions, SessionsFollowThePassword,
                    InactiveHasNoSessions, Live, At
<1>6. TokensWereIssued /\ OldTokensWerePresented
  BY <1>2 DEF TokensWereIssued, OldTokensWerePresented, Tokens
<1>7. /\ FlightsArePresented /\ FlightsAreCurrent /\ OneFlight
      /\ ReusesNameSessions /\ ReuseSeenOnlyAfterLoss
  BY <1>3 DEF FlightsArePresented, FlightsAreCurrent, OneFlight, ReusesNameSessions,
              ReuseSeenOnlyAfterLoss, InFlight, At
<1>8. StrandedOnlyByFailure
  BY <1>2 DEF StrandedOnlyByFailure, Live
<1> QED
  BY <1>1, <1>4, <1>5, <1>6, <1>7, <1>8 DEF RacesInv, AccountInv, TokensInv

LEMMA NextRaces ==
  ASSUME RacesInv, [Next]_vars
  PROVE  RacesInv'
<1>1. TypeOK /\ RefreshesNameSessions /\ IInv /\ AccountInv /\ TokensInv
  BY DEF RacesInv, IInv
<1>2. IInv'
  BY <1>1, NextIInv
<1>3. NothingBeforeRegister'
  BY <1>1, NothingStep DEF AccountInv
<1>4. LiveSessionsInv'
  BY <1>1, LiveStep DEF AccountInv, LiveSessionsInv
<1>5. TokensInv'
  BY <1>1, TokensStep
<1> QED
  BY <1>2, <1>3, <1>4, <1>5 DEF RacesInv, AccountInv, LiveSessionsInv

(***************************************************************************)
(* RacesInv, the inductive invariant, holds in every reachable state.      *)
(***************************************************************************)
THEOREM RacesInvariance == Spec => []RacesInv
BY InitRaces, NextRaces, PTL DEF Spec

(***************************************************************************)
(* For any number of requests and sessions, the branch of Refresh that     *)
(* revokes every session is entered only after Redis has lost an id.       *)
(***************************************************************************)
THEOREM ReuseMeansLoss == Spec => []ReuseSeenOnlyAfterLoss
<1>1. RacesInv => ReuseSeenOnlyAfterLoss
  BY DEF RacesInv, TokensInv
<1> QED
  BY <1>1, RacesInvariance, PTL

(***************************************************************************)
(* A live session that no client can refresh is being refreshed, or a      *)
(* refresh or an answer of it was lost.                                    *)
(***************************************************************************)
THEOREM StrandedMeansFailure == Spec => []StrandedOnlyByFailure
<1>1. RacesInv => StrandedOnlyByFailure
  BY DEF RacesInv, TokensInv
<1> QED
  BY <1>1, RacesInvariance, PTL

(***************************************************************************)
(* Of the live sessions, only those of the two races named there rest on a *)
(* password that was changed (UpdatePassword, ResetPassword).              *)
(***************************************************************************)
THEOREM PasswordChangeEndsSessions == Spec => []SessionsFollowThePassword
<1>1. RacesInv => SessionsFollowThePassword
  BY DEF RacesInv, AccountInv
<1> QED
  BY <1>1, RacesInvariance, PTL

(***************************************************************************)
(* Of the sessions of an account that is disabled or scheduled for         *)
(* deletion, only those of such a race are live (Disable, ScheduleDelete). *)
(***************************************************************************)
THEOREM DisablingEndsSessions == Spec => []InactiveHasNoSessions
<1>1. RacesInv => InactiveHasNoSessions
  BY DEF RacesInv, AccountInv
<1> QED
  BY <1>1, RacesInvariance, PTL
-----------------------------------------------------------------------------
(***************************************************************************)
(* What "unchecked" excuses.  Where one request runs at a time, what it    *)
(* has read of the account is still so, and a reset revokes every session. *)
(***************************************************************************)
OneRequest == \A q, r \in Requests : q = r

CopiesAreCurrent == \A r \in Requests : ~At(r, "idle") => req[r].copy = account

ResetsFoundAll ==
  \A r \in Requests : At(r, "resetting") => \A s \in Sessions : Live(s) => s \in req[r].found

RestOnThePassword == \A s \in Sessions : Live(s) => origin[s].password = account.password

Serial == CopiesAreCurrent /\ ResetsFoundAll /\ RestOnThePassword

\* As long as no client resets the password.
NoReset ==
  /\ resets.sent = 0
  /\ \A r \in Requests : req[r].at \notin {"reset", "resetting"}

LEMMA CopiesStep ==
  ASSUME OneRequest, TypeOK, NothingBeforeRegister, CopiesAreCurrent, [Next]_vars
  PROVE  CopiesAreCurrent'
<1>1. CASE account' = account /\ req' = req
  BY <1>1 DEF CopiesAreCurrent, At
<1>2. ASSUME NEW r \in Requests, req' = Done(r)
      PROVE  CopiesAreCurrent'
  BY <1>2, RequestEnds DEF OneRequest, CopiesAreCurrent, At
<1>3. ASSUME NEW r \in Requests, NEW step, NEW s, NEW n, Begin(r, step, s, n),
             account' = account
      PROVE  CopiesAreCurrent'
  BY <1>3, RequestBegins DEF OneRequest, CopiesAreCurrent
<1>4. ASSUME NEW r \in Requests, NEW step, req' = [req EXCEPT ![r].at = step],
             ~At(r, "idle"), account' = account
      PROVE  CopiesAreCurrent'
  <2>1. req'[r].copy = req[r].copy
    BY <1>4 DEF TypeOK, Steps
  <2> QED
    BY <1>4, <2>1 DEF OneRequest, CopiesAreCurrent
<1>5. ASSUME NEW s \in Sessions, Register(s)
      PROVE  CopiesAreCurrent'
  <2>1. account.password = 0 /\ req' = req
    BY <1>5 DEF Register, NoAccount
  <2> QED
    BY <2>1 DEF NothingBeforeRegister, CopiesAreCurrent, At
<1>6. ASSUME NEW r \in Requests,
             \/ \E s \in Sessions : CommitLogin(r, s) \/ CommitReset(r, s)
             \/ CommitPassword(r) \/ CommitDisable(r) \/ RevokeReused(r) \/ Rotate(r) \/ Fail(r)
      PROVE  CopiesAreCurrent'
  BY <1>2, <1>6 DEF CommitLogin, CommitReset, CommitPassword, CommitDisable, RevokeReused,
                    Rotate, Fail
<1>7. ASSUME NEW r \in Requests,
             \/ Login(r) \/ \E n \in Resets : Reset(r, n)
             \/ \E s \in Sessions :
                  \/ \E n \in Tokens : Refresh(r, s, n)
                  \/ \E step \in {"password", "disable", "delete"} :
                       Authenticate(r, step, s)
      PROVE  CopiesAreCurrent'
  BY <1>3, <1>7 DEF Login, Reset, Refresh, Authenticate
<1>8. ASSUME NEW r \in Requests, ReadSession(r)
      PROVE  CopiesAreCurrent'
  <2>1. account' = account /\ ~At(r, "idle")
    BY <1>8 DEF ReadSession, At
  <2>2. \/ req' = Done(r)
        \/ req' = [req EXCEPT ![r].at = "match"]
        \/ req' = [req EXCEPT ![r].at = "reuse"]
    BY <1>8 DEF ReadSession
  <2> QED
    BY <1>2, <1>4, <2>1, <2>2
<1>9. ASSUME NEW r \in Requests, RevokeForReset(r)
      PROVE  CopiesAreCurrent'
  <2>1. account' = account /\ req[r].at = "reset" /\ req'[r].copy = req[r].copy
    BY <1>9 DEF RevokeForReset, At, TypeOK, Steps
  <2> QED
    BY <2>1 DEF OneRequest, CopiesAreCurrent, At
<1>10. ASSUME \/ \E S \in SUBSET Sessions : Revoke(S)
              \/ \E s \in Sessions :
                   Expire(s) \/ Delete(s) \/ \E n \in Tokens : Forget(s, n)
              \/ ForgotPassword
              \/ \E n \in Resets : ForgetReset(n)
              \/ UNCHANGED vars
       PROVE  CopiesAreCurrent'
  BY <1>1, <1>10 DEF Revoke, Expire, Delete, Forget, ForgotPassword, ForgetReset, vars
<1> QED
  BY <1>5, <1>6, <1>7, <1>8, <1>9, <1>10, StepCases, Zenon

\* A session opened, beside the others or after their revocation.
LEMMA OpeningSerial ==
  ASSUME OneRequest, TypeOK, NEW s \in Sessions, NEW r \in Requests,
         NEW S \in SUBSET Sessions, NEW table, NEW from,
         table = session \/ table = Revoked(S), Open(s, table, from),
         req' = Done(r), from.password = account'.password,
         \A t \in Sessions \ {s} : Live(t)' => origin[t].password = account'.password
  PROVE  ResetsFoundAll' /\ RestOnThePassword'
<1>1. origin'[s] = from /\ \A t \in Sessions \ {s} : origin'[t] = origin[t]
  BY OpenEffect
<1>2. req'[r].at = "idle"
  BY RequestEnds
<1>3. ResetsFoundAll'
  BY <1>2 DEF OneRequest, ResetsFoundAll, At
<1>4. RestOnThePassword'
  BY <1>1 DEF RestOnThePassword
<1> QED
  BY <1>3, <1>4

LEMMA SerialStep ==
  ASSUME OneRequest, TypeOK, RefreshesNameSessions, NothingBeforeRegister, Serial, [Next]_vars
  PROVE  Serial'
<1>1. account \in Accounts /\ {} \in SUBSET Sessions /\ Sessions \in SUBSET Sessions
  BY DEF TypeOK
<1>2. CopiesAreCurrent'
  BY CopiesStep DEF Serial
<1>3. ASSUME NEW s \in Sessions, Register(s)
      PROVE  ResetsFoundAll' /\ RestOnThePassword'
  <2>1. account.password = 0 /\ account'.password = 1 /\ req' = req
    BY <1>3 DEF Register, NoAccount
  <2>2. /\ \A t \in Sessions : ~Live(t)
        /\ \A r \in Requests : req[r].at = "idle"
    BY <2>1 DEF NothingBeforeRegister, Live, At
  <2>3. Open(s, session, [password |-> 1, unchecked |-> FALSE])
    BY <1>3 DEF Register
  <2>4. /\ \A t \in Sessions \ {s} : Subsides(t)
        /\ origin'[s] = [password |-> 1, unchecked |-> FALSE]
    BY <1>1, <2>3, OpenEffect
  <2>5. \A t \in Sessions : Live(t)' => t = s
    BY <2>2, <2>4 DEF Subsides
  <2> QED
    BY <2>1, <2>2, <2>4, <2>5 DEF ResetsFoundAll, RestOnThePassword, At
<1>4. ASSUME NEW s \in Sessions, NEW r \in Requests, CommitLogin(r, s)
      PROVE  ResetsFoundAll' /\ RestOnThePassword'
  <2> DEFINE copy == req[r].copy
             from == [password  |-> copy.password,
                      unchecked |-> account # copy \/ ResetUnderWay(r)]
  <2>1. /\ Open(s, session, from) /\ req' = Done(r) /\ account' = Reactivated(copy)
        /\ from.password = copy.password
    BY <1>4 DEF CommitLogin
  <2>2. copy = account
    BY <1>4 DEF CommitLogin, Serial, CopiesAreCurrent, At
  <2>3. account'.password = account.password
    BY <1>1, <2>1 DEF Reactivated, Accounts
  <2> HIDE DEF from, copy
  <2>4. \A t \in Sessions \ {s} : Subsides(t)
    BY <1>1, <2>1, OpenEffect
  <2>5. \A t \in Sessions \ {s} : Live(t)' => origin[t].password = account'.password
    BY <2>3, <2>4 DEF Subsides, Serial, RestOnThePassword
  <2> QED
    BY <1>1, <2>1, <2>2, <2>3, <2>5, OpeningSerial
<1>5. ASSUME NEW s \in Sessions, NEW r \in Requests, CommitReset(r, s)
      PROVE  ResetsFoundAll' /\ RestOnThePassword'
  <2> DEFINE S == req[r].found
             from == [password  |-> account.password + 1,
                      unchecked |-> ~Active(account) \/ ResetUnderWay(r)]
  <2>1. /\ Open(s, Revoked(S), from) /\ req' = Done(r)
        /\ account' = [account EXCEPT !.password = @ + 1]
        /\ from.password = account.password + 1
    BY <1>5 DEF CommitReset
  <2>2. account'.password = account.password + 1 /\ S \in SUBSET Sessions
    BY <1>1, <2>1 DEF Accounts, TypeOK, Steps
  <2>3. \A t \in Sessions : Live(t) => t \in S
    BY <1>5 DEF CommitReset, Serial, ResetsFoundAll
  <2> HIDE DEF from, S
  <2>4. /\ \A t \in Sessions \ {s} : Subsides(t)
        /\ \A t \in S \ {s} : ~Live(t)'
    BY <2>1, <2>2, OpenEffect
  <2>5. \A t \in Sessions \ {s} : ~Live(t)'
    BY <2>3, <2>4 DEF Subsides
  <2> QED
    BY <2>1, <2>2, <2>5, OpeningSerial
<1>6. ASSUME NEW r \in Requests, CommitPassword(r)
      PROVE  ResetsFoundAll' /\ RestOnThePassword'
  <2> DEFINE s == req[r].session
             S == Sessions \ {s}
  <2>1. /\ session' = Revoked(S) /\ req' = Done(r)
        /\ account' = [account EXCEPT !.password = @ + 1]
        /\ origin' = [origin EXCEPT ![s].password = account.password + 1]
    BY <1>6 DEF CommitPassword
  <2>2. account'.password = account.password + 1
    BY <1>1, <2>1 DEF Accounts
  <2>3. s \in Sessions => origin'[s].password = account.password + 1
    BY <2>1 DEF TypeOK, Origins
  <2>4. \A t \in S : ~Live(t)'
    BY <2>1, RevokedSubsides
  <2>5. req'[r].at = "idle"
    BY <2>1, RequestEnds
  <2> QED
    BY <2>2, <2>3, <2>4, <2>5 DEF OneRequest, ResetsFoundAll, RestOnThePassword, At
<1>7. ASSUME NEW r \in Requests, CommitDisable(r)
      PROVE  ResetsFoundAll' /\ RestOnThePassword'
  <2>1. \A t \in Sessions : ~Live(t)'
    BY <1>1, <1>7, RevokedSubsides DEF CommitDisable
  <2> QED
    BY <2>1 DEF ResetsFoundAll, RestOnThePassword
<1>8. ASSUME NEW r \in Requests, RevokeForReset(r)
      PROVE  ResetsFoundAll' /\ RestOnThePassword'
  <2>1. /\ account' = account /\ origin' = origin /\ session' = session
        /\ req' = [req EXCEPT ![r].at = "resetting",
                              ![r].found = {s \in Sessions : Live(s)}]
    BY <1>8 DEF RevokeForReset
  <2>2. req'[r].found = {s \in Sessions : Live(s)}
    BY <2>1 DEF TypeOK, Steps
  <2>3. \A s \in Sessions : Live(s)' <=> Live(s)
    BY <2>1 DEF Live
  <2>4. \A s \in Sessions : Live(s)' => s \in req'[r].found
    BY <2>2, <2>3
  <2>5. ResetsFoundAll'
    BY <2>4 DEF OneRequest, ResetsFoundAll
  <2>6. RestOnThePassword'
    BY <2>1, <2>3 DEF Serial, RestOnThePassword
  <2> QED
    BY <2>5, <2>6
<1>9. CASE AccountStays
  BY <1>2, <1>9 DEF AccountStays, Serial, ResetsFoundAll, RestOnThePassword
<1> QED
  BY <1>2, <1>3, <1>4, <1>5, <1>6, <1>7, <1>8, <1>9, AccountCases DEF Serial

(***************************************************************************)
(* Where one request runs at a time, every live session rests on the       *)
(* current password: both exceptions of SessionsFollowThePassword are      *)
(* races (Login, ResetPassword).                                           *)
(***************************************************************************)
THEOREM OneRequestAtATime ==
  ASSUME OneRequest
  PROVE  Spec => []RestOnThePassword
<1>1. ASSUME Init
      PROVE  Serial
  <2>1. \A r \in Requests : req[r].at = "idle"
    BY <1>1 DEF Init, Idle
  <2>2. \A s \in Sessions : session[s].life = "unborn"
    BY <1>1 DEF Init
  <2> QED
    BY <2>1, <2>2
    DEF Serial, CopiesAreCurrent, ResetsFoundAll, RestOnThePassword, Live, At
<1>2. ASSUME RacesInv, Serial, [Next]_vars
      PROVE  Serial'
  BY <1>2, SerialStep DEF RacesInv, IInv, AccountInv
<1>3. Spec => []Serial
  BY <1>1, <1>2, RacesInvariance, PTL DEF Spec
<1>4. Serial => RestOnThePassword
  BY DEF Serial
<1> QED
  BY <1>3, <1>4, PTL

LEMMA NoResetStep ==
  ASSUME OneRequest, "reset" \notin Kinds, TypeOK, NoReset, [Next]_vars
  PROVE  NoReset'
<1>1. \A r \in Requests : req[r].at \notin {"reset", "resetting"}
  BY DEF NoReset
<1>2. ~\E r \in Requests : \/ RevokeForReset(r)
                           \/ \E s \in Sessions : CommitReset(r, s)
                           \/ \E n \in Resets : Reset(r, n)
  <2>1. 1..0 = {}
    OBVIOUS
  <2> QED
    BY <1>1, <2>1 DEF RevokeForReset, CommitReset, Reset, NoReset, At
<1>3. CASE resets'.sent = resets.sent /\ req' = req
  BY <1>3 DEF NoReset
<1>4. ASSUME NEW r \in Requests, req' = Done(r), resets' = resets
      PROVE  NoReset'
  BY <1>4, RequestEnds DEF OneRequest, NoReset
<1>5. ASSUME NEW r \in Requests, NEW step, NEW s, NEW n, Begin(r, step, s, n),
             step \notin {"reset", "resetting"}, resets' = resets
      PROVE  NoReset'
  BY <1>5, RequestBegins DEF OneRequest, NoReset
<1>6. ASSUME NEW r \in Requests, ReadSession(r)
      PROVE  NoReset'
  <2>1. resets' = resets
    BY <1>6 DEF ReadSession
  <2>2. \/ req' = Done(r)
        \/ req' = [req EXCEPT ![r].at = "match"]
        \/ req' = [req EXCEPT ![r].at = "reuse"]
    BY <1>6 DEF ReadSession
  <2>3. req'[r].at \in {"idle", "match", "reuse"}
    BY <2>2, RequestEnds, RequestMoves
  <2> QED
    BY <2>1, <2>3 DEF OneRequest, NoReset
<1>7. ASSUME NEW r \in Requests,
             \/ \E s \in Sessions : CommitLogin(r, s)
             \/ CommitPassword(r) \/ CommitDisable(r) \/ RevokeReused(r) \/ Rotate(r) \/ Fail(r)
      PROVE  NoReset'
  BY <1>4, <1>7 DEF CommitLogin, CommitPassword, CommitDisable, RevokeReused, Rotate, Fail
<1>8. ASSUME NEW r \in Requests,
             \/ Login(r)
             \/ \E s \in Sessions :
                  \/ \E n \in Tokens : Refresh(r, s, n)
                  \/ \E step \in {"password", "disable", "delete"} :
                       Authenticate(r, step, s)
      PROVE  NoReset'
  BY <1>5, <1>8 DEF Login, Refresh, Authenticate
<1>9. ASSUME \/ \E s \in Sessions :
                  Register(s) \/ Expire(s) \/ Delete(s) \/ \E n \in Tokens : Forget(s, n)
             \/ \E S \in SUBSET Sessions : Revoke(S)
             \/ ForgotPassword
             \/ \E n \in Resets : ForgetReset(n)
             \/ UNCHANGED vars
      PROVE  NoReset'
  BY <1>3, <1>9 DEF Register, Expire, Delete, Forget, Revoke, ForgotPassword, ForgetReset,
                    vars, TypeOK
<1> QED
  BY <1>2, <1>6, <1>7, <1>8, <1>9, StepCases, Zenon

InactiveHasNone == \A s \in Sessions : Live(s) => Active(account)

LEMMA InactiveStep ==
  ASSUME TypeOK, RefreshesNameSessions, CopiesAreCurrent, NoReset, InactiveHasNone, [Next]_vars
  PROVE  InactiveHasNone'
<1>1. account \in Accounts /\ {} \in SUBSET Sessions /\ Sessions \in SUBSET Sessions
  BY DEF TypeOK
<1>2. ASSUME NEW s \in Sessions, Register(s)
      PROVE  InactiveHasNone'
  BY <1>2 DEF Register, NoAccount, InactiveHasNone, Active
<1>3. ASSUME NEW s \in Sessions, NEW r \in Requests, CommitLogin(r, s)
      PROVE  InactiveHasNone'
  <2>1. req[r].copy = account
    BY <1>3 DEF CommitLogin, CopiesAreCurrent, At
  <2>2. Active(account')
    BY <1>1, <1>3, <2>1 DEF CommitLogin, Reactivated, Accounts, Active
  <2> QED
    BY <2>2 DEF InactiveHasNone
<1>4. ASSUME NEW s \in Sessions, NEW r \in Requests, CommitReset(r, s)
      PROVE  InactiveHasNone'
  BY <1>4 DEF CommitReset, NoReset, At
<1>5. ASSUME NEW r \in Requests, CommitPassword(r)
      PROVE  InactiveHasNone'
  <2>1. \A t \in Sessions : Live(t)' => Live(t)
    BY <1>5, RevokedSubsides DEF CommitPassword, Subsides
  <2>2. Active(account') <=> Active(account)
    BY <1>1, <1>5 DEF CommitPassword, Accounts, Active
  <2> QED
    BY <2>1, <2>2 DEF InactiveHasNone
<1>6. ASSUME NEW r \in Requests, CommitDisable(r)
      PROVE  InactiveHasNone'
  BY <1>1, <1>6, RevokedSubsides DEF CommitDisable, InactiveHasNone
<1>7. ASSUME NEW r \in Requests, RevokeForReset(r)
      PROVE  InactiveHasNone'
  BY <1>7 DEF RevokeForReset, InactiveHasNone, Live, Active
<1>8. CASE AccountStays
  BY <1>8 DEF AccountStays, InactiveHasNone, Active
<1> QED
  BY <1>2, <1>3, <1>4, <1>5, <1>6, <1>7, <1>8, AccountCases

(***************************************************************************)
(* Where, moreover, no password is reset, an account that is disabled or   *)
(* scheduled for deletion has no live session (Disable, ScheduleDelete).   *)
(***************************************************************************)
THEOREM OneRequestWithoutResets ==
  ASSUME OneRequest, "reset" \notin Kinds
  PROVE  Spec => []InactiveHasNone
<1> DEFINE Inv == CopiesAreCurrent /\ NoReset /\ InactiveHasNone
<1>1. ASSUME Init
      PROVE  Inv
  <2>1. \A r \in Requests : req[r].at = "idle"
    BY <1>1 DEF Init, Idle
  <2>2. /\ \A s \in Sessions : session[s].life = "unborn"
        /\ resets.sent = 0
    BY <1>1 DEF Init
  <2> QED
    BY <2>1, <2>2 DEF CopiesAreCurrent, NoReset, InactiveHasNone, Live, At
<1>2. ASSUME RacesInv, Inv, [Next]_vars
      PROVE  Inv'
  <2>1. TypeOK /\ RefreshesNameSessions /\ NothingBeforeRegister
    BY <1>2 DEF RacesInv, IInv, AccountInv
  <2>2. CopiesAreCurrent'
    BY <1>2, <2>1, CopiesStep
  <2>3. NoReset'
    BY <1>2, <2>1, NoResetStep
  <2>4. InactiveHasNone'
    BY <1>2, <2>1, InactiveStep
  <2> QED
    BY <2>2, <2>3, <2>4
<1>3. Inv => InactiveHasNone
  OBVIOUS
<1> HIDE DEF Inv
<1>4. Spec => []Inv
  BY <1>1, <1>2, RacesInvariance, PTL DEF Spec
<1> QED
  BY <1>3, <1>4, PTL
=============================================================================
