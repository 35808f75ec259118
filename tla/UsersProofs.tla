---------------------------- MODULE UsersProofs ----------------------------
(***************************************************************************)
(* Theorems of Users, for every value of its constants.                    *)
(***************************************************************************)
EXTENDS Users, FiniteSetTheorems, TLAPS

\* A request that is to set the cached copy, or to log in, holds a user.
HoldsAUser ==
  \A r \in Requests :
    pc[r] \in {"fill", "commit"} \/ (pc[r] = "write" /\ kind[r] = "login")
      => copy[r] \in Accounts

\* Only requests that begin with the cached copy read and fill it.
ReadsThrough ==
  \A r \in Requests : pc[r] \in {"cache", "fill"} => kind[r] \in CachedKinds

\* The shield is asked and told by log-ins.
LogsIn ==
  \A r \in Requests : pc[r] \in {"cooldown", "fail"} => kind[r] = "login"

\* Only a presence may be one the table refuses.
Presences ==
  \A r \in Requests : kind[r] = "presence" \/ argument[r] \in Values

Shape == HoldsAUser /\ ReadsThrough /\ LogsIn /\ Presences

\* A running request that gave the password of the row is known to have known it.
Knows ==
  \A r \in Requests : pc[r] # "idle" /\ given[r] = row.password => r \in knew

\* A checked change is authorised from its check to its end.
Authorised ==
  \A r \in Requests :
    pc[r] \in {"write", "drop"} /\ kind[r] \in CheckedKinds => r \in knew

Failing(e) == {r \in Requests : pc[r] = "fail" /\ argument[r] = e}
Attempting(e) == {r \in Requests : pc[r] = "row" /\ kind[r] = "login" /\ argument[r] = e}

\* Unless the shield missed a call, it has counted each wrong password or is about to;
\* while it blocks, no attempt begins, and once it is ending the next failure blocks again.
Counted ==
  \A e \in Values :
    /\ failures[e] >= MaxAttempts <=> e \in cooling
    /\ e \notin blind =>
         /\ guesses[e] <= failures[e] + Cardinality(Failing(e))
         /\ guesses[e] + Cardinality(Attempting(e)) < MaxAttempts + Cardinality(Requests)
         /\ e \in ending => guesses[e] <= Cardinality(Failing(e))

IInv ==
  /\ TypeOK /\ Shape
  /\ Knows /\ Authorised
  /\ ScheduledIsDisabled /\ StaleCopyHasACause
  /\ Counted
-----------------------------------------------------------------------------
(***************************************************************************)
(* The account stays one under each assignment to its columns, which       *)
(* leaves the others alone.                                                *)
(***************************************************************************)
LEMMA ColumnType ==
  ASSUME NEW a \in Accounts, NEW k \in TextKinds, NEW v \in Values
  PROVE  /\ Column(a, k, v) \in Accounts
         /\ Column(a, k, v).password = a.password
         /\ Column(a, k, v).disabled = a.disabled
         /\ Column(a, k, v).scheduled = a.scheduled
BY DEF Column, Accounts

LEMMA PasswordType ==
  ASSUME NEW a \in Accounts, NEW p \in 0..MaxPasswords
  PROVE  /\ WithPassword(a, p) \in Accounts
         /\ WithPassword(a, p).password = p
         /\ WithPassword(a, p).disabled = a.disabled
         /\ WithPassword(a, p).scheduled = a.scheduled
BY DEF WithPassword, Accounts

LEMMA StateTypes ==
  ASSUME NEW a \in Accounts
  PROVE  /\ Disabled(a) \in Accounts /\ Disabled(a).password = a.password
         /\ Disabled(a).disabled = TRUE
         /\ Scheduled(a) \in Accounts /\ Scheduled(a).password = a.password
         /\ Scheduled(a).disabled = TRUE
<1>1. Disabled(a) \in Accounts /\ Disabled(a).password = a.password /\ Disabled(a).disabled = TRUE
  BY DEF Disabled, Accounts
<1>2. Scheduled(a) \in Accounts /\ Scheduled(a).password = a.password /\ Scheduled(a).disabled = TRUE
  BY DEF Scheduled, Accounts
<1> QED
  BY <1>1, <1>2

LEMMA PublicType ==
  ASSUME NEW a \in Accounts
  PROVE  Public(a) \in Accounts /\ Public(a).password = 0
BY BoundsAssumption DEF Public, Accounts

LEMMA EnabledType ==
  ASSUME row \in Accounts, NEW u
  PROVE  /\ Enabled(u) \in Accounts /\ Enabled(u).password = row.password
         /\ u.scheduled => ~Enabled(u).scheduled
         /\ ~u.scheduled => Enabled(u).scheduled = row.scheduled
<1>1. CASE u.scheduled
  BY <1>1 DEF Enabled, Accounts
<1>2. CASE ~u.scheduled
  BY <1>2 DEF Enabled, Accounts
<1> QED
  BY <1>1, <1>2

-----------------------------------------------------------------------------
(***************************************************************************)
(* The type invariant, in parts, and what keeps each part.                 *)
(***************************************************************************)
RequestsType ==
  /\ pc \in [Requests -> Steps]
  /\ copy \in [Requests -> Accounts \cup {NoCopy}]
  /\ kind \in [Requests -> AllKinds]
  /\ argument \in [Requests -> Values \cup {Unstorable}]
  /\ given \in [Requests -> 0..MaxPasswords]

RowType ==
  /\ row \in Accounts /\ row.password \in 1..passwords
  /\ passwords \in 1..MaxPasswords /\ knew \subseteq Requests

CacheType ==
  /\ cached = NoCopy \/ (cached \in Accounts /\ cached.password = 0)
  /\ causes \subseteq Causes

ShieldType ==
  /\ failures \in [Values -> Nat] /\ cooling \subseteq Values /\ ending \subseteq cooling
  /\ guesses \in [Values -> Nat] /\ blind \subseteq Values

CountsType == faults \in 0..MaxFaults /\ ops \in 0..MaxOps /\ raced \in BOOLEAN

LEMMA TypeParts ==
  ASSUME TypeOK
  PROVE  /\ RequestsType /\ RowType /\ CacheType /\ ShieldType /\ CountsType
         /\ row \in Accounts
BY DEF TypeOK, RequestsType, RowType, CacheType, ShieldType, CountsType

LEMMA NextTypeParts ==
  ASSUME RequestsType', RowType', CacheType', ShieldType',
         faults' \in 0..MaxFaults, ops' \in 0..MaxOps, raced' \in BOOLEAN
  PROVE  TypeOK'
BY DEF TypeOK, RequestsType, RowType, CacheType, ShieldType

LEMMA Moved ==
  ASSUME RequestsType, NEW r \in Requests, NEW s \in Steps, Goto(r, s)
  PROVE  /\ UNCHANGED copy => RequestsType'
         /\ \A u \in Accounts \cup {NoCopy} :
              copy' = [copy EXCEPT ![r] = u] => RequestsType'
BY DEF RequestsType, Goto, requestVars

LEMMA Ended ==
  ASSUME RequestsType, NEW r \in Requests, End(r)
  PROVE  RequestsType'
<1>1. "idle" \in Steps /\ "get" \in AllKinds /\ FirstValue \in Values /\ 0 \in 0..MaxPasswords
  BY ValuesAssumption, BoundsAssumption DEF Steps, AllKinds, CachedKinds
<1> QED
  BY <1>1 DEF RequestsType, End

LEMMA OneFault ==
  ASSUME CountsType
  PROVE  /\ Faulty => faults' \in 0..MaxFaults
         /\ UNCHANGED faults => faults' \in 0..MaxFaults
         /\ raced \in BOOLEAN /\ ops \in 0..MaxOps
BY BoundsAssumption DEF CountsType, Faulty

LEMMA CacheKept ==
  ASSUME CacheType
  PROVE  /\ UNCHANGED <<cached, causes>> => CacheType'
         /\ UNCHANGED cached /\ (\E c \in Causes : causes' = causes \cup {c}) => CacheType'
         /\ UNCHANGED cached /\ UNCHANGED causes => CacheType'
         /\ cached' = NoCopy /\ causes' = {} => CacheType'
         /\ \A u \in Accounts : Cache(u) => CacheType'
<1>1. ASSUME NEW u \in Accounts, Cache(u)
      PROVE  CacheType'
  BY <1>1, PublicType DEF Cache, CacheType, Causes
<1> QED
  BY <1>1 DEF CacheType

LEMMA ShieldKept ==
  ASSUME ShieldType
  PROVE  /\ UNCHANGED shieldVars => ShieldType'
         /\ \A e \in Values : Clear(e) => ShieldType'
         /\ \A e \in Values :
              (/\ blind' = blind \cup {e}
               /\ UNCHANGED <<failures, cooling, ending, guesses>>) => ShieldType'
         /\ UNCHANGED <<failures, cooling, ending, blind>> /\ UNCHANGED guesses => ShieldType'
         /\ \A e \in Values :
              (/\ guesses' = [guesses EXCEPT ![e] = @ + 1]
               /\ UNCHANGED <<failures, cooling, ending, blind>>) => ShieldType'
         /\ \A e \in Values, n \in 1..2 :
              (Count(e, n) /\ UNCHANGED <<guesses, blind>>) => ShieldType'
         /\ \A e \in Values : CooldownEnds(e) => ShieldType'
<1>1. UNCHANGED shieldVars => ShieldType'
  BY DEF ShieldType, shieldVars
<1>2. ASSUME NEW e \in Values
      PROVE  /\ Clear(e) => ShieldType'
             /\ (/\ blind' = blind \cup {e}
                 /\ UNCHANGED <<failures, cooling, ending, guesses>>) => ShieldType'
             /\ (/\ guesses' = [guesses EXCEPT ![e] = @ + 1]
                 /\ UNCHANGED <<failures, cooling, ending, blind>>) => ShieldType'
  BY DEF ShieldType, Clear
<1>3. ASSUME NEW e \in Values, NEW n \in 1..2, Count(e, n), UNCHANGED <<guesses, blind>>
      PROVE  ShieldType'
  <2>1. failures' \in [Values -> Nat]
    BY <1>3 DEF ShieldType, Count
  <2>2. cooling' \subseteq Values /\ ending' \subseteq cooling'
    BY <1>3 DEF ShieldType, Count
  <2> QED
    BY <1>3, <2>1, <2>2 DEF ShieldType
<1>4. ASSUME NEW e \in Values, CooldownEnds(e)
      PROVE  ShieldType'
  BY <1>4 DEF ShieldType, CooldownEnds, Blocked
<1> QED
  BY <1>1, <1>2, <1>3, <1>4 DEF shieldVars

LEMMA RowKept ==
  ASSUME RowType
  PROVE  /\ UNCHANGED accountVars /\ UNCHANGED knew => RowType'
         /\ SamePassword /\ row' \in Accounts /\ row'.password = row.password => RowType'
         /\ NewPassword /\ row' = WithPassword(row, passwords') => RowType'
<1>1. ASSUME NewPassword, row' = WithPassword(row, passwords')
      PROVE  RowType'
  <2>1. passwords' \in 1..MaxPasswords /\ knew' \subseteq Requests
    BY <1>1, BoundsAssumption DEF RowType, NewPassword
  <2>2. passwords' \in 0..MaxPasswords
    BY <2>1, BoundsAssumption
  <2>3. row' \in Accounts /\ row'.password = passwords'
    BY <1>1, <2>2, PasswordType DEF RowType
  <2>4. row'.password \in 1..passwords'
    BY <2>1, <2>3, BoundsAssumption
  <2> QED
    BY <2>1, <2>3, <2>4 DEF RowType
<1>2. UNCHANGED accountVars /\ UNCHANGED knew => RowType'
  BY DEF RowType, accountVars
<1>3. SamePassword /\ row' \in Accounts /\ row'.password = row.password => RowType'
  BY DEF RowType, SamePassword
<1> QED
  BY <1>1, <1>2, <1>3

LEMMA Written ==
  ASSUME RequestsType, CacheType, CountsType, NEW r \in Requests, NEW revoked \in BOOLEAN,
         AfterWrite(r, revoked), UNCHANGED cached
  PROVE  RequestsType' /\ CacheType' /\ faults' \in 0..MaxFaults
<1>1. ASSUME Unanswered(r)
      PROVE  RequestsType' /\ CacheType' /\ faults' \in 0..MaxFaults
  <2>1. "lost" \in Causes
    BY DEF Causes
  <2>2. causes' = causes \/ causes' = causes \cup {"lost"}
    BY <1>1 DEF Unanswered
  <2> QED
    BY <1>1, <2>1, <2>2, Ended, OneFault, CacheKept DEF Unanswered
<1>2. CASE UNCHANGED faults /\ Invalidates(kind[r], revoked) /\ ~Unanswered(r)
  <2>1. "drop" \in Steps
    BY DEF Steps
  <2>2. Goto(r, "drop") /\ copy' = [copy EXCEPT ![r] = NoCopy] /\ UNCHANGED causes
    BY <1>2 DEF AfterWrite
  <2> QED
    BY <1>2, <2>1, <2>2, Moved, OneFault, CacheKept
<1>3. CASE UNCHANGED faults /\ ~Invalidates(kind[r], revoked) /\ ~Unanswered(r)
  <2>1. "early" \in Causes
    BY DEF Causes
  <2>2. End(r) /\ (causes' = causes \/ causes' = causes \cup {"early"})
    BY <1>3 DEF AfterWrite
  <2> QED
    BY <1>3, <2>1, <2>2, Ended, OneFault, CacheKept
<1> QED
  BY <1>1, <1>2, <1>3 DEF AfterWrite

(***************************************************************************)
(* Every step keeps the types.                                             *)
(***************************************************************************)
LEMMA StepNames ==
  Steps = {"idle", "cooldown", "cache", "row", "fill", "fail", "write", "drop", "commit"}
BY DEF Steps

LEMMA TextStep ==
  ASSUME TypeOK, NEW r \in Requests, NEW k \in TextKinds, UpdateText(r, k)
  PROVE  TypeOK'
<1>1. /\ RequestsType /\ RowType /\ CacheType /\ ShieldType /\ CountsType
      /\ row \in Accounts
  BY TypeParts
<1>2. ShieldType' /\ raced' \in BOOLEAN /\ ops' \in 0..MaxOps
  BY <1>1, ShieldKept, OneFault DEF UpdateText
<1>3. CASE argument[r] # Unstorable
  <2>1. row' = Column(row, k, argument[r]) /\ AfterWrite(r, TRUE)
    BY <1>3 DEF UpdateText
  <2>2. argument[r] \in Values
    BY <1>1, <1>3 DEF RequestsType
  <2>3. row' \in Accounts /\ row'.password = row.password
    BY <1>1, <2>1, <2>2, ColumnType
  <2>4. RequestsType' /\ CacheType' /\ faults' \in 0..MaxFaults
    BY <1>1, <2>1, Written DEF UpdateText
  <2>5. RowType'
    BY <1>1, <2>3, RowKept DEF UpdateText
  <2> QED
    BY <1>2, <2>4, <2>5, NextTypeParts
<1>4. CASE argument[r] = Unstorable
  <2>1. End(r) /\ UNCHANGED <<row, faults, causes, cached>> /\ SamePassword
    BY <1>4 DEF UpdateText
  <2>2. RequestsType' /\ CacheType' /\ RowType' /\ faults' \in 0..MaxFaults
    BY <1>1, <2>1, Ended, CacheKept, RowKept, OneFault
  <2> QED
    BY <1>2, <2>2, NextTypeParts
<1> QED
  BY <1>3, <1>4

LEMMA AccountStep ==
  ASSUME TypeOK, NEW r \in Requests, NEW k, UpdateAccount(r, k), RowType'
  PROVE  TypeOK'
<1>1. RequestsType /\ CacheType /\ ShieldType /\ CountsType
  BY TypeParts
<1>2. ShieldType' /\ raced' \in BOOLEAN /\ ops' \in 0..MaxOps
  BY <1>1, ShieldKept, OneFault DEF UpdateAccount
<1>3. PICK revoked \in BOOLEAN : AfterWrite(r, revoked)
  BY DEF UpdateAccount
<1>4. RequestsType' /\ CacheType' /\ faults' \in 0..MaxFaults
  BY <1>1, <1>3, Written DEF UpdateAccount
<1> QED
  BY <1>2, <1>4, NextTypeParts

LEMMA TypeStep ==
  ASSUME TypeOK, Shape, [Next]_vars
  PROVE  TypeOK'
<1>1. /\ RequestsType /\ RowType /\ CacheType /\ ShieldType /\ CountsType
      /\ row \in Accounts
  BY TypeParts
<1>2. CASE UNCHANGED vars
  BY <1>2 DEF TypeOK, vars, accountVars, requestVars, shieldVars
<1>3. ASSUME NEW r \in Requests, NEW k \in Kinds, NEW v \in Values \cup {Unstorable},
             NEW p \in 0..MaxPasswords, Begin(r, k, v, p)
      PROVE  TypeOK'
  <2>1. FirstStep(k) \in Steps
    BY StepNames DEF FirstStep
  <2>2. RequestsType'
    BY <1>1, <1>3, <2>1, KindsAssumption DEF Begin, RequestsType
  <2>3. ops' \in 0..MaxOps
    BY <1>1, <1>3, BoundsAssumption DEF Begin, CountsType
  <2>4. RowType'
    BY <1>1, <1>3 DEF Begin, RowType, accountVars
  <2>5. CacheType' /\ ShieldType' /\ faults' \in 0..MaxFaults /\ raced' \in BOOLEAN
    BY <1>1, <1>3, CacheKept, ShieldKept, OneFault DEF Begin
  <2> QED
    BY <2>2, <2>3, <2>4, <2>5, NextTypeParts
<1>4. ASSUME NEW r \in Requests, AskShield(r)
      PROVE  TypeOK'
  <2>1. "idle" \in Steps /\ "row" \in Steps
    BY StepNames
  <2>2. argument[r] \in Values
    BY <1>4, StepNames DEF AskShield, Shape, LogsIn, Presences
  <2>3. ShieldType'
    BY <1>1, <1>4, <2>2, ShieldKept DEF AskShield, shieldVars
  <2>4. RequestsType'
    BY <1>1, <1>4, <2>1, Moved, Ended DEF AskShield
  <2>6. CacheType'
    BY <1>1, <1>4, <2>1, CacheKept DEF AskShield
  <2>8. RowType'
    BY <1>1, <1>4, <2>1, RowKept DEF AskShield
  <2>9. faults' \in 0..MaxFaults /\ ops' \in 0..MaxOps /\ raced' \in BOOLEAN
    BY <1>1, <1>4, <2>1, OneFault DEF AskShield
  <2> QED
    BY <2>4, <2>6, <2>3, <2>8, <2>9, NextTypeParts
<1>5. ASSUME NEW r \in Requests, ReadCache(r)
      PROVE  TypeOK'
  <2>1. "row" \in Steps /\ "write" \in Steps
    BY StepNames
  <2>2. RequestsType'
    <3>1. CASE cached # NoCopy /\ Use(r, cached)
      BY <1>1, <2>1, <3>1, Moved, Ended DEF Use, CacheType
    <3>2. CASE Goto(r, "row") /\ UNCHANGED copy
      BY <1>1, <2>1, <3>2, Moved
    <3> QED
      BY <1>5, <3>1, <3>2 DEF ReadCache
  <2>6. CacheType'
    BY <1>1, <1>5, <2>1, CacheKept DEF ReadCache
  <2>7. ShieldType'
    BY <1>1, <1>5, <2>1, ShieldKept DEF ReadCache
  <2>8. RowType'
    BY <1>1, <1>5, <2>1, RowKept DEF ReadCache
  <2>9. faults' \in 0..MaxFaults /\ ops' \in 0..MaxOps /\ raced' \in BOOLEAN
    BY <1>1, <1>5, <2>1, OneFault DEF ReadCache
  <2> QED
    BY <2>2, <2>6, <2>7, <2>8, <2>9, NextTypeParts
<1>6. ASSUME NEW r \in Requests, ReadMissing(r)
      PROVE  TypeOK'
  <2>1. "fill" \in Steps
    BY StepNames
  <2>5. RequestsType'
    BY <1>1, <1>6, <2>1, Moved, Ended DEF ReadMissing
  <2>6. CacheType'
    BY <1>1, <1>6, <2>1, CacheKept DEF ReadMissing
  <2>7. ShieldType'
    BY <1>1, <1>6, <2>1, ShieldKept DEF ReadMissing
  <2>8. RowType'
    BY <1>1, <1>6, <2>1, RowKept DEF ReadMissing
  <2>9. faults' \in 0..MaxFaults /\ ops' \in 0..MaxOps /\ raced' \in BOOLEAN
    BY <1>1, <1>6, <2>1, OneFault DEF ReadMissing
  <2> QED
    BY <2>5, <2>6, <2>7, <2>8, <2>9, NextTypeParts
<1>7. ASSUME NEW r \in Requests, Fill(r)
      PROVE  TypeOK'
  <2>1. "write" \in Steps
    BY StepNames
  <2>2. copy[r] \in Accounts
    BY <1>7 DEF Fill, Shape, HoldsAUser
  <2>3. RequestsType'
    BY <1>1, <1>7, <2>1, <2>2, Moved, Ended DEF Fill, Use
  <2>6. CacheType'
    BY <1>1, <1>7, <2>2, CacheKept DEF Fill
  <2>7. ShieldType'
    BY <1>1, <1>7, <2>1, ShieldKept DEF Fill
  <2>8. RowType'
    BY <1>1, <1>7, <2>1, RowKept DEF Fill
  <2>9. faults' \in 0..MaxFaults /\ ops' \in 0..MaxOps /\ raced' \in BOOLEAN
    BY <1>1, <1>7, <2>1, OneFault DEF Fill
  <2> QED
    BY <2>3, <2>6, <2>7, <2>8, <2>9, NextTypeParts
<1>8. ASSUME NEW r \in Requests, Authenticate(r)
      PROVE  TypeOK'
  <2>1. "write" \in Steps
    BY StepNames
  <2>2. RequestsType'
    BY <1>1, <1>8, <2>1, Moved, Ended DEF Authenticate
  <2>6. CacheType'
    BY <1>1, <1>8, <2>1, CacheKept DEF Authenticate
  <2>7. ShieldType'
    BY <1>1, <1>8, <2>1, ShieldKept DEF Authenticate
  <2>8. RowType'
    BY <1>1, <1>8, <2>1, RowKept DEF Authenticate
  <2>9. faults' \in 0..MaxFaults /\ ops' \in 0..MaxOps /\ raced' \in BOOLEAN
    BY <1>1, <1>8, <2>1, OneFault DEF Authenticate
  <2> QED
    BY <2>2, <2>6, <2>7, <2>8, <2>9, NextTypeParts
<1>9. ASSUME NEW r \in Requests, CheckLogin(r)
      PROVE  TypeOK'
  <2>1. "fail" \in Steps /\ "write" \in Steps
    BY StepNames
  <2>2. argument[r] \in Values
    BY <1>9 DEF CheckLogin, Shape, Presences
  <2>3. RequestsType'
    BY <1>1, <1>9, <2>1, Moved, Ended DEF CheckLogin
  <2>4. ShieldType'
    BY <1>1, <1>9, <2>2, ShieldKept DEF CheckLogin
  <2>6. CacheType'
    BY <1>1, <1>9, <2>1, CacheKept DEF CheckLogin
  <2>8. RowType'
    BY <1>1, <1>9, <2>1, RowKept DEF CheckLogin
  <2>9. faults' \in 0..MaxFaults /\ ops' \in 0..MaxOps /\ raced' \in BOOLEAN
    BY <1>1, <1>9, <2>1, OneFault DEF CheckLogin
  <2> QED
    BY <2>3, <2>6, <2>4, <2>8, <2>9, NextTypeParts
<1>10. ASSUME NEW r \in Requests, RecordFailure(r)
      PROVE  TypeOK'
  <2>2. argument[r] \in Values
    BY <1>10 DEF RecordFailure, Shape, LogsIn, Presences
  <2>3. ShieldType'
    <3> QED
      BY <1>1, <1>10, <2>2, ShieldKept DEF RecordFailure
  <2>5. RequestsType'
    BY <1>1, <1>10, Moved, Ended DEF RecordFailure
  <2>6. CacheType'
    BY <1>1, <1>10, CacheKept DEF RecordFailure
  <2>8. RowType'
    BY <1>1, <1>10, RowKept DEF RecordFailure
  <2>9. faults' \in 0..MaxFaults /\ ops' \in 0..MaxOps /\ raced' \in BOOLEAN
    BY <1>1, <1>10, OneFault DEF RecordFailure
  <2> QED
    BY <2>5, <2>6, <2>3, <2>8, <2>9, NextTypeParts
<1>11. ASSUME NEW r \in Requests, ReadForReset(r)
      PROVE  TypeOK'
  <2>1. "write" \in Steps
    BY StepNames
  <2>5. RequestsType'
    BY <1>1, <1>11, <2>1, Moved, Ended DEF ReadForReset
  <2>6. CacheType'
    BY <1>1, <1>11, <2>1, CacheKept DEF ReadForReset
  <2>7. ShieldType'
    BY <1>1, <1>11, <2>1, ShieldKept DEF ReadForReset
  <2>8. RowType'
    BY <1>1, <1>11, <2>1, RowKept DEF ReadForReset
  <2>9. faults' \in 0..MaxFaults /\ ops' \in 0..MaxOps /\ raced' \in BOOLEAN
    BY <1>1, <1>11, <2>1, OneFault DEF ReadForReset
  <2> QED
    BY <2>5, <2>6, <2>7, <2>8, <2>9, NextTypeParts
<1>12. ASSUME NEW r \in Requests, UpdateProfile(r)
      PROVE  TypeOK'
  BY <1>12, TextStep DEF UpdateProfile, TextKinds
<1>13. ASSUME NEW r \in Requests, UpdatePreferredPresence(r)
      PROVE  TypeOK'
  BY <1>13, TextStep DEF UpdatePreferredPresence, TextKinds
<1>14. ASSUME NEW r \in Requests, UpdateEmail(r)
      PROVE  TypeOK'
  BY <1>14, TextStep DEF UpdateEmail, TextKinds
<1>15. ASSUME NEW r \in Requests, UpdateUsername(r)
      PROVE  TypeOK'
  BY <1>15, TextStep DEF UpdateUsername, TextKinds
<1>16. ASSUME NEW r \in Requests, VerifyEmail(r)
      PROVE  TypeOK'
  BY <1>16, TextStep DEF VerifyEmail, TextKinds
<1>17. ASSUME NEW r \in Requests, UpdatePassword(r)
      PROVE  TypeOK'
  <2>1. RowType'
    BY <1>1, <1>17, RowKept DEF UpdatePassword
  <2> QED
    BY <1>17, <2>1, AccountStep DEF UpdatePassword
<1>18. ASSUME NEW r \in Requests, Disable(r)
      PROVE  TypeOK'
  <2>1. RowType'
    BY <1>1, <1>18, StateTypes, RowKept DEF Disable
  <2> QED
    BY <1>18, <2>1, AccountStep DEF Disable
<1>19. ASSUME NEW r \in Requests, ScheduleDelete(r)
      PROVE  TypeOK'
  <2>1. RowType'
    BY <1>1, <1>19, StateTypes, RowKept DEF ScheduleDelete
  <2> QED
    BY <1>19, <2>1, AccountStep DEF ScheduleDelete
<1>20. ASSUME NEW r \in Requests, WriteLogin(r)
      PROVE  TypeOK'
  <2>1. "commit" \in Steps
    BY StepNames
  <2>2. row' \in Accounts /\ row'.password = row.password
    BY <1>1, <1>20, EnabledType DEF WriteLogin
  <2>3. Unanswered(r) => /\ RequestsType' /\ faults' \in 0..MaxFaults
                         /\ causes' \subseteq Causes
    BY <1>1, Ended, OneFault DEF Unanswered, Causes, CacheType
  <2>4. RequestsType' /\ faults' \in 0..MaxFaults /\ causes' \subseteq Causes
    BY <1>1, <1>20, <2>1, <2>2, <2>3, Moved, OneFault DEF WriteLogin, CacheType
  <2>5. raced' \in BOOLEAN
    BY <1>1, <1>20 DEF WriteLogin, CountsType
  <2>6. RowType'
    BY <1>1, <1>20, <2>2, RowKept DEF WriteLogin
  <2>7. CacheType' /\ ShieldType' /\ ops' \in 0..MaxOps
    BY <1>1, <1>20, <2>4, ShieldKept DEF WriteLogin, CacheType, CountsType
  <2> QED
    BY <2>4, <2>5, <2>6, <2>7, NextTypeParts
<1>21. ASSUME NEW r \in Requests, WriteReset(r)
      PROVE  TypeOK'
  <2>1. "commit" \in Steps
    BY StepNames
  <2>2. RowType'
    BY <1>1, <1>21, RowKept DEF WriteReset
  <2>3. Unanswered(r) => /\ RequestsType' /\ faults' \in 0..MaxFaults
                         /\ causes' \subseteq Causes
    BY <1>1, Ended, OneFault DEF Unanswered, Causes, CacheType
  <2>4. RequestsType' /\ faults' \in 0..MaxFaults /\ causes' \subseteq Causes
    BY <1>1, <1>21, <2>1, <2>2, <2>3, Moved, OneFault DEF WriteReset, CacheType, RowType
  <2>5. CacheType' /\ ShieldType' /\ ops' \in 0..MaxOps /\ raced' \in BOOLEAN
    BY <1>1, <1>21, <2>4, ShieldKept DEF WriteReset, CacheType, CountsType
  <2> QED
    BY <2>2, <2>4, <2>5, NextTypeParts
<1>22. ASSUME NEW r \in Requests, Fail(r)
      PROVE  TypeOK'
  <2>5. RequestsType'
    BY <1>1, <1>22, Moved, Ended DEF Fail
  <2>6. CacheType'
    BY <1>1, <1>22, CacheKept DEF Fail
  <2>7. ShieldType'
    BY <1>1, <1>22, ShieldKept DEF Fail
  <2>8. RowType'
    BY <1>1, <1>22, RowKept DEF Fail
  <2>9. faults' \in 0..MaxFaults /\ ops' \in 0..MaxOps /\ raced' \in BOOLEAN
    BY <1>1, <1>22, OneFault DEF Fail
  <2> QED
    BY <2>5, <2>6, <2>7, <2>8, <2>9, NextTypeParts
<1>23. ASSUME NEW r \in Requests, Drop(r)
      PROVE  TypeOK'
  <2>2. CacheType'
    BY <1>1, <1>23 DEF Drop, CacheType, Causes
  <2>5. RequestsType'
    BY <1>1, <1>23, Moved, Ended DEF Drop
  <2>7. ShieldType'
    BY <1>1, <1>23, ShieldKept DEF Drop
  <2>8. RowType'
    BY <1>1, <1>23, RowKept DEF Drop
  <2>9. faults' \in 0..MaxFaults /\ ops' \in 0..MaxOps /\ raced' \in BOOLEAN
    BY <1>1, <1>23, OneFault DEF Drop
  <2> QED
    BY <2>5, <2>2, <2>7, <2>8, <2>9, NextTypeParts
<1>24. ASSUME NEW r \in Requests, CommitSession(r)
      PROVE  TypeOK'
  <2>2. copy[r] \in Accounts
    BY <1>24 DEF CommitSession, Shape, HoldsAUser
  <2>3. copy[r].text["email"] \in Values
    BY <2>2 DEF Accounts, TextKinds
  <2>4. CacheType' /\ ShieldType'
    <3>1. CASE Cache(copy[r]) /\ Clear(copy[r].text["email"]) /\ UNCHANGED faults
      BY <1>1, <2>2, <2>3, <3>1, CacheKept, ShieldKept, OneFault
    <3>2. CASE /\ UNCHANGED <<cached, shieldVars>>
               /\ causes' = IF cached = NoCopy THEN causes ELSE causes \cup {"lost"}
      BY <1>1, <3>2, ShieldKept DEF Causes, CacheType
    <3> QED
      BY <1>24, <3>1, <3>2 DEF CommitSession
  <2>5. RequestsType'
    BY <1>1, <1>24, Moved, Ended DEF CommitSession
  <2>8. RowType'
    BY <1>1, <1>24, RowKept DEF CommitSession
  <2>9. faults' \in 0..MaxFaults /\ ops' \in 0..MaxOps /\ raced' \in BOOLEAN
    BY <1>1, <1>24, OneFault DEF CommitSession
  <2> QED
    BY <2>5, <2>4, <2>4, <2>8, <2>9, NextTypeParts
<1>25. CASE CopyExpires
  <2>1. RequestsType' /\ RowType' /\ CacheType'
    BY <1>1, <1>25, RowKept, CacheKept DEF CopyExpires, RequestsType, requestVars
  <2>2. ShieldType' /\ faults' \in 0..MaxFaults /\ ops' \in 0..MaxOps /\ raced' \in BOOLEAN
    BY <1>1, <1>25, ShieldKept, OneFault DEF CopyExpires
  <2> QED
    BY <2>1, <2>2, NextTypeParts
<1>26. ASSUME NEW e \in Values, ShieldExpires(e)
      PROVE  TypeOK'
  <2>1. RequestsType' /\ RowType' /\ CacheType'
    BY <1>1, <1>26, RowKept, CacheKept DEF ShieldExpires, RequestsType, requestVars
  <2>2. ShieldType' /\ faults' \in 0..MaxFaults /\ ops' \in 0..MaxOps /\ raced' \in BOOLEAN
    BY <1>1, <1>26, ShieldKept, OneFault DEF ShieldExpires
  <2> QED
    BY <2>1, <2>2, NextTypeParts
<1>27. ASSUME NEW e \in Values, CooldownEnds(e)
      PROVE  TypeOK'
  <2>1. RequestsType' /\ RowType' /\ CacheType'
    BY <1>1, <1>27, RowKept, CacheKept DEF CooldownEnds, RequestsType, requestVars
  <2>2. ShieldType' /\ faults' \in 0..MaxFaults /\ ops' \in 0..MaxOps /\ raced' \in BOOLEAN
    BY <1>1, <1>27, ShieldKept, OneFault DEF CooldownEnds
  <2> QED
    BY <2>1, <2>2, NextTypeParts
<1> QED
  BY <1>2, <1>3, <1>4, <1>5, <1>6, <1>7, <1>8, <1>9, <1>10, <1>11, <1>12, <1>13, <1>14, <1>15, <1>16, <1>17, <1>18, <1>19, <1>20, <1>21, <1>22, <1>23, <1>24, <1>25, <1>26, <1>27, Zenon DEF Next, Step

-----------------------------------------------------------------------------
(***************************************************************************)
(* How a step changes the requests: one of them begins, ends or moves on,  *)
(* and the others stay as they are.                                        *)
(***************************************************************************)
Kept(q) ==
  /\ pc'[q] = pc[q] /\ copy'[q] = copy[q]
  /\ kind'[q] = kind[q] /\ argument'[q] = argument[q] /\ given'[q] = given[q]

OthersKept(r) == \A q \in Requests \ {r} : Kept(q)

Begins(r) ==
  /\ pc[r] = "idle" /\ pc'[r] = FirstStep(kind'[r])
  /\ kind'[r] = "presence" \/ argument'[r] \in Values
  /\ kind'[r] \in AllKinds /\ row' = row
  /\ knew' = IF given'[r] = row.password THEN knew \cup {r} ELSE knew \ {r}

Ends(r) ==
  /\ pc'[r] = "idle"
  /\ kind'[r] = "get" /\ argument'[r] = FirstValue /\ given'[r] = 0

SameRequest(r) ==
  kind'[r] = kind[r] /\ argument'[r] = argument[r] /\ given'[r] = given[r]

MovesOn(r) ==
  \/ pc[r] = "cooldown" /\ pc'[r] = "row"
  \/ pc[r] = "cache" /\ pc'[r] \in {"row", "write"}
  \/ /\ pc[r] = "row" /\ kind[r] \in CachedKinds
     /\ pc'[r] = "fill" /\ copy'[r] \in Accounts
  \/ pc[r] = "fill" /\ pc'[r] = "write"
  \/ /\ pc[r] = "row" /\ kind[r] \in CheckedKinds /\ row.password = given[r]
     /\ pc'[r] = "write"
  \/ /\ pc[r] = "row" /\ kind[r] = "login" /\ pc'[r] \in {"fail", "write"}
     /\ pc'[r] = "write" => copy'[r] \in Accounts
  \/ pc[r] = "row" /\ kind[r] = "reset" /\ pc'[r] = "write"
  \/ /\ pc[r] = "write" /\ kind[r] \notin {"login", "reset"}
     /\ pc'[r] = "drop"
  \/ /\ pc[r] = "write" /\ kind[r] \in {"login", "reset"}
     /\ pc'[r] = "commit" /\ copy'[r] \in Accounts

\* The password of the row and those who knew it
SecretKept ==
  \/ row'.password = row.password /\ knew' = knew
  \/ NewPassword /\ row'.password = passwords'

Advances(r) ==
  OthersKept(r) /\ SecretKept /\ (Ends(r) \/ (SameRequest(r) /\ MovesOn(r)))

LEMMA EndOfOne ==
  ASSUME RequestsType, NEW r \in Requests, End(r)
  PROVE  OthersKept(r) /\ Ends(r)
BY DEF RequestsType, End, OthersKept, Ends, Kept

LEMMA MoveOfOne ==
  ASSUME RequestsType, NEW r \in Requests, NEW s, Goto(r, s),
         UNCHANGED copy \/ \E u : copy' = [copy EXCEPT ![r] = u]
  PROVE  /\ OthersKept(r) /\ SameRequest(r) /\ pc'[r] = s
         /\ UNCHANGED copy => copy'[r] = copy[r]
         /\ \A u : copy' = [copy EXCEPT ![r] = u] => copy'[r] = u
BY DEF RequestsType, Goto, OthersKept, SameRequest, Kept, requestVars

LEMMA KindNames ==
  /\ CachedKinds = {"get", "profile", "presence"}
  /\ CheckedKinds = {"email", "username", "password", "disable", "schedule"}
  /\ TextKinds = {"profile", "presence", "email", "username", "verified"}
BY DEF CachedKinds, CheckedKinds, TextKinds

LEMMA WriteOfOne ==
  ASSUME RequestsType, NEW r \in Requests, NEW revoked \in BOOLEAN,
         pc[r] = "write", kind[r] \notin {"login", "reset"}, AfterWrite(r, revoked)
  PROVE  OthersKept(r) /\ (Ends(r) \/ (SameRequest(r) /\ MovesOn(r)))
<1>1. CASE End(r)
  BY <1>1, EndOfOne
<1>2. CASE Goto(r, "drop") /\ copy' = [copy EXCEPT ![r] = NoCopy]
  BY <1>2, MoveOfOne DEF MovesOn
<1> QED
  BY <1>1, <1>2 DEF AfterWrite, Unanswered

LEMMA TextAdvances ==
  ASSUME TypeOK, NEW r \in Requests, NEW k \in TextKinds, UpdateText(r, k)
  PROVE  Advances(r)
<1>1. RequestsType /\ row \in Accounts
  BY TypeParts
<1>2. row'.password = row.password /\ knew' = knew
  <2>1. CASE argument[r] # Unstorable
    <3>1. argument[r] \in Values /\ row' = Column(row, k, argument[r])
      BY <1>1, <2>1 DEF UpdateText, RequestsType
    <3> QED
      BY <1>1, <3>1, ColumnType DEF UpdateText, SamePassword
  <2>2. CASE argument[r] = Unstorable
    BY <2>2 DEF UpdateText, SamePassword
  <2> QED
    BY <2>1, <2>2
<1>3. OthersKept(r) /\ (Ends(r) \/ (SameRequest(r) /\ MovesOn(r)))
  <2>1. CASE AfterWrite(r, TRUE)
    BY <1>1, <2>1, WriteOfOne, KindNames DEF UpdateText
  <2>2. CASE End(r)
    BY <1>1, <2>2, EndOfOne
  <2> QED
    BY <2>1, <2>2 DEF UpdateText
<1> QED
  BY <1>2, <1>3 DEF Advances, SecretKept

LEMMA AccountAdvances ==
  ASSUME TypeOK, NEW r \in Requests, NEW k, UpdateAccount(r, k), k \notin {"login", "reset"},
         SecretKept
  PROVE  Advances(r)
<1>1. PICK revoked \in BOOLEAN : AfterWrite(r, revoked)
  BY DEF UpdateAccount
<1> QED
  BY <1>1, TypeParts, WriteOfOne DEF UpdateAccount, Advances

LEMMA StepOfOne ==
  ASSUME TypeOK, Shape, NEW r \in Requests, Step(r)
  PROVE  (OthersKept(r) /\ Begins(r)) \/ Advances(r)
<1>1. RequestsType /\ row \in Accounts
  BY TypeParts
<1>3. ASSUME NEW k \in Kinds, NEW v \in Values \cup {Unstorable},
             NEW p \in 0..MaxPasswords, Begin(r, k, v, p)
      PROVE  OthersKept(r) /\ Begins(r)
  <2>1. OthersKept(r)
    BY <1>1, <1>3 DEF Begin, RequestsType, OthersKept, Kept
  <2>2. /\ pc[r] = "idle" /\ pc'[r] = FirstStep(k) /\ kind'[r] = k /\ argument'[r] = v
        /\ given'[r] = p /\ row' = row
        /\ knew' = IF p = row.password THEN knew \cup {r} ELSE knew \ {r}
    BY <1>1, <1>3 DEF Begin, RequestsType, accountVars
  <2>3. k \in AllKinds /\ (k = "presence" \/ v \in Values)
    BY <1>3, KindsAssumption DEF Begin, Arguments
  <2> QED
    BY <2>1, <2>2, <2>3 DEF Begins
<1>4. ASSUME AskShield(r)
      PROVE  Advances(r)
  <2>1. SecretKept
    BY <1>4 DEF AskShield, SecretKept, accountVars
  <2>2. OthersKept(r) /\ (Ends(r) \/ (SameRequest(r) /\ MovesOn(r)))
    <3>1. CASE End(r)
      BY <1>1, <3>1, EndOfOne
    <3>2. CASE Goto(r, "row") /\ UNCHANGED copy
      BY <1>1, <1>4, <3>2, MoveOfOne DEF AskShield, MovesOn
    <3> QED
      BY <1>4, <3>1, <3>2 DEF AskShield
  <2> QED
    BY <1>1, <1>4, <2>1, <2>2 DEF Advances
<1>5. ASSUME ReadCache(r)
      PROVE  Advances(r)
  <2>1. SecretKept
    BY <1>5 DEF ReadCache, SecretKept, accountVars
  <2>2. OthersKept(r) /\ (Ends(r) \/ (SameRequest(r) /\ MovesOn(r)))
    <3>1. CASE End(r)
      BY <1>1, <3>1, EndOfOne
    <3>2. CASE Goto(r, "row") /\ UNCHANGED copy
      BY <1>1, <1>5, <3>2, MoveOfOne DEF ReadCache, MovesOn
    <3>3. CASE Goto(r, "write") /\ copy' = [copy EXCEPT ![r] = cached]
      BY <1>1, <1>5, <3>3, MoveOfOne DEF ReadCache, MovesOn
    <3> QED
      BY <1>5, <3>1, <3>2, <3>3 DEF ReadCache, Use
  <2> QED
    BY <1>1, <1>5, <2>1, <2>2 DEF Advances
<1>6. ASSUME ReadMissing(r)
      PROVE  Advances(r)
  <2>1. SecretKept
    BY <1>6 DEF ReadMissing, SecretKept, accountVars
  <2>2. OthersKept(r) /\ (Ends(r) \/ (SameRequest(r) /\ MovesOn(r)))
    <3>1. CASE Goto(r, "fill") /\ copy' = [copy EXCEPT ![r] = row]
      BY <1>1, <1>6, <3>1, MoveOfOne DEF ReadMissing, MovesOn
    <3> QED
      BY <1>6, <3>1 DEF ReadMissing
  <2> QED
    BY <1>1, <1>6, <2>1, <2>2 DEF Advances
<1>7. ASSUME Fill(r)
      PROVE  Advances(r)
  <2>1. SecretKept
    BY <1>7 DEF Fill, SecretKept, accountVars
  <2>2. OthersKept(r) /\ (Ends(r) \/ (SameRequest(r) /\ MovesOn(r)))
    <3>1. CASE End(r)
      BY <1>1, <3>1, EndOfOne
    <3>2. CASE Goto(r, "write") /\ copy' = [copy EXCEPT ![r] = copy[r]]
      BY <1>1, <1>7, <3>2, MoveOfOne DEF Fill, MovesOn
    <3> QED
      BY <1>7, <3>1, <3>2 DEF Fill, Use
  <2> QED
    BY <1>1, <1>7, <2>1, <2>2 DEF Advances
<1>8. ASSUME Authenticate(r)
      PROVE  Advances(r)
  <2>1. SecretKept
    BY <1>8 DEF Authenticate, SecretKept, accountVars
  <2>2. OthersKept(r) /\ (Ends(r) \/ (SameRequest(r) /\ MovesOn(r)))
    <3>1. CASE End(r)
      BY <1>1, <3>1, EndOfOne
    <3>2. CASE ~End(r)
      BY <1>1, <1>8, <3>2, MoveOfOne DEF Authenticate, Authenticated, MovesOn
    <3> QED
      BY <1>8, <3>1, <3>2 DEF Authenticate
  <2> QED
    BY <1>1, <1>8, <2>1, <2>2 DEF Advances
<1>9. ASSUME CheckLogin(r)
      PROVE  Advances(r)
  <2>1. SecretKept
    BY <1>9 DEF CheckLogin, SecretKept, accountVars
  <2>2. OthersKept(r) /\ (Ends(r) \/ (SameRequest(r) /\ MovesOn(r)))
    <3>1. CASE End(r)
      BY <1>1, <3>1, EndOfOne
    <3>2. CASE Goto(r, "fail") /\ UNCHANGED copy
      BY <1>1, <1>9, <3>2, MoveOfOne DEF CheckLogin, MovesOn
    <3>3. CASE Goto(r, "write") /\ copy' = [copy EXCEPT ![r] = row]
      BY <1>1, <1>9, <3>3, MoveOfOne DEF CheckLogin, MovesOn
    <3> QED
      BY <1>9, <3>1, <3>2, <3>3 DEF CheckLogin
  <2> QED
    BY <1>1, <1>9, <2>1, <2>2 DEF Advances
<1>10. ASSUME RecordFailure(r)
      PROVE  Advances(r)
  <2>1. SecretKept
    BY <1>10 DEF RecordFailure, SecretKept, accountVars
  <2>2. OthersKept(r) /\ (Ends(r) \/ (SameRequest(r) /\ MovesOn(r)))
    <3>1. CASE End(r)
      BY <1>1, <3>1, EndOfOne
    <3> QED
      BY <1>10, <3>1 DEF RecordFailure
  <2> QED
    BY <1>1, <1>10, <2>1, <2>2 DEF Advances
<1>11. ASSUME ReadForReset(r)
      PROVE  Advances(r)
  <2>1. SecretKept
    BY <1>11 DEF ReadForReset, SecretKept, accountVars
  <2>2. OthersKept(r) /\ (Ends(r) \/ (SameRequest(r) /\ MovesOn(r)))
    <3>1. CASE Goto(r, "write") /\ copy' = [copy EXCEPT ![r] = row]
      BY <1>1, <1>11, <3>1, MoveOfOne DEF ReadForReset, MovesOn
    <3> QED
      BY <1>11, <3>1 DEF ReadForReset
  <2> QED
    BY <1>1, <1>11, <2>1, <2>2 DEF Advances
<1>12. ASSUME UpdateProfile(r)
      PROVE  Advances(r)
  BY <1>12, TextAdvances, KindNames DEF UpdateProfile
<1>13. ASSUME UpdatePreferredPresence(r)
      PROVE  Advances(r)
  BY <1>13, TextAdvances, KindNames DEF UpdatePreferredPresence
<1>14. ASSUME UpdateEmail(r)
      PROVE  Advances(r)
  BY <1>14, TextAdvances, KindNames DEF UpdateEmail
<1>15. ASSUME UpdateUsername(r)
      PROVE  Advances(r)
  BY <1>15, TextAdvances, KindNames DEF UpdateUsername
<1>16. ASSUME VerifyEmail(r)
      PROVE  Advances(r)
  BY <1>16, TextAdvances, KindNames DEF VerifyEmail
<1>17. ASSUME UpdatePassword(r)
      PROVE  Advances(r)
  <2>1. SecretKept
    <3>1. passwords' \in 0..MaxPasswords
      BY <1>1, <1>17, TypeParts, BoundsAssumption DEF UpdatePassword, NewPassword, RowType
    <3> QED
      BY <1>1, <1>17, <3>1, PasswordType DEF UpdatePassword, SecretKept
  <2> QED
    BY <1>17, <2>1, AccountAdvances DEF UpdatePassword
<1>18. ASSUME Disable(r)
      PROVE  Advances(r)
  <2>1. SecretKept
    BY <1>1, <1>18, StateTypes DEF Disable, SecretKept, SamePassword
  <2> QED
    BY <1>18, <2>1, AccountAdvances DEF Disable
<1>19. ASSUME ScheduleDelete(r)
      PROVE  Advances(r)
  <2>1. SecretKept
    BY <1>1, <1>19, StateTypes DEF ScheduleDelete, SecretKept, SamePassword
  <2> QED
    BY <1>19, <2>1, AccountAdvances DEF ScheduleDelete
<1>20. ASSUME WriteLogin(r)
      PROVE  Advances(r)
  <2>1. SecretKept
    BY <1>1, <1>20, EnabledType DEF WriteLogin, SecretKept, SamePassword
  <2>3. copy[r] \in Accounts /\ Enabled(copy[r]) \in Accounts
    BY <1>1, <1>20, EnabledType DEF WriteLogin, Shape, HoldsAUser
  <2>2. OthersKept(r) /\ (Ends(r) \/ (SameRequest(r) /\ MovesOn(r)))
    <3>1. CASE Unanswered(r)
      BY <1>1, <3>1, EndOfOne DEF Unanswered
    <3>2. CASE Goto(r, "commit") /\ UNCHANGED copy /\ copy[r] \in Accounts
      BY <1>1, <1>20, <3>2, MoveOfOne DEF WriteLogin, MovesOn
    <3>3. CASE Goto(r, "commit") /\ copy' = [copy EXCEPT ![r] = row'] /\ row' \in Accounts
      BY <1>1, <1>20, <3>3, MoveOfOne DEF WriteLogin, MovesOn
    <3> QED
      BY <1>20, <2>3, <3>1, <3>2, <3>3 DEF WriteLogin, Shape, HoldsAUser
  <2> QED
    BY <1>1, <1>20, <2>1, <2>2 DEF Advances
<1>21. ASSUME WriteReset(r)
      PROVE  Advances(r)
  <2>3. row' \in Accounts /\ row'.password = passwords'
    <3>1. passwords' \in 0..MaxPasswords
      BY <1>1, <1>21, TypeParts, BoundsAssumption DEF WriteReset, NewPassword, RowType
    <3> QED
      BY <1>1, <1>21, <3>1, PasswordType DEF WriteReset
  <2>1. SecretKept
    BY <1>21, <2>3 DEF WriteReset, SecretKept
  <2>2. OthersKept(r) /\ (Ends(r) \/ (SameRequest(r) /\ MovesOn(r)))
    <3>1. CASE Unanswered(r)
      BY <1>1, <3>1, EndOfOne DEF Unanswered
    <3>2. CASE Goto(r, "commit") /\ copy' = [copy EXCEPT ![r] = row']
      BY <1>1, <1>21, <3>2, <2>3, MoveOfOne DEF WriteReset, MovesOn
    <3> QED
      BY <1>21, <3>1, <3>2 DEF WriteReset
  <2> QED
    BY <1>1, <1>21, <2>1, <2>2 DEF Advances
<1>22. ASSUME Fail(r)
      PROVE  Advances(r)
  <2>1. SecretKept
    BY <1>22 DEF Fail, SecretKept, accountVars
  <2>2. OthersKept(r) /\ (Ends(r) \/ (SameRequest(r) /\ MovesOn(r)))
    <3>1. CASE End(r)
      BY <1>1, <3>1, EndOfOne
    <3> QED
      BY <1>22, <3>1 DEF Fail
  <2> QED
    BY <1>1, <1>22, <2>1, <2>2 DEF Advances
<1>23. ASSUME Drop(r)
      PROVE  Advances(r)
  <2>1. SecretKept
    BY <1>23 DEF Drop, SecretKept, accountVars
  <2>2. OthersKept(r) /\ (Ends(r) \/ (SameRequest(r) /\ MovesOn(r)))
    <3>1. CASE End(r)
      BY <1>1, <3>1, EndOfOne
    <3> QED
      BY <1>23, <3>1 DEF Drop
  <2> QED
    BY <1>1, <1>23, <2>1, <2>2 DEF Advances
<1>24. ASSUME CommitSession(r)
      PROVE  Advances(r)
  <2>1. SecretKept
    BY <1>24 DEF CommitSession, SecretKept, accountVars
  <2>2. OthersKept(r) /\ (Ends(r) \/ (SameRequest(r) /\ MovesOn(r)))
    <3>1. CASE End(r)
      BY <1>1, <3>1, EndOfOne
    <3> QED
      BY <1>24, <3>1 DEF CommitSession
  <2> QED
    BY <1>1, <1>24, <2>1, <2>2 DEF Advances
<1> QED
  BY <1>3, <1>4, <1>5, <1>6, <1>7, <1>8, <1>9, <1>10, <1>11, <1>12, <1>13, <1>14, <1>15, <1>16, <1>17, <1>18, <1>19, <1>20, <1>21, <1>22, <1>23, <1>24, Zenon DEF Step

LEMMA StepEffects ==
  ASSUME TypeOK, Shape, [Next]_vars
  PROVE  \/ (\A q \in Requests : Kept(q)) /\ row' = row /\ knew' = knew
         \/ \E r \in Requests : OthersKept(r) /\ Begins(r)
         \/ \E r \in Requests : Advances(r)
<1>1. CASE UNCHANGED vars
  BY <1>1 DEF vars, accountVars, requestVars, Kept
<1>2. CASE \E r \in Requests : Step(r)
  BY <1>2, StepOfOne
<1>3. CASE CopyExpires \/ \E e \in Values : CooldownEnds(e) \/ ShieldExpires(e)
  BY <1>3 DEF CopyExpires, CooldownEnds, ShieldExpires, accountVars, requestVars, Kept
<1> QED
  BY <1>1, <1>2, <1>3 DEF Next

-----------------------------------------------------------------------------
(***************************************************************************)
(* What the requests hold and know.                                        *)
(***************************************************************************)
LEMMA FirstSteps ==
  ASSUME NEW k
  PROVE  /\ FirstStep(k) \in {"cooldown", "cache", "write", "row"}
         /\ FirstStep(k) = "cooldown" => k = "login"
         /\ FirstStep(k) = "cache" => k \in CachedKinds
         /\ FirstStep(k) = "write" => k = "verified"
         /\ FirstStep(k) = "row" => k # "login"
<1>1. CASE k = "login"
  BY <1>1 DEF FirstStep
<1>2. CASE k # "login" /\ k \in CachedKinds
  BY <1>2 DEF FirstStep
<1>3. CASE k = "verified"
  BY <1>3, KindNames DEF FirstStep
<1>4. CASE k # "login" /\ k \notin CachedKinds /\ k # "verified"
  BY <1>4 DEF FirstStep
<1> QED
  BY <1>1, <1>2, <1>3, <1>4

LEMMA ShapeStep ==
  ASSUME TypeOK, Shape, [Next]_vars
  PROVE  Shape'
<1>1. CASE \A q \in Requests : Kept(q)
  BY <1>1 DEF Kept, Shape, HoldsAUser, ReadsThrough, LogsIn, Presences
<1>2. ASSUME NEW r \in Requests, OthersKept(r), Begins(r)
      PROVE  Shape'
  <2>1. /\ pc'[r] \in {"cooldown", "cache", "write", "row"}
        /\ pc'[r] = "cooldown" => kind'[r] = "login"
        /\ pc'[r] = "cache" => kind'[r] \in CachedKinds
        /\ pc'[r] = "write" => kind'[r] = "verified"
        /\ kind'[r] = "presence" \/ argument'[r] \in Values
    BY <1>2, FirstSteps DEF Begins
  <2> QED
    BY <1>2, <2>1 DEF OthersKept, Kept, Shape, HoldsAUser, ReadsThrough, LogsIn, Presences
<1>3. ASSUME NEW r \in Requests, OthersKept(r), Ends(r)
      PROVE  Shape'
  BY <1>3, ValuesAssumption
  DEF Ends, OthersKept, Kept, Shape, HoldsAUser, ReadsThrough, LogsIn, Presences
<1>4. ASSUME NEW r \in Requests, OthersKept(r), SameRequest(r), MovesOn(r)
      PROVE  Shape'
  <2>1. HoldsAUser'
    BY <1>4, KindNames DEF MovesOn, SameRequest, OthersKept, Kept, Shape, HoldsAUser, ReadsThrough
  <2>2. ReadsThrough'
    BY <1>4 DEF MovesOn, SameRequest, OthersKept, Kept, Shape, ReadsThrough
  <2>3. LogsIn' /\ Presences'
    BY <1>4 DEF MovesOn, SameRequest, OthersKept, Kept, Shape, LogsIn, Presences
  <2> QED
    BY <2>1, <2>2, <2>3 DEF Shape
<1> QED
  BY <1>1, <1>2, <1>3, <1>4, StepEffects DEF Advances

(***************************************************************************)
(* Whoever passes the check gave a password that was the account's, and it *)
(* stays so recorded until the request ends.                               *)
(***************************************************************************)
LEMMA KnowsStep ==
  ASSUME TypeOK, Shape, Knows, Authorised, [Next]_vars
  PROVE  Knows' /\ Authorised'
<1>1. CASE (\A q \in Requests : Kept(q)) /\ row' = row /\ knew' = knew
  BY <1>1 DEF Kept, Knows, Authorised
<1>2. ASSUME NEW r \in Requests, OthersKept(r), Begins(r)
      PROVE  Knows' /\ Authorised'
  <2>1. pc'[r] \notin {"write", "drop"} \/ kind'[r] \notin CheckedKinds
    BY <1>2, FirstSteps, KindNames DEF Begins
  <2>2. \A q \in Requests \ {r} : q \in knew' <=> q \in knew
    BY <1>2 DEF Begins
  <2>3. given'[r] = row'.password => r \in knew'
    BY <1>2 DEF Begins
  <2>4. row' = row
    BY <1>2 DEF Begins
  <2> QED
    BY <1>2, <2>1, <2>2, <2>3, <2>4 DEF OthersKept, Kept, Knows, Authorised
<1>3. ASSUME NEW r \in Requests, Advances(r)
      PROVE  Knows' /\ Authorised'
  <2>1. \A q \in Requests : pc'[q] # "idle" => pc[q] # "idle" /\ given'[q] = given[q]
    BY <1>3 DEF Advances, OthersKept, Kept, Ends, SameRequest, MovesOn
  <2>2. knew \subseteq knew'
    BY <1>3 DEF Advances, SecretKept, NewPassword
  <2>3. Knows'
    <3>1. CASE row'.password = row.password /\ knew' = knew
      BY <2>1, <3>1 DEF Knows
    <3>2. CASE NewPassword /\ row'.password = passwords'
      BY <2>1, <3>2 DEF Knows, NewPassword
    <3> QED
      BY <1>3, <3>1, <3>2 DEF Advances, SecretKept
  <2>4. ASSUME pc'[r] \in {"write", "drop"}, kind'[r] \in CheckedKinds
        PROVE  r \in knew
    <3>1. SameRequest(r) /\ MovesOn(r)
      BY <1>3, <2>4 DEF Advances, Ends
    <3>2. kind[r] \in CheckedKinds /\ kind[r] \notin CachedKinds \cup {"login", "reset"}
      BY <2>4, <3>1, KindNames DEF SameRequest
    <3>3. (pc[r] = "row" /\ row.password = given[r]) \/ pc[r] = "write"
      BY <2>4, <3>1, <3>2 DEF MovesOn, Shape, ReadsThrough
    <3> QED
      BY <3>2, <3>3 DEF Knows, Authorised
  <2>5. Authorised'
    BY <1>3, <2>2, <2>4 DEF Advances, OthersKept, Kept, Authorised
  <2> QED
    BY <2>3, <2>5
<1> QED
  BY <1>1, <1>2, <1>3, StepEffects

-----------------------------------------------------------------------------
(***************************************************************************)
(* Scheduling an account's deletion disables it.                           *)
(***************************************************************************)
LEMMA StateKept ==
  ASSUME NEW r \in Requests, Step(r), pc[r] # "write"
  PROVE  row' = row /\ raced' = raced
<1>1. CASE \/ AskShield(r) \/ ReadCache(r) \/ ReadMissing(r) \/ Fill(r) \/ Authenticate(r)
           \/ CheckLogin(r) \/ RecordFailure(r) \/ ReadForReset(r) \/ Fail(r)
           \/ Drop(r) \/ CommitSession(r)
  BY <1>1 DEF AskShield, ReadCache, ReadMissing, Fill, Authenticate, CheckLogin, RecordFailure,
              ReadForReset, Fail, Drop, CommitSession, accountVars
<1>2. CASE \E k \in Kinds, v \in Values \cup {Unstorable}, p \in 0..MaxPasswords :
             Begin(r, k, v, p)
  BY <1>2 DEF Begin, accountVars
<1> QED
  BY <1>1, <1>2 DEF Step, UpdateProfile, UpdatePreferredPresence, UpdateEmail, UpdateUsername,
    VerifyEmail, UpdatePassword, Disable, ScheduleDelete, UpdateText, UpdateAccount, WriteLogin,
    WriteReset

LEMMA TextOrState ==
  ASSUME TypeOK, NEW r \in Requests, NEW k \in TextKinds, UpdateText(r, k)
  PROVE  row'.disabled = row.disabled /\ row'.scheduled = row.scheduled /\ raced' = raced
<1>1. RequestsType /\ row \in Accounts
  BY TypeParts
<1>2. CASE argument[r] # Unstorable
  <2>1. argument[r] \in Values /\ row' = Column(row, k, argument[r])
    BY <1>1, <1>2 DEF UpdateText, RequestsType
  <2> QED
    BY <1>1, <2>1, ColumnType DEF UpdateText
<1>3. CASE argument[r] = Unstorable
  BY <1>3 DEF UpdateText
<1> QED
  BY <1>2, <1>3

LEMMA ScheduledStep ==
  ASSUME TypeOK, Shape, ScheduledIsDisabled, [Next]_vars
  PROVE  ScheduledIsDisabled'
<1>1. RequestsType /\ RowType /\ row \in Accounts
  BY TypeParts
<1>2. CASE row'.disabled = row.disabled /\ row'.scheduled = row.scheduled /\ raced' = raced
  BY <1>2 DEF ScheduledIsDisabled
<1>3. CASE row'.disabled = TRUE
  BY <1>3 DEF ScheduledIsDisabled
<1>4. ASSUME NEW r \in Requests, Step(r), pc[r] # "write"
      PROVE  ScheduledIsDisabled'
  BY <1>2, <1>4, StateKept
<1>5. ASSUME NEW r \in Requests, NEW k \in TextKinds, UpdateText(r, k)
      PROVE  ScheduledIsDisabled'
  BY <1>2, <1>5, TextOrState
<1>6. ASSUME NEW r \in Requests, UpdatePassword(r) \/ WriteReset(r)
      PROVE  ScheduledIsDisabled'
  <2>1. row' = WithPassword(row, passwords') /\ raced' = raced /\ NewPassword
    BY <1>6 DEF UpdatePassword, WriteReset, UpdateAccount
  <2>2. passwords' \in 0..MaxPasswords
    BY <1>1, <2>1, BoundsAssumption DEF NewPassword, RowType
  <2> QED
    BY <1>1, <1>2, <2>1, <2>2, PasswordType
<1>7. ASSUME NEW r \in Requests, Disable(r) \/ ScheduleDelete(r)
      PROVE  ScheduledIsDisabled'
  BY <1>1, <1>3, <1>7, StateTypes DEF Disable, ScheduleDelete
<1>8. ASSUME NEW r \in Requests, WriteLogin(r)
      PROVE  ScheduledIsDisabled'
  <2>1. CASE EnsureActive(copy[r])
    BY <1>2, <1>8, <2>1 DEF WriteLogin
  <2>2. CASE ~EnsureActive(copy[r])
    <3>1. /\ row' = Enabled(copy[r])
          /\ raced' = (raced \/ (row.scheduled /\ ~copy[r].scheduled))
      BY <1>8, <2>2 DEF WriteLogin
    <3>2. CASE copy[r].scheduled
      BY <1>1, <3>1, <3>2, EnabledType DEF ScheduledIsDisabled
    <3>3. CASE ~copy[r].scheduled
      BY <1>1, <3>1, <3>3, EnabledType DEF ScheduledIsDisabled
    <3> QED
      BY <3>2, <3>3
  <2> QED
    BY <2>1, <2>2
<1>9. ASSUME NEW r \in Requests, Fail(r)
      PROVE  ScheduledIsDisabled'
  BY <1>2, <1>9 DEF Fail, accountVars
<1>10. CASE UNCHANGED vars \/ CopyExpires \/ \E e \in Values : CooldownEnds(e) \/ ShieldExpires(e)
  BY <1>2, <1>10 DEF CopyExpires, CooldownEnds, ShieldExpires, vars, accountVars
<1>11. ASSUME NEW r \in Requests, Step(r)
       PROVE  ScheduledIsDisabled'
  <2>1. CASE pc[r] = "write"
    <3>1. \/ \E k \in TextKinds : UpdateText(r, k)
          \/ UpdatePassword(r) \/ WriteReset(r) \/ Disable(r) \/ ScheduleDelete(r)
          \/ WriteLogin(r) \/ Fail(r)
      BY <1>11, <2>1, KindNames DEF Step, Begin, AskShield, ReadCache, ReadMissing, Fill,
        Authenticate, CheckLogin, RecordFailure, ReadForReset, Drop, CommitSession,
        UpdateProfile, UpdatePreferredPresence, UpdateEmail, UpdateUsername, VerifyEmail
    <3> QED
      BY <1>5, <1>6, <1>7, <1>8, <1>9, <3>1
  <2> QED
    BY <1>4, <1>11, <2>1
<1> QED
  BY <1>10, <1>11 DEF Next

(***************************************************************************)
(* A stale copy.  A step that changes the row leaves its request settling, *)
(* or records why it does not; one that ends a settling request sets or    *)
(* drops the copy, or records why it does not.                             *)
(***************************************************************************)
Settles(r) == pc[r] = "drop" \/ (pc[r] = "commit" /\ (kind[r] = "reset" \/ copy[r] = row))

LEMMA KeepsSettling ==
  ASSUME StaleCopyHasACause, NEW r \in Requests, OthersKept(r), ~Settles(r),
         row' = row, cached' = cached, causes' = causes
  PROVE  StaleCopyHasACause'
<1>1. CASE Settling
  <2>1. PICK q \in Requests : Settles(q)
    BY <1>1 DEF Settling, Settles
  <2>2. Settles(q)'
    BY <2>1 DEF Settles, OthersKept, Kept
  <2> QED
    BY <2>2 DEF StaleCopyHasACause, Settling, Settles
<1>2. CASE ~Settling
  BY <1>2 DEF StaleCopyHasACause
<1> QED
  BY <1>1, <1>2

LEMMA CauseOrFresh ==
  ASSUME cached' = NoCopy \/ cached' = Public(row') \/ causes' # {}
         \/ \E r \in Requests : Settles(r)'
  PROVE  StaleCopyHasACause'
BY DEF StaleCopyHasACause, Settling, Settles

LEMMA CachedOrCause ==
  ASSUME NEW u, Cache(u), row' = row
  PROVE  cached' = Public(row') \/ causes' # {}
BY DEF Cache, Public

LEMMA LostOrNone ==
  ASSUME NEW r \in Requests, Unanswered(r), cached' = cached
  PROVE  cached' = NoCopy \/ causes' # {}
BY DEF Unanswered

LEMMA WriteSettles ==
  ASSUME RequestsType, NEW r \in Requests, NEW revoked \in BOOLEAN, AfterWrite(r, revoked),
         cached' = cached, revoked \/ kind[r] \in {"password", "disable", "schedule"}
  PROVE  StaleCopyHasACause'
<1>1. CASE Unanswered(r)
  BY <1>1, LostOrNone, CauseOrFresh
<1>2. CASE Goto(r, "drop")
  <2>1. pc'[r] = "drop"
    BY <1>2 DEF Goto, RequestsType
  <2> QED
    BY <2>1, CauseOrFresh DEF Settles
<1>3. CASE ~Invalidates(kind[r], revoked) /\ ~Unanswered(r)
  <2>1. kind[r] \in {"password", "disable", "schedule"}
    BY <1>3 DEF Invalidates
  <2>2. cached = NoCopy \/ causes' = causes \cup {"early"}
    BY <1>3, <2>1 DEF AfterWrite
  <2> QED
    BY <2>2, CauseOrFresh
<1> QED
  BY <1>1, <1>2, <1>3 DEF AfterWrite

LEMMA TextSettles ==
  ASSUME TypeOK, StaleCopyHasACause, NEW r \in Requests, NEW k \in TextKinds, UpdateText(r, k)
  PROVE  StaleCopyHasACause'
<1>1. RequestsType
  BY TypeParts
<1>2. CASE argument[r] # Unstorable
  BY <1>1, <1>2, WriteSettles DEF UpdateText
<1>3. CASE argument[r] = Unstorable
  BY <1>1, <1>3, EndOfOne, KeepsSettling DEF UpdateText, Settles
<1> QED
  BY <1>2, <1>3

LEMMA StaleStep ==
  ASSUME TypeOK, Shape, StaleCopyHasACause, [Next]_vars
  PROVE  StaleCopyHasACause'
<1>1. RequestsType /\ RowType /\ row \in Accounts
  BY TypeParts
<1>2. CASE UNCHANGED vars \/ \E e \in Values : CooldownEnds(e) \/ ShieldExpires(e)
  BY <1>2 DEF CooldownEnds, ShieldExpires, vars, accountVars, requestVars, StaleCopyHasACause, Settling
<1>3. CASE CopyExpires
  BY <1>3, CauseOrFresh DEF CopyExpires
<1>4. ASSUME NEW r \in Requests, Fill(r)
      PROVE  StaleCopyHasACause'
  <2>1. CASE Cache(copy[r])
    BY <1>4, <2>1, CachedOrCause, CauseOrFresh DEF Fill, accountVars
  <2>2. CASE UNCHANGED <<cached, causes>>
    <3>1. OthersKept(r)
      BY <1>1, <1>4, StepOfOne DEF Step, Advances
    <3> QED
      BY <1>4, <2>2, <3>1, KeepsSettling DEF Fill, accountVars, Settles
  <2> QED
    BY <1>4, <2>1, <2>2 DEF Fill
<1>5. ASSUME NEW r \in Requests, Drop(r)
      PROVE  StaleCopyHasACause'
  BY <1>5, CauseOrFresh DEF Drop
<1>6. ASSUME NEW r \in Requests, CommitSession(r)
      PROVE  StaleCopyHasACause'
  <2>1. CASE Cache(copy[r])
    BY <1>6, <2>1, CachedOrCause, CauseOrFresh DEF CommitSession, accountVars
  <2>2. CASE cached' = cached /\ causes' = IF cached = NoCopy THEN causes ELSE causes \cup {"lost"}
    BY <2>2, CauseOrFresh
  <2> QED
    BY <1>6, <2>1, <2>2 DEF CommitSession
<1>7. ASSUME NEW r \in Requests, NEW k \in TextKinds, UpdateText(r, k)
      PROVE  StaleCopyHasACause'
  BY <1>7, TextSettles
<1>8. ASSUME NEW r \in Requests, UpdatePassword(r) \/ Disable(r) \/ ScheduleDelete(r)
      PROVE  StaleCopyHasACause'
  <2>1. PICK k \in {"password", "disable", "schedule"} : UpdateAccount(r, k)
    BY <1>8 DEF UpdatePassword, Disable, ScheduleDelete
  <2>2. PICK revoked \in BOOLEAN : AfterWrite(r, revoked)
    BY <2>1 DEF UpdateAccount
  <2> QED
    BY <1>1, <2>1, <2>2, WriteSettles DEF UpdateAccount
<1>9. ASSUME NEW r \in Requests, WriteLogin(r)
      PROVE  StaleCopyHasACause'
  <2>1. CASE EnsureActive(copy[r])
    <3>1. OthersKept(r)
      BY <1>1, <1>9, <2>1, MoveOfOne DEF WriteLogin
    <3> QED
      BY <1>9, <2>1, <3>1, KeepsSettling DEF WriteLogin, Settles
  <2>2. CASE Unanswered(r)
    BY <1>9, <2>2, LostOrNone, CauseOrFresh DEF WriteLogin
  <2>3. CASE Goto(r, "commit") /\ copy' = [copy EXCEPT ![r] = row']
    <3>1. pc'[r] = "commit" /\ copy'[r] = row'
      BY <1>1, <2>3 DEF Goto, RequestsType
    <3> QED
      BY <3>1, CauseOrFresh DEF Settles
  <2> QED
    BY <1>9, <2>1, <2>2, <2>3 DEF WriteLogin
<1>10. ASSUME NEW r \in Requests, WriteReset(r)
       PROVE  StaleCopyHasACause'
  <2>1. CASE Unanswered(r)
    BY <1>10, <2>1, LostOrNone, CauseOrFresh DEF WriteReset
  <2>2. CASE Goto(r, "commit") /\ copy' = [copy EXCEPT ![r] = row']
    <3>1. pc'[r] = "commit" /\ copy'[r] = row'
      BY <1>1, <2>2 DEF Goto, RequestsType
    <3> QED
      BY <3>1, CauseOrFresh DEF Settles
  <2> QED
    BY <1>10, <2>1, <2>2 DEF WriteReset
<1>11. ASSUME NEW r \in Requests,
              \/ \E k \in Kinds, v \in Values \cup {Unstorable}, p \in 0..MaxPasswords :
                   Begin(r, k, v, p)
              \/ AskShield(r) \/ ReadCache(r) \/ ReadMissing(r) \/ Authenticate(r)
              \/ CheckLogin(r) \/ RecordFailure(r) \/ ReadForReset(r) \/ Fail(r)
       PROVE  StaleCopyHasACause'
  <2>1. row' = row /\ cached' = cached /\ causes' = causes /\ pc[r] \notin {"drop", "commit"}
    BY <1>11 DEF Begin, AskShield, ReadCache, ReadMissing, Authenticate, CheckLogin,
                 RecordFailure, ReadForReset, Fail, accountVars
  <2>2. OthersKept(r)
    BY <1>11, StepOfOne DEF Step, Advances
  <2> QED
    BY <2>1, <2>2, KeepsSettling DEF Settles
<1>12. ASSUME NEW r \in Requests, Step(r)
       PROVE  StaleCopyHasACause'
  <2>1. ASSUME UpdateProfile(r) \/ UpdatePreferredPresence(r) \/ UpdateEmail(r)
               \/ UpdateUsername(r) \/ VerifyEmail(r)
        PROVE  \E k \in TextKinds : UpdateText(r, k)
    BY <2>1, KindNames
    DEF UpdateProfile, UpdatePreferredPresence, UpdateEmail, UpdateUsername, VerifyEmail
  <2> QED
    BY <1>4, <1>5, <1>6, <1>7, <1>8, <1>9, <1>10, <1>11, <1>12, <2>1, Zenon DEF Step
<1> QED
  BY <1>2, <1>3, <1>12 DEF Next

-----------------------------------------------------------------------------
(***************************************************************************)
(* The shield's account of the guesses, for one e-mail.                    *)
(***************************************************************************)
CountedAt(e) ==
  /\ failures[e] >= MaxAttempts <=> e \in cooling
  /\ e \notin blind =>
       /\ guesses[e] <= failures[e] + Cardinality(Failing(e))
       /\ guesses[e] + Cardinality(Attempting(e)) < MaxAttempts + Cardinality(Requests)
       /\ e \in ending => guesses[e] <= Cardinality(Failing(e))

LEMMA FiniteAttempts ==
  ASSUME NEW e
  PROVE  /\ IsFiniteSet(Failing(e)) /\ IsFiniteSet(Attempting(e))
         /\ Cardinality(Failing(e)) \in Nat /\ Cardinality(Attempting(e)) \in Nat
         /\ Cardinality(Requests) \in Nat \ {0}
<1>1. IsFiniteSet(Requests) /\ Requests # {}
  BY BoundsAssumption
<1>2. Failing(e) \subseteq Requests /\ Attempting(e) \subseteq Requests
  BY DEF Failing, Attempting
<1>3. IsFiniteSet(Failing(e)) /\ IsFiniteSet(Attempting(e))
  BY <1>1, <1>2, FS_Subset
<1> QED
  BY <1>1, <1>3, FS_CardinalityType, FS_EmptySet

LEMMA FiniteAttemptsNext ==
  ASSUME NEW e
  PROVE  /\ IsFiniteSet(Failing(e)') /\ IsFiniteSet(Attempting(e)')
         /\ Cardinality(Failing(e)') \in Nat /\ Cardinality(Attempting(e)') \in Nat
<1>1. IsFiniteSet(Requests)
  BY BoundsAssumption
<1>2. Failing(e)' \subseteq Requests /\ Attempting(e)' \subseteq Requests
  BY DEF Failing, Attempting
<1>3. IsFiniteSet(Failing(e)') /\ IsFiniteSet(Attempting(e)')
  BY <1>1, <1>2, FS_Subset
<1> QED
  BY <1>3, FS_CardinalityType

\* Requests that fail and requests that attempt are different ones.
LEMMA AttemptsFit ==
  ASSUME NEW F, NEW A, F \subseteq Requests, A \subseteq Requests, F \cap A = {}
  PROVE  Cardinality(F) + Cardinality(A) <= Cardinality(Requests)
<1>1. IsFiniteSet(Requests)
  BY BoundsAssumption
<1>2. IsFiniteSet(F) /\ IsFiniteSet(A) /\ F \cup A \subseteq Requests
  BY <1>1, FS_Subset
<1>3. Cardinality(F \cup A) = Cardinality(F) + Cardinality(A) - Cardinality(F \cap A)
  BY <1>2, FS_Union
<1>4. Cardinality(F \cap A) = 0
  BY FS_EmptySet
<1>5. Cardinality(F \cup A) <= Cardinality(Requests)
  BY <1>1, <1>2, FS_Subset
<1>6. Cardinality(F) \in Nat /\ Cardinality(A) \in Nat
  BY <1>2, FS_CardinalityType
<1> QED
  BY <1>3, <1>4, <1>5, <1>6

\* The shield is as before and nobody else attempts.
LEMMA CountKept ==
  ASSUME ShieldType, NEW e \in Values, CountedAt(e),
         failures'[e] = failures[e], guesses'[e] = guesses[e],
         e \in cooling <=> e \in cooling', e \in ending' => e \in ending,
         e \in blind => e \in blind', Failing(e) \subseteq Failing(e)',
         Attempting(e)' \subseteq Attempting(e)
  PROVE  CountedAt(e)'
<1>1. Cardinality(Failing(e)) <= Cardinality(Failing(e)')
  BY FiniteAttemptsNext, FS_Subset
<1>2. Cardinality(Attempting(e)') <= Cardinality(Attempting(e))
  BY FiniteAttempts, FS_Subset
<1>3. failures[e] \in Nat /\ guesses[e] \in Nat
  BY DEF ShieldType
<1>4. failures'[e] >= MaxAttempts <=> e \in cooling'
  BY DEF CountedAt
<1>5. ASSUME e \notin blind'
      PROVE  /\ guesses'[e] <= failures'[e] + Cardinality(Failing(e)')
             /\ guesses'[e] + Cardinality(Attempting(e)') < MaxAttempts + Cardinality(Requests)
             /\ e \in ending' => guesses'[e] <= Cardinality(Failing(e)')
  <2>1. /\ guesses[e] <= failures[e] + Cardinality(Failing(e))
        /\ guesses[e] + Cardinality(Attempting(e)) < MaxAttempts + Cardinality(Requests)
        /\ e \in ending' => guesses[e] <= Cardinality(Failing(e))
    BY <1>5 DEF CountedAt
  <2> QED
    BY <2>1, <1>1, <1>2, <1>3, FiniteAttempts, FiniteAttemptsNext, BoundsAssumption
<1> QED
  BY <1>4, <1>5 DEF CountedAt

\* The shield lets go of the e-mail.
LEMMA CountCleared ==
  ASSUME NEW e \in Values, failures'[e] \in Nat, guesses'[e] = 0,
         failures'[e] >= MaxAttempts <=> e \in cooling'
  PROVE  CountedAt(e)'
<1>1. Attempting(e)' \subseteq Requests
  BY DEF Attempting
<1>2. Cardinality(Attempting(e)') <= Cardinality(Requests)
  BY <1>1, BoundsAssumption, FS_Subset
<1>3. /\ MaxAttempts \in Nat \ {0} /\ Cardinality(Requests) \in Nat
      /\ Cardinality(Failing(e)') \in Nat /\ Cardinality(Attempting(e)') \in Nat
  BY FiniteAttempts, FiniteAttemptsNext, BoundsAssumption
<1>4. guesses'[e] + Cardinality(Attempting(e)') < MaxAttempts + Cardinality(Requests)
  BY <1>2, <1>3
<1>5. guesses'[e] <= failures'[e] + Cardinality(Failing(e)')
  BY <1>3
<1>6. guesses'[e] <= Cardinality(Failing(e)')
  BY <1>3
<1> QED
  BY <1>4, <1>5, <1>6 DEF CountedAt

\* The other steps leave the shield alone, and so do requests that ask it or tell it.
LEMMA QuietStep ==
  ASSUME NEW r \in Requests, Step(r),
         ~AskShield(r), ~CheckLogin(r), ~RecordFailure(r), ~CommitSession(r)
  PROVE  UNCHANGED shieldVars /\ pc[r] \notin {"cooldown", "fail"}
<1>1. CASE \/ ReadCache(r) \/ ReadMissing(r) \/ Fill(r) \/ Authenticate(r)
           \/ ReadForReset(r) \/ WriteLogin(r) \/ WriteReset(r) \/ Fail(r) \/ Drop(r)
  BY <1>1 DEF ReadCache, ReadMissing, Fill, Authenticate, ReadForReset, WriteLogin, WriteReset,
              Fail, Drop
<1>2. CASE \E k \in Kinds, v \in Values \cup {Unstorable}, p \in 0..MaxPasswords :
             Begin(r, k, v, p)
  BY <1>2 DEF Begin
<1>3. CASE \/ UpdateProfile(r) \/ UpdatePreferredPresence(r) \/ UpdateEmail(r)
           \/ UpdateUsername(r) \/ VerifyEmail(r)
  BY <1>3 DEF UpdateProfile, UpdatePreferredPresence, UpdateEmail, UpdateUsername, VerifyEmail,
              UpdateText
<1>4. CASE UpdatePassword(r) \/ Disable(r) \/ ScheduleDelete(r)
  BY <1>4 DEF UpdatePassword, Disable, ScheduleDelete, UpdateAccount
<1> QED
  BY <1>1, <1>2, <1>3, <1>4, Zenon DEF Step

\* A request that neither begins to attempt nor stops failing
LEMMA AttemptsKept ==
  ASSUME Shape, NEW r \in Requests, NEW e, OthersKept(r), pc[r] # "fail",
         pc'[r] = "row" => pc[r] = "row" \/ kind'[r] # "login"
  PROVE  /\ pc[r] # "row" \/ SameRequest(r) \/ pc'[r] # "row" =>
              Failing(e) \subseteq Failing(e)' /\ Attempting(e)' \subseteq Attempting(e)
BY DEF OthersKept, Kept, SameRequest, Failing, Attempting

LEMMA AttemptsPlus ==
  ASSUME NEW e, NEW r
  PROVE  /\ r \notin Failing(e) => Cardinality(Failing(e) \cup {r}) = Cardinality(Failing(e)) + 1
         /\ r \in Failing(e) => Cardinality(Failing(e) \ {r}) = Cardinality(Failing(e)) - 1
         /\ r \in Attempting(e) =>
              Cardinality(Attempting(e) \ {r}) = Cardinality(Attempting(e)) - 1
<1>1. IsFiniteSet(Failing(e)) /\ IsFiniteSet(Attempting(e))
  BY FiniteAttempts
<1>2. r \notin Failing(e) => Cardinality(Failing(e) \cup {r}) = Cardinality(Failing(e)) + 1
  BY <1>1, FS_AddElement
<1>3. r \in Failing(e) => Cardinality(Failing(e) \ {r}) = Cardinality(Failing(e)) - 1
  BY <1>1, FS_RemoveElement
<1>4. r \in Attempting(e) =>
        Cardinality(Attempting(e) \ {r}) = Cardinality(Attempting(e)) - 1
  BY <1>1, FS_RemoveElement
<1> QED
  BY <1>2, <1>3, <1>4

LEMMA CountStep ==
  ASSUME TypeOK, Shape, Counted, [Next]_vars
  PROVE  Counted'
<1> SUFFICES ASSUME NEW e \in Values
             PROVE  CountedAt(e)'
  BY DEF Counted, CountedAt
<1>1. RequestsType /\ ShieldType /\ CountedAt(e)
  BY TypeParts DEF Counted, CountedAt
<1>2. CASE UNCHANGED vars \/ CopyExpires
  <2>1. UNCHANGED <<failures, cooling, ending, guesses, blind, pc, kind, argument>>
    BY <1>2 DEF vars, CopyExpires, shieldVars, requestVars
  <2>2. Failing(e)' = Failing(e) /\ Attempting(e)' = Attempting(e)
    BY <2>1 DEF Failing, Attempting
  <2> QED
    BY <1>1, <2>1, <2>2, CountKept
<1>3. ASSUME NEW d \in Values, ShieldExpires(d)
      PROVE  CountedAt(e)'
  <2>1. CASE d = e
    BY <1>1, <1>3, <2>1, CountCleared, BoundsAssumption DEF ShieldExpires, Clear, ShieldType
  <2>2. CASE d # e
    <3>1. /\ failures'[e] = failures[e] /\ guesses'[e] = guesses[e]
          /\ e \in cooling <=> e \in cooling'
          /\ e \in ending' => e \in ending
          /\ e \in blind => e \in blind'
      BY <1>1, <1>3, <2>2 DEF ShieldExpires, Clear, ShieldType
    <3>2. Failing(e)' = Failing(e) /\ Attempting(e)' = Attempting(e)
      BY <1>3 DEF ShieldExpires, requestVars, Failing, Attempting
    <3> QED
      BY <1>1, <3>1, <3>2, CountKept
  <2> QED
    BY <2>1, <2>2
<1>4. ASSUME NEW r \in Requests, CommitSession(r)
      PROVE  CountedAt(e)'
  <2>1. OthersKept(r) /\ pc'[r] = "idle" /\ pc[r] = "commit"
    BY <1>1, <1>4, EndOfOne DEF CommitSession, Ends
  <2>2. Failing(e) \subseteq Failing(e)' /\ Attempting(e)' \subseteq Attempting(e)
    BY <2>1, AttemptsKept
  <2>3. CASE UNCHANGED shieldVars
    BY <1>1, <2>2, <2>3, CountKept DEF shieldVars
  <2>4. ASSUME NEW d, Clear(d)
        PROVE  CountedAt(e)'
    <3>1. CASE d = e
      BY <1>1, <2>4, <3>1, CountCleared, BoundsAssumption DEF Clear, ShieldType
    <3>2. CASE d # e
      <4>1. /\ failures'[e] = failures[e] /\ guesses'[e] = guesses[e]
            /\ e \in cooling <=> e \in cooling'
            /\ e \in ending' => e \in ending
            /\ e \in blind => e \in blind'
        BY <1>1, <2>4, <3>2 DEF Clear, ShieldType
      <4> QED
        BY <1>1, <2>2, <4>1, CountKept
    <3> QED
      BY <3>1, <3>2
  <2> QED
    BY <1>4, <2>3, <2>4 DEF CommitSession
<1>5. ASSUME NEW r \in Requests, AskShield(r)
      PROVE  CountedAt(e)'
  <2>1. pc[r] = "cooldown" /\ UNCHANGED <<failures, guesses, cooling, ending>>
    BY <1>5 DEF AskShield
  <2>2. CASE End(r)
    <3>1. OthersKept(r) /\ pc'[r] = "idle"
      BY <1>1, <2>2, EndOfOne DEF Ends
    <3>2. Failing(e) \subseteq Failing(e)' /\ Attempting(e)' \subseteq Attempting(e)
      BY <2>1, <3>1, AttemptsKept
    <3>3. e \in blind => e \in blind'
      BY <1>5 DEF AskShield
    <3> QED
      BY <1>1, <2>1, <3>2, <3>3, CountKept
  <2>3. CASE Goto(r, "row") /\ UNCHANGED copy
    <3>1. OthersKept(r) /\ SameRequest(r) /\ pc'[r] = "row"
      BY <1>1, <2>3, MoveOfOne
    <3>2. Failing(e)' = Failing(e)
      BY <2>1, <3>1 DEF OthersKept, Kept, Failing
    <3>3. CASE argument[r] # e
      <4>1. Attempting(e)' \subseteq Attempting(e)
        BY <3>1, <3>3 DEF OthersKept, Kept, SameRequest, Attempting
      <4>2. e \in blind => e \in blind'
        BY <1>5 DEF AskShield
      <4> QED
        BY <1>1, <2>1, <3>2, <4>1, <4>2, CountKept
    <3>4. CASE e \in blind'
      BY <1>1, <2>1, <3>4 DEF CountedAt
    <3>5. CASE argument[r] = e /\ e \notin blind'
      <4>1. (e \notin cooling \/ e \in ending) /\ e \notin blind
        <5>1. ~End(r)
          BY <1>1, <3>1, EndOfOne DEF Ends
        <5>2. ~(blind' = blind \cup {argument[r]})
          BY <3>5
        <5>3. ~Blocked(argument[r]) /\ UNCHANGED blind
          BY <1>5, <5>1, <5>2 DEF AskShield
        <5> QED
          BY <3>5, <5>3 DEF Blocked
      <4>2. /\ failures[e] >= MaxAttempts <=> e \in cooling
            /\ guesses[e] <= failures[e] + Cardinality(Failing(e))
            /\ e \in ending => guesses[e] <= Cardinality(Failing(e))
        BY <1>1, <4>1 DEF CountedAt
      <4>3. /\ Failing(e) \subseteq Requests /\ Attempting(e)' \subseteq Requests
            /\ Failing(e)' \cap Attempting(e)' = {}
        BY DEF Failing, Attempting
      <4>4. Cardinality(Failing(e)) + Cardinality(Attempting(e)') <= Cardinality(Requests)
        BY <3>2, <4>3, AttemptsFit
      <4>5. failures[e] \in Nat /\ guesses[e] \in Nat
        BY <1>1 DEF ShieldType
      <4>6. guesses[e] + Cardinality(Attempting(e)') < MaxAttempts + Cardinality(Requests)
        BY <4>1, <4>2, <4>4, <4>5, FiniteAttempts, FiniteAttemptsNext, BoundsAssumption
      <4> QED
        BY <2>1, <3>2, <4>2, <4>6 DEF CountedAt
    <3> QED
      BY <3>3, <3>4, <3>5
  <2> QED
    BY <1>5, <2>2, <2>3 DEF AskShield
<1>6. ASSUME NEW r \in Requests, CheckLogin(r)
      PROVE  CountedAt(e)'
  <2>1. /\ pc[r] = "row" /\ kind[r] = "login"
        /\ UNCHANGED <<failures, cooling, ending, blind>>
    BY <1>6 DEF CheckLogin
  <2>2. OthersKept(r) /\ pc'[r] # "row"
    <3>1. CASE End(r)
      BY <1>1, <3>1, EndOfOne DEF Ends
    <3>2. CASE Goto(r, "fail") /\ UNCHANGED copy
      BY <1>1, <3>2, MoveOfOne
    <3>3. CASE Goto(r, "write") /\ copy' = [copy EXCEPT ![r] = row]
      BY <1>1, <3>3, MoveOfOne
    <3> QED
      BY <1>6, <3>1, <3>2, <3>3 DEF CheckLogin
  <2>3. Failing(e) \subseteq Failing(e)' /\ Attempting(e)' \subseteq Attempting(e)
    BY <2>1, <2>2, AttemptsKept
  <2>4. CASE guesses' = guesses \/ argument[r] # e
    <3>1. guesses'[e] = guesses[e]
      BY <1>1, <1>6, <2>4 DEF CheckLogin, ShieldType
    <3> QED
      BY <1>1, <2>1, <2>3, <3>1, CountKept
  <2>5. CASE guesses' # guesses /\ argument[r] = e
    <3>1. Goto(r, "fail") /\ UNCHANGED copy /\ guesses' = [guesses EXCEPT ![argument[r]] = @ + 1]
      BY <1>6, <2>5 DEF CheckLogin
    <3>2. SameRequest(r) /\ pc'[r] = "fail"
      BY <1>1, <3>1, MoveOfOne
    <3>3. /\ r \notin Failing(e) /\ Failing(e)' = Failing(e) \cup {r}
          /\ r \in Attempting(e) /\ Attempting(e)' = Attempting(e) \ {r}
      BY <2>1, <2>2, <2>5, <3>2 DEF OthersKept, Kept, SameRequest, Failing, Attempting
    <3>4. Cardinality(Failing(e)') = Cardinality(Failing(e)) + 1
      BY <3>3, AttemptsPlus
    <3>5. Cardinality(Attempting(e)') = Cardinality(Attempting(e)) - 1
      BY <3>3, AttemptsPlus
    <3>6. guesses'[e] = guesses[e] + 1 /\ guesses[e] \in Nat /\ failures[e] \in Nat
      BY <1>1, <2>5, <3>1 DEF ShieldType
    <3>7. ASSUME e \notin blind'
          PROVE  /\ guesses'[e] <= failures'[e] + Cardinality(Failing(e)')
                 /\ guesses'[e] + Cardinality(Attempting(e)')
                      < MaxAttempts + Cardinality(Requests)
                 /\ e \in ending' => guesses'[e] <= Cardinality(Failing(e)')
      <4>1. /\ guesses[e] <= failures[e] + Cardinality(Failing(e))
            /\ guesses[e] + Cardinality(Attempting(e)) < MaxAttempts + Cardinality(Requests)
            /\ e \in ending => guesses[e] <= Cardinality(Failing(e))
        BY <1>1, <2>1, <3>7 DEF CountedAt
      <4> QED
        BY <2>1, <3>4, <3>5, <3>6, <4>1, FiniteAttempts, BoundsAssumption
    <3> QED
      BY <1>1, <2>1, <3>7 DEF CountedAt
  <2> QED
    BY <2>4, <2>5
<1>7. ASSUME NEW r \in Requests, RecordFailure(r)
      PROVE  CountedAt(e)'
  <2>1. pc[r] = "fail" /\ UNCHANGED guesses
    BY <1>7 DEF RecordFailure
  <2>2. OthersKept(r) /\ pc'[r] = "idle"
    BY <1>1, <1>7, EndOfOne DEF RecordFailure, Ends
  <2>3. Attempting(e)' = Attempting(e)
    BY <2>1, <2>2 DEF OthersKept, Kept, Attempting
  <2>4. CASE argument[r] # e
    <3>1. Failing(e)' = Failing(e)
      BY <2>1, <2>2, <2>4 DEF OthersKept, Kept, Failing
    <3>2. /\ failures'[e] = failures[e]
          /\ e \in cooling <=> e \in cooling'
          /\ e \in ending' => e \in ending
          /\ e \in blind => e \in blind'
      BY <1>1, <1>7, <2>4 DEF RecordFailure, Count, ShieldType
    <3> QED
      BY <1>1, <2>1, <2>3, <3>1, <3>2, CountKept
  <2>5. CASE e \in blind' /\ UNCHANGED <<failures, cooling>>
    BY <1>1, <2>5 DEF CountedAt
  <2>6. ASSUME argument[r] = e, UNCHANGED blind, NEW n \in 1..2, Count(e, n)
        PROVE  CountedAt(e)'
    <3>1. failures'[e] = failures[e] + n /\ failures[e] \in Nat /\ guesses[e] \in Nat
      BY <1>1, <2>6 DEF Count, ShieldType
    <3>2. failures[e] >= MaxAttempts <=> e \in cooling
      BY <1>1 DEF CountedAt
    <3>3. failures'[e] >= MaxAttempts <=> e \in cooling'
      BY <2>6, <3>1, <3>2, BoundsAssumption DEF Count, Reached
    <3>4. e \notin ending'
      BY <1>1, <2>6, <3>1, <3>2, BoundsAssumption DEF Count, Reached, ShieldType
    <3>5. r \in Failing(e) /\ Failing(e)' = Failing(e) \ {r}
      BY <2>1, <2>2, <2>6 DEF OthersKept, Kept, Failing
    <3>6. Cardinality(Failing(e)') = Cardinality(Failing(e)) - 1
      BY <3>5, AttemptsPlus
    <3>7. ASSUME e \notin blind'
          PROVE  /\ guesses'[e] <= failures'[e] + Cardinality(Failing(e)')
                 /\ guesses'[e] + Cardinality(Attempting(e)')
                      < MaxAttempts + Cardinality(Requests)
      <4>1. /\ guesses[e] <= failures[e] + Cardinality(Failing(e))
            /\ guesses[e] + Cardinality(Attempting(e)) < MaxAttempts + Cardinality(Requests)
        BY <1>1, <2>6, <3>7 DEF CountedAt
      <4> QED
        BY <2>1, <2>3, <3>1, <3>6, <4>1, FiniteAttempts
    <3> QED
      BY <3>3, <3>4, <3>7 DEF CountedAt
  <2> QED
    BY <1>7, <2>4, <2>5, <2>6 DEF RecordFailure
<1>8. ASSUME NEW r \in Requests, Step(r),
             ~AskShield(r), ~CheckLogin(r), ~RecordFailure(r), ~CommitSession(r)
      PROVE  CountedAt(e)'
  <2>1. UNCHANGED shieldVars /\ pc[r] \notin {"cooldown", "fail"}
    BY <1>8, QuietStep
  <2>2. Failing(e) \subseteq Failing(e)' /\ Attempting(e)' \subseteq Attempting(e)
    <3>1. CASE OthersKept(r) /\ Begins(r)
      <4>1. pc[r] = "idle" /\ (pc'[r] = "row" => kind'[r] # "login")
        BY <3>1, FirstSteps DEF Begins
      <4> QED
        BY <2>1, <3>1, <4>1, AttemptsKept
    <3>2. CASE OthersKept(r) /\ Ends(r)
      BY <2>1, <3>2, AttemptsKept DEF Ends
    <3>3. CASE OthersKept(r) /\ SameRequest(r) /\ MovesOn(r)
      <4>1. pc'[r] = "row" => kind'[r] # "login"
        BY <2>1, <3>3, KindNames DEF MovesOn, SameRequest, Shape, ReadsThrough
      <4> QED
        BY <2>1, <3>3, <4>1, AttemptsKept
    <3> QED
      BY <1>8, <3>1, <3>2, <3>3, StepOfOne DEF Advances
  <2> QED
    BY <1>1, <2>1, <2>2, CountKept DEF shieldVars
<1>9. ASSUME NEW d \in Values, CooldownEnds(d)
      PROVE  CountedAt(e)'
  <2>1. CASE d = e
    <3>1. failures'[e] \in Nat /\ guesses'[e] = 0 /\ cooling' = cooling /\ failures' = failures
      BY <1>1, <1>9, <2>1 DEF CooldownEnds, ShieldType
    <3> QED
      BY <1>1, <3>1, CountCleared DEF CountedAt
  <2>2. CASE d # e
    <3>1. /\ failures'[e] = failures[e] /\ guesses'[e] = guesses[e]
          /\ e \in cooling <=> e \in cooling'
          /\ e \in ending' => e \in ending
          /\ e \in blind => e \in blind'
      BY <1>1, <1>9, <2>2 DEF CooldownEnds, ShieldType
    <3>2. Failing(e)' = Failing(e) /\ Attempting(e)' = Attempting(e)
      BY <1>9 DEF CooldownEnds, requestVars, Failing, Attempting
    <3> QED
      BY <1>1, <3>1, <3>2, CountKept
  <2> QED
    BY <2>1, <2>2
<1> QED
  BY <1>2, <1>3, <1>4, <1>5, <1>6, <1>7, <1>8, <1>9 DEF Next

-----------------------------------------------------------------------------
(***************************************************************************)
(* The inductive invariant holds at first, and each step keeps it.         *)
(***************************************************************************)
LEMMA InitRequests ==
  ASSUME Init
  PROVE  /\ RequestsType /\ CountsType
         /\ \A r \in Requests : pc[r] = "idle" /\ kind[r] = "get" /\ argument[r] \in Values
<1>1. "idle" \in Steps /\ "get" \in AllKinds /\ FirstValue \in Values /\ 0 \in 0..MaxPasswords
  BY ValuesAssumption, BoundsAssumption DEF Steps, AllKinds, CachedKinds
<1>2. RequestsType
  BY <1>1 DEF Init, RequestsType
<1>3. CountsType
  <2>1. faults = 0 /\ ops = 0 /\ raced = FALSE
    BY DEF Init
  <2>2. 0 \in 0..MaxFaults /\ 0 \in 0..MaxOps
    BY BoundsAssumption
  <2> QED
    BY <2>1, <2>2, Zenon DEF CountsType
<1> QED
  BY <1>1, <1>2, <1>3, ValuesAssumption DEF Init

LEMMA InitShield ==
  ASSUME Init
  PROVE  /\ ShieldType /\ guesses = failures
         /\ \A e \in Values : failures[e] < MaxAttempts
         /\ cooling = {} /\ ending = {}
<1>1. PICK n \in {0, MaxAttempts - 1} : failures = [e \in Values |-> IF e = FirstValue THEN n ELSE 0]
  BY DEF Init
<1>2. failures \in [Values -> Nat] /\ \A e \in Values : failures[e] < MaxAttempts
  BY <1>1, BoundsAssumption
<1> QED
  BY <1>2, BoundsAssumption DEF Init, ShieldType

LEMMA InitRow ==
  ASSUME Init
  PROVE  RowType /\ CacheType /\ ScheduledIsDisabled /\ StaleCopyHasACause
<1>1. [f \in TextKinds |-> FirstValue] \in [TextKinds -> Values]
  BY ValuesAssumption
<1>2. row \in Accounts /\ row.password = 1
  BY <1>1, BoundsAssumption DEF Init, Accounts
<1>3. RowType
  BY <1>2, BoundsAssumption DEF Init, RowType
<1>4. CacheType
  BY <1>2, PublicType DEF Init, CacheType
<1>5. ScheduledIsDisabled /\ StaleCopyHasACause
  BY DEF Init, ScheduledIsDisabled, StaleCopyHasACause
<1> QED
  BY <1>3, <1>4, <1>5

LEMMA InitInv ==
  ASSUME Init
  PROVE  IInv
<1>1. TypeOK
  BY InitRequests, InitShield, InitRow
  DEF TypeOK, RequestsType, RowType, CacheType, ShieldType, CountsType
<1>2. Shape /\ Knows /\ Authorised
  BY InitRequests
  DEF Shape, HoldsAUser, ReadsThrough, LogsIn, Presences, Knows, Authorised
<1>3. ASSUME NEW e \in Values
      PROVE  CountedAt(e)
  <2>1. Failing(e) = {} /\ Attempting(e) = {}
    BY InitRequests DEF Failing, Attempting
  <2>2. Cardinality(Failing(e)) = 0 /\ Cardinality(Attempting(e)) = 0
    BY <2>1, FS_EmptySet
  <2>3. /\ failures[e] \in Nat /\ guesses[e] = failures[e] /\ failures[e] < MaxAttempts
        /\ e \notin cooling /\ e \notin ending
    BY InitShield DEF ShieldType
  <2> QED
    BY <2>2, <2>3, FiniteAttempts, BoundsAssumption DEF CountedAt
<1>4. Counted
  BY <1>3 DEF Counted, CountedAt
<1> QED
  BY <1>1, <1>2, <1>4, InitRow DEF IInv

LEMMA StepInv ==
  ASSUME IInv, [Next]_vars
  PROVE  IInv'
BY TypeStep, ShapeStep, KnowsStep, ScheduledStep, StaleStep, CountStep DEF IInv

\* IInv is an invariant of the account.
THEOREM Invariance == Spec => []IInv
<1>1. Init => IInv
  BY InitInv
<1>2. IInv /\ [Next]_vars => IInv'
  BY StepInv
<1> QED
  BY <1>1, <1>2, PTL DEF Spec

-----------------------------------------------------------------------------
\* Every variable keeps its type; the copy in Redis never has the password.
THEOREM TypeCorrect == Spec => []TypeOK
<1>1. IInv => TypeOK
  BY DEF IInv
<1> QED
  BY <1>1, Invariance, PTL

\* A cached user differs from the row only while a request is to replace it, or after a
\* lost, skipped or overtaken invalidation (repository_cache.go, auth/cache.go).
THEOREM StaleCopies == Spec => []StaleCopyHasACause
<1>1. IInv => StaleCopyHasACause
  BY DEF IInv
<1> QED
  BY <1>1, Invariance, PTL

\* An account whose deletion is scheduled is disabled, unless a log-in that read it before
\* enabled it after (service_auth.go:60).
THEOREM ScheduledAccounts == Spec => []ScheduledIsDisabled
<1>1. IInv => ScheduledIsDisabled
  BY DEF IInv
<1> QED
  BY <1>1, Invariance, PTL

\* A change behind fetchAndAuthenticate was begun with a password that was the account's.
THEOREM AuthorisedChanges == Spec => []CheckedChangesWereAuthorised
<1>1. IInv => CheckedChangesWereAuthorised
  BY DEF IInv, Authorised, CheckedChangesWereAuthorised
<1> QED
  BY <1>1, Invariance, PTL

\* However the attempts interleave, the wrong passwords compared between two moments at which
\* the shield lets go stay below its limit and their number, and in the last half second of
\* a cooldown, which lets attempts through, within their number (shield.go:40, 75).
THEOREM BoundedGuesses == Spec => []GuessesAreBounded
<1>1. ASSUME IInv
      PROVE  GuessesAreBounded
  <2>1. ASSUME NEW e \in Values, e \notin blind
        PROVE  /\ guesses[e] < MaxAttempts + Cardinality(Requests)
               /\ e \in ending => guesses[e] <= Cardinality(Requests)
    <3>1. /\ guesses[e] + Cardinality(Attempting(e)) < MaxAttempts + Cardinality(Requests)
          /\ e \in ending => guesses[e] <= Cardinality(Failing(e))
      BY <1>1, <2>1 DEF IInv, Counted
    <3>2. guesses[e] \in Nat
      BY <1>1, <2>1, TypeParts DEF IInv, ShieldType
    <3>3. Failing(e) \subseteq Requests
      BY DEF Failing
    <3>4. Cardinality(Failing(e)) <= Cardinality(Requests)
      BY <3>3, BoundsAssumption, FS_Subset
    <3> QED
      BY <3>1, <3>2, <3>4, FiniteAttempts, BoundsAssumption
  <2> QED
    BY <2>1 DEF GuessesAreBounded
<1> QED
  BY <1>1, Invariance, PTL

-----------------------------------------------------------------------------
(***************************************************************************)
(* What the exceptions of the properties mean.  Where Redis answers and    *)
(* Postgres's answers arrive, no invalidation is lost and the shield       *)
(* misses no call; where one request runs at a time, none is overtaken.    *)
(***************************************************************************)
Told == faults = 0 /\ "lost" \notin causes /\ blind = {}

LEMMA NoFault ==
  ASSUME MaxFaults = 0, Told
  PROVE  ~Faulty
BY DEF Told, Faulty

LEMMA ToldWrite ==
  ASSUME MaxFaults = 0, Told, NEW r \in Requests, NEW revoked, AfterWrite(r, revoked)
  PROVE  faults' = 0 /\ "lost" \notin causes'
<1>1. ~Unanswered(r)
  BY NoFault DEF Unanswered
<1>2. UNCHANGED faults /\ (UNCHANGED causes \/ causes' \subseteq causes \cup {"early"})
  BY <1>1 DEF AfterWrite
<1> QED
  BY <1>2 DEF Told

LEMMA ToldStep ==
  ASSUME MaxFaults = 0, Told, NEW r \in Requests, Step(r)
  PROVE  Told'
<1>1. ~Faulty
  BY NoFault
<1>2. CASE \/ \E k \in Kinds, v \in Values \cup {Unstorable}, p \in 0..MaxPasswords :
                Begin(r, k, v, p)
           \/ AskShield(r) \/ ReadCache(r) \/ ReadMissing(r) \/ Authenticate(r)
           \/ CheckLogin(r) \/ RecordFailure(r) \/ ReadForReset(r) \/ Fail(r)
  <2>1. UNCHANGED <<faults, causes, blind>>
    BY <1>1, <1>2 DEF Begin, AskShield, ReadCache, ReadMissing, Authenticate, CheckLogin,
      RecordFailure, ReadForReset, Fail, shieldVars
  <2> QED
    BY <2>1 DEF Told
<1>3. CASE Fill(r) \/ CommitSession(r)
  <2>1. PICK u : Cache(u) /\ UNCHANGED faults
    BY <1>1, <1>3 DEF Fill, CommitSession
  <2>2. "lost" \notin causes'
    BY <2>1 DEF Cache
  <2>3. blind' \subseteq blind
    BY <1>1, <1>3 DEF Fill, CommitSession, Clear, shieldVars
  <2> QED
    BY <2>1, <2>2, <2>3 DEF Told
<1>4. CASE Drop(r)
  BY <1>1, <1>4 DEF Drop, shieldVars, Told
<1>5. CASE \E k \in TextKinds : UpdateText(r, k)
  <2>1. blind' = blind /\ ((\E revoked : AfterWrite(r, revoked)) \/ UNCHANGED <<faults, causes>>)
    BY <1>5 DEF UpdateText, shieldVars
  <2> QED
    BY <2>1, ToldWrite DEF Told
<1>6. CASE \E k : UpdateAccount(r, k)
  <2>1. blind' = blind /\ \E revoked : AfterWrite(r, revoked)
    BY <1>6 DEF UpdateAccount, shieldVars
  <2> QED
    BY <2>1, ToldWrite DEF Told
<1>7. CASE WriteLogin(r) \/ WriteReset(r)
  <2>1. UNCHANGED <<faults, causes, blind>>
    BY <1>1, <1>7 DEF WriteLogin, WriteReset, Unanswered, shieldVars
  <2> QED
    BY <2>1 DEF Told
<1> QED
  BY <1>2, <1>3, <1>4, <1>5, <1>6, <1>7, KindNames
  DEF Step, UpdateProfile, UpdatePreferredPresence, UpdateEmail, UpdateUsername, VerifyEmail,
      UpdatePassword, Disable, ScheduleDelete

LEMMA ToldNext ==
  ASSUME MaxFaults = 0, Told, [Next]_vars
  PROVE  Told'
<1>1. CASE UNCHANGED vars \/ CopyExpires \/ \E e \in Values : CooldownEnds(e) \/ ShieldExpires(e)
  BY <1>1 DEF vars, CopyExpires, CooldownEnds, ShieldExpires, Clear, shieldVars, Told
<1> QED
  BY <1>1, ToldStep DEF Next

\* The cached copy differs from the row only for causes among C.
StaleOnlyBy(C) ==
  cached \notin {NoCopy, Public(row)} => Settling \/ (causes # {} /\ causes \subseteq C)

(***************************************************************************)
(* Where no call to Redis fails and no answer of Postgres is lost, a copy  *)
(* is stale only because an invalidation was skipped or overtaken          *)
(* (service.go:510, repository_cache.go:41), and between two moments at    *)
(* which the shield lets go its limit is exceeded by less than the number  *)
(* of the requests (shield.go:40).                                         *)
(***************************************************************************)
THEOREM WithoutFaults ==
  ASSUME MaxFaults = 0
  PROVE  Spec => [](/\ StaleOnlyBy({"early", "raced"})
                    /\ \A e \in Values : guesses[e] < MaxAttempts + Cardinality(Requests))
<1>1. Init => Told
  BY DEF Init, Told
<1>2. Told /\ [Next]_vars => Told'
  BY ToldNext
<1>3. Spec => []Told
  BY <1>1, <1>2, PTL DEF Spec
<1>4. ASSUME TypeOK, StaleCopyHasACause, GuessesAreBounded, Told
      PROVE  /\ StaleOnlyBy({"early", "raced"})
             /\ \A e \in Values : guesses[e] < MaxAttempts + Cardinality(Requests)
  <2>1. causes \subseteq {"early", "raced"}
    BY <1>4 DEF TypeOK, Causes, Told
  <2>2. StaleOnlyBy({"early", "raced"})
    BY <1>4, <2>1 DEF StaleCopyHasACause, StaleOnlyBy
  <2>3. \A e \in Values : guesses[e] < MaxAttempts + Cardinality(Requests)
    BY <1>4 DEF GuessesAreBounded, Told
  <2> QED
    BY <2>2, <2>3
<1> QED
  BY <1>3, <1>4, TypeCorrect, StaleCopies, BoundedGuesses, PTL
-----------------------------------------------------------------------------
OneRequest == \A q, r \in Requests : q = r

\* A request holds the user that it is about to put in the cache, or to log in.
HoldsTheRow(r) ==
  pc[r] \in {"fill", "commit"} \/ (pc[r] = "write" /\ kind[r] = "login") => copy[r] = row

Alone ==
  /\ "raced" \notin causes /\ raced = FALSE
  /\ \A r \in Requests : HoldsTheRow(r)

LEMMA AloneNext ==
  ASSUME OneRequest, NEW r \in Requests, HoldsTheRow(r)', raced' = FALSE, "raced" \notin causes'
  PROVE  Alone'
BY DEF OneRequest, Alone

\* A request that ends, or that holds nothing yet, or the row it has read or written.
LEMMA HoldsNothing ==
  ASSUME RequestsType, NEW r \in Requests
  PROVE  /\ End(r) => HoldsTheRow(r)'
         /\ \A s : /\ Goto(r, s)
                   /\ UNCHANGED copy \/ \E u : copy' = [copy EXCEPT ![r] = u]
                   /\ s \notin {"fill", "commit"} /\ (s = "write" => kind[r] # "login")
                   => HoldsTheRow(r)'
<1>1. CASE End(r)
  BY <1>1, EndOfOne DEF Ends, HoldsTheRow
<1>2. ASSUME NEW s, Goto(r, s), UNCHANGED copy \/ \E u : copy' = [copy EXCEPT ![r] = u],
             s \notin {"fill", "commit"}, s = "write" => kind[r] # "login"
      PROVE  HoldsTheRow(r)'
  <2>1. pc'[r] = s /\ kind'[r] = kind[r]
    BY <1>2, MoveOfOne DEF SameRequest
  <2> QED
    BY <1>2, <2>1 DEF HoldsTheRow
<1> QED
  BY <1>1, <1>2

LEMMA HoldsWhatItRead ==
  ASSUME RequestsType, NEW r \in Requests, NEW s, Goto(r, s),
         \/ copy' = [copy EXCEPT ![r] = row']
         \/ UNCHANGED copy /\ copy[r] = row'
  PROVE  HoldsTheRow(r)'
<1>1. copy'[r] = row'
  BY MoveOfOne
<1> QED
  BY <1>1 DEF HoldsTheRow

LEMMA AloneAfterWrite ==
  ASSUME RequestsType, Alone, NEW r \in Requests, NEW revoked, AfterWrite(r, revoked)
  PROVE  HoldsTheRow(r)' /\ "raced" \notin causes'
<1>1. "raced" \notin causes'
  BY DEF AfterWrite, Unanswered, Alone
<1>2. End(r) \/ (Goto(r, "drop") /\ copy' = [copy EXCEPT ![r] = NoCopy])
  BY DEF AfterWrite, Unanswered
<1>3. CASE End(r)
  BY <1>1, <1>3, HoldsNothing
<1>4. CASE Goto(r, "drop") /\ copy' = [copy EXCEPT ![r] = NoCopy]
  BY <1>1, <1>4, HoldsNothing
<1> QED
  BY <1>2, <1>3, <1>4

LEMMA AloneRead ==
  ASSUME OneRequest, TypeOK, Shape, Alone, NEW r \in Requests,
         \/ \E k \in Kinds, v \in Values \cup {Unstorable}, p \in 0..MaxPasswords :
              Begin(r, k, v, p)
         \/ AskShield(r) \/ ReadCache(r) \/ ReadMissing(r) \/ Fill(r) \/ Authenticate(r)
         \/ CheckLogin(r) \/ RecordFailure(r) \/ ReadForReset(r) \/ Fail(r)
  PROVE  Alone'
<1>1. RequestsType
  BY TypeParts
<1>2. row' = row /\ raced' = FALSE
  BY DEF Begin, AskShield, ReadCache, ReadMissing, Fill, Authenticate, CheckLogin,
         RecordFailure, ReadForReset, Fail, accountVars, Alone
<1>3. CASE Fill(r)
  <2>1. pc[r] = "fill" /\ copy[r] = row /\ kind[r] # "login"
    BY <1>3, KindNames DEF Fill, Alone, HoldsTheRow, Shape, ReadsThrough
  <2>2. "raced" \notin causes'
    BY <1>3, <2>1 DEF Fill, Cache, Alone
  <2>3. End(r) \/ (Goto(r, "write") /\ copy' = [copy EXCEPT ![r] = copy[r]])
    BY <1>3 DEF Fill, Use
  <2>4. HoldsTheRow(r)'
    BY <1>1, <2>1, <2>3, HoldsNothing
  <2> QED
    BY <1>2, <2>2, <2>4, AloneNext
<1>4. CASE ~Fill(r)
  <2>1. UNCHANGED causes
    BY <1>4 DEF Begin, AskShield, ReadCache, ReadMissing, Authenticate, CheckLogin,
                RecordFailure, ReadForReset, Fail
  <2>2. HoldsTheRow(r)'
    <3>1. CASE \E k \in Kinds, v \in Values \cup {Unstorable}, p \in 0..MaxPasswords :
                 Begin(r, k, v, p)
      <4>1. PICK k \in Kinds : pc'[r] = FirstStep(k) /\ kind'[r] = k
        BY <1>1, <3>1 DEF Begin, RequestsType
      <4>2. pc'[r] \notin {"fill", "commit"} /\ ~(pc'[r] = "write" /\ kind'[r] = "login")
        BY <4>1, FirstSteps
      <4> QED
        BY <4>2 DEF HoldsTheRow
    <3>2. CASE AskShield(r)
      BY <1>1, <3>2, HoldsNothing DEF AskShield
    <3>3. CASE ReadCache(r)
      <4>1. kind[r] # "login"
        BY <3>3, KindNames DEF ReadCache, Shape, ReadsThrough
      <4> QED
        BY <1>1, <3>3, <4>1, HoldsNothing DEF ReadCache, Use
    <3>4. CASE ReadMissing(r)
      BY <1>1, <1>2, <3>4, HoldsWhatItRead DEF ReadMissing
    <3>5. CASE Authenticate(r)
      <4>1. kind[r] # "login"
        BY <3>5, KindNames DEF Authenticate
      <4> QED
        BY <1>1, <3>5, <4>1, HoldsNothing DEF Authenticate
    <3>6. CASE CheckLogin(r)
      BY <1>1, <1>2, <3>6, HoldsNothing, HoldsWhatItRead DEF CheckLogin
    <3>7. CASE RecordFailure(r) \/ Fail(r)
      BY <1>1, <3>7, HoldsNothing DEF RecordFailure, Fail
    <3>8. CASE ReadForReset(r)
      BY <1>1, <3>8, HoldsNothing DEF ReadForReset
    <3> QED
      BY <1>4, <3>1, <3>2, <3>3, <3>4, <3>5, <3>6, <3>7, <3>8
  <2> QED
    BY <1>2, <2>1, <2>2, AloneNext DEF Alone
<1> QED
  BY <1>3, <1>4

LEMMA AloneWrite ==
  ASSUME OneRequest, TypeOK, Shape, Alone, NEW r \in Requests,
         \/ \E k \in TextKinds : UpdateText(r, k)
         \/ \E k : UpdateAccount(r, k)
         \/ WriteLogin(r) \/ WriteReset(r) \/ Drop(r) \/ CommitSession(r)
  PROVE  Alone'
<1>1. RequestsType
  BY TypeParts
<1>2. CASE \E k \in TextKinds : UpdateText(r, k)
  <2>1. raced' = FALSE /\ (AfterWrite(r, TRUE) \/ (End(r) /\ UNCHANGED causes))
    BY <1>2 DEF UpdateText, Alone
  <2>2. HoldsTheRow(r)' /\ "raced" \notin causes'
    BY <1>1, <2>1, AloneAfterWrite, HoldsNothing DEF Alone
  <2> QED
    BY <2>1, <2>2, AloneNext
<1>3. CASE \E k : UpdateAccount(r, k)
  <2>1. raced' = FALSE /\ \E revoked : AfterWrite(r, revoked)
    BY <1>3 DEF UpdateAccount, Alone
  <2>2. HoldsTheRow(r)' /\ "raced" \notin causes'
    BY <1>1, <2>1, AloneAfterWrite
  <2> QED
    BY <2>1, <2>2, AloneNext
<1>4. CASE WriteLogin(r)
  <2>1. copy[r] = row
    BY <1>4 DEF WriteLogin, Alone, HoldsTheRow
  <2>2. raced' = FALSE
    BY <1>4, <2>1, Zenon DEF WriteLogin, Alone
  <2>3. "raced" \notin causes'
    BY <1>4 DEF WriteLogin, Unanswered, Alone
  <2>4. \/ End(r)
        \/ Goto(r, "commit") /\ UNCHANGED <<row, copy>>
        \/ Goto(r, "commit") /\ copy' = [copy EXCEPT ![r] = row']
    BY <1>4 DEF WriteLogin, Unanswered
  <2>5. HoldsTheRow(r)'
    BY <1>1, <2>1, <2>4, HoldsNothing, HoldsWhatItRead
  <2> QED
    BY <2>2, <2>3, <2>5, AloneNext
<1>5. CASE WriteReset(r)
  <2>1. raced' = FALSE /\ "raced" \notin causes'
    BY <1>5 DEF WriteReset, Unanswered, Alone
  <2>2. End(r) \/ (Goto(r, "commit") /\ copy' = [copy EXCEPT ![r] = row'])
    BY <1>5 DEF WriteReset, Unanswered
  <2>3. HoldsTheRow(r)'
    BY <1>1, <2>2, HoldsNothing, HoldsWhatItRead
  <2> QED
    BY <2>1, <2>3, AloneNext
<1>6. CASE Drop(r)
  <2>1. raced' = FALSE /\ "raced" \notin causes' /\ End(r)
    BY <1>6 DEF Drop, Alone
  <2> QED
    BY <1>1, <2>1, HoldsNothing, AloneNext
<1>7. CASE CommitSession(r)
  <2>1. copy[r] = row
    BY <1>7 DEF CommitSession, Alone, HoldsTheRow
  <2>2. raced' = FALSE /\ "raced" \notin causes' /\ End(r)
    BY <1>7, <2>1 DEF CommitSession, Cache, Alone
  <2> QED
    BY <1>1, <2>2, HoldsNothing, AloneNext
<1> QED
  BY <1>2, <1>3, <1>4, <1>5, <1>6, <1>7

LEMMA AloneStep ==
  ASSUME OneRequest, TypeOK, Shape, Alone, [Next]_vars
  PROVE  Alone'
<1>1. CASE UNCHANGED vars \/ CopyExpires \/ \E e \in Values : CooldownEnds(e) \/ ShieldExpires(e)
  BY <1>1 DEF vars, accountVars, requestVars, CopyExpires, CooldownEnds, ShieldExpires, Alone, HoldsTheRow
<1>2. ASSUME NEW r \in Requests, Step(r)
      PROVE  Alone'
  BY <1>2, AloneRead, AloneWrite, KindNames
  DEF Step, UpdateProfile, UpdatePreferredPresence, UpdateEmail, UpdateUsername, VerifyEmail,
      UpdatePassword, Disable, ScheduleDelete
<1> QED
  BY <1>1, <1>2 DEF Next

(***************************************************************************)
(* Where one request runs at a time, a copy is stale only because an       *)
(* invalidation was lost or skipped, an account whose deletion is          *)
(* scheduled is disabled, and, unless the shield missed a call, it         *)
(* compares MaxAttempts wrong passwords at most between two moments at     *)
(* which it lets go, and one in the last half second of a cooldown: the    *)
(* other exceptions are races (repository_cache.go:41, service_auth.go:60, *)
(* shield.go:37).                                                          *)
(***************************************************************************)
THEOREM OneRequestAtATime ==
  ASSUME OneRequest
  PROVE  Spec => [](/\ StaleOnlyBy({"early", "lost"})
                    /\ row.scheduled => row.disabled
                    /\ \A e \in Values :
                         \/ e \in blind
                         \/ guesses[e] <= MaxAttempts /\ (e \in ending => guesses[e] <= 1))
<1>1. ASSUME Init
      PROVE  Alone
  <2>1. \A r \in Requests : pc[r] = "idle"
    BY <1>1 DEF Init
  <2> QED
    BY <1>1, <2>1 DEF Init, Alone, HoldsTheRow
<1>2. ASSUME IInv, Alone, [Next]_vars
      PROVE  Alone'
  BY <1>2, AloneStep DEF IInv
<1>3. Spec => []Alone
  BY <1>1, <1>2, Invariance, PTL DEF Spec
<1>4. Cardinality(Requests) = 1
  <2>1. PICK r \in Requests : TRUE
    BY BoundsAssumption
  <2>2. Requests = {r}
    BY <2>1 DEF OneRequest
  <2> QED
    BY <2>2, FS_Singleton
<1>5. ASSUME TypeOK, StaleCopyHasACause, ScheduledIsDisabled, GuessesAreBounded, Alone
      PROVE  /\ StaleOnlyBy({"early", "lost"})
             /\ row.scheduled => row.disabled
             /\ \A e \in Values :
                  \/ e \in blind
                  \/ guesses[e] <= MaxAttempts /\ (e \in ending => guesses[e] <= 1)
  <2>1. causes \subseteq {"early", "lost"}
    BY <1>5 DEF TypeOK, Causes, Alone
  <2>2. StaleOnlyBy({"early", "lost"})
    BY <1>5, <2>1 DEF StaleCopyHasACause, StaleOnlyBy
  <2>3. row.scheduled => row.disabled
    BY <1>5 DEF ScheduledIsDisabled, Alone
  <2>4. ASSUME NEW e \in Values, e \notin blind
        PROVE  guesses[e] <= MaxAttempts /\ (e \in ending => guesses[e] <= 1)
    <3>1. guesses[e] \in Nat /\ MaxAttempts \in Nat
      BY <1>5, TypeParts, BoundsAssumption DEF ShieldType
    <3> QED
      BY <1>4, <1>5, <2>4, <3>1 DEF GuessesAreBounded
  <2> QED
    BY <2>2, <2>3, <2>4
<1> QED
  BY <1>3, <1>5, TypeCorrect, StaleCopies, ScheduledAccounts, BoundedGuesses, PTL

(***************************************************************************)
(* Where, moreover, nothing is lost, only disabling an account, or         *)
(* scheduling its deletion, leaves a stale copy behind.                    *)
(***************************************************************************)
FreshButForTheState ==
  cached # NoCopy => cached = Public(row) \/ (row.disabled /\ cached.text = row.text)

OnlyTheStateIsBehind == Settling \/ FreshButForTheState

LEMMA SettlingOnItsOwn ==
  ASSUME OneRequest, NEW r \in Requests
  PROVE  /\ Settles(r) <=> Settling
         /\ Settles(r)' => Settling'
BY DEF OneRequest, Settles, Settling

LEMMA FreshStep ==
  ASSUME OneRequest, MaxFaults = 0, TypeOK, Told, Alone, OnlyTheStateIsBehind,
         NEW r \in Requests, Step(r)
  PROVE  OnlyTheStateIsBehind'
<1>1. RequestsType /\ RowType /\ row \in Accounts /\ ~Faulty
  BY TypeParts, NoFault
<1>2. ASSUME pc[r] \notin {"drop", "commit"}, row' = row, cached' = cached
      PROVE  OnlyTheStateIsBehind'
  <2>1. FreshButForTheState
    BY <1>2, SettlingOnItsOwn DEF Settles, OnlyTheStateIsBehind
  <2> QED
    BY <1>2, <2>1 DEF FreshButForTheState, OnlyTheStateIsBehind
<1>3. ASSUME cached' \in {NoCopy, Public(row')}
      PROVE  OnlyTheStateIsBehind'
  BY <1>3 DEF FreshButForTheState, OnlyTheStateIsBehind
<1>4. ASSUME Goto(r, "drop")
      PROVE  OnlyTheStateIsBehind'
  <2>1. pc'[r] = "drop"
    BY <1>1, <1>4 DEF Goto, RequestsType
  <2> QED
    BY <2>1, SettlingOnItsOwn DEF Settles, OnlyTheStateIsBehind
<1>5. ASSUME Goto(r, "commit"), copy'[r] = row'
      PROVE  OnlyTheStateIsBehind'
  <2>1. pc'[r] = "commit"
    BY <1>1, <1>5 DEF Goto, RequestsType
  <2> QED
    BY <1>5, <2>1, SettlingOnItsOwn DEF Settles, OnlyTheStateIsBehind
<1>6. CASE \/ \E k \in Kinds, v \in Values \cup {Unstorable}, p \in 0..MaxPasswords :
                Begin(r, k, v, p)
           \/ AskShield(r) \/ ReadCache(r) \/ ReadMissing(r) \/ Authenticate(r)
           \/ CheckLogin(r) \/ RecordFailure(r) \/ ReadForReset(r) \/ Fail(r)
  <2>1. pc[r] \notin {"drop", "commit"} /\ row' = row /\ cached' = cached
    BY <1>6 DEF Begin, AskShield, ReadCache, ReadMissing, Authenticate, CheckLogin,
      RecordFailure, ReadForReset, Fail, accountVars
  <2> QED
    BY <1>2, <2>1
<1>7. CASE Fill(r) \/ CommitSession(r)
  <2>1. row' = row /\ copy[r] = row
    BY <1>7 DEF Fill, CommitSession, accountVars, Alone, HoldsTheRow
  <2>2. cached' = Public(row)
    BY <1>1, <1>7, <2>1 DEF Fill, CommitSession, Cache
  <2>3. Public(row)' = Public(row)
    BY <2>1 DEF Public
  <2> QED
    BY <1>3, <2>2, <2>3
<1>8. CASE Drop(r)
  BY <1>1, <1>3, <1>8 DEF Drop
<1>9. CASE \E k \in TextKinds : UpdateText(r, k)
  <2>1. pc[r] = "write" /\ cached' = cached
    BY <1>9 DEF UpdateText
  <2>2. CASE AfterWrite(r, TRUE)
    <3>1. Goto(r, "drop")
      BY <1>1, <2>2 DEF AfterWrite, Unanswered, Invalidates
    <3> QED
      BY <1>4, <3>1
  <2>3. CASE row' = row
    BY <1>2, <2>1, <2>3
  <2> QED
    BY <1>9, <2>2, <2>3 DEF UpdateText
<1>10. CASE UpdatePassword(r) \/ Disable(r) \/ ScheduleDelete(r)
  <2>1. pc[r] = "write" /\ cached' = cached
    BY <1>10 DEF UpdatePassword, Disable, ScheduleDelete, UpdateAccount
  <2>2. FreshButForTheState
    BY <2>1, SettlingOnItsOwn DEF Settles, OnlyTheStateIsBehind
  <2>3. cached # NoCopy => cached.text = row.text
    BY <1>1, <2>2 DEF FreshButForTheState, Public, Accounts
  <2>4. CASE Disable(r) \/ ScheduleDelete(r)
    <3>1. row' = Disabled(row) \/ row' = Scheduled(row)
      BY <2>4 DEF Disable, ScheduleDelete
    <3>2. /\ Disabled(row).text = row.text /\ Disabled(row).disabled = TRUE
          /\ Scheduled(row).text = row.text /\ Scheduled(row).disabled = TRUE
      BY <1>1 DEF Disabled, Scheduled, Accounts
    <3> QED
      BY <2>1, <2>3, <3>1, <3>2 DEF FreshButForTheState, OnlyTheStateIsBehind
  <2>5. CASE UpdatePassword(r)
    <3>1. row' = WithPassword(row, passwords')
      BY <2>5 DEF UpdatePassword
    <3>2. Public(row') = Public(row) /\ row'.text = row.text /\ row'.disabled = row.disabled
      BY <1>1, <3>1 DEF WithPassword, Public, Accounts
    <3> QED
      BY <2>1, <2>2, <3>2 DEF FreshButForTheState, OnlyTheStateIsBehind
  <2> QED
    BY <1>10, <2>4, <2>5
<1>11. CASE WriteLogin(r)
  <2>1. Goto(r, "commit")
    BY <1>1, <1>11 DEF WriteLogin, Unanswered
  <2>2. CASE UNCHANGED <<row, copy>>
    <3>1. copy'[r] = row'
      BY <1>11, <2>2 DEF WriteLogin, Alone, HoldsTheRow
    <3> QED
      BY <1>5, <2>1, <3>1
  <2>3. CASE copy' = [copy EXCEPT ![r] = row']
    BY <1>1, <1>5, <2>1, <2>3 DEF RequestsType
  <2> QED
    BY <1>1, <1>11, <2>2, <2>3 DEF WriteLogin, Unanswered
<1>12. CASE WriteReset(r)
  <2>1. Goto(r, "commit") /\ copy' = [copy EXCEPT ![r] = row']
    BY <1>1, <1>12 DEF WriteReset, Unanswered
  <2> QED
    BY <1>1, <1>5, <2>1 DEF RequestsType
<1> QED
  BY <1>6, <1>7, <1>8, <1>9, <1>10, <1>11, <1>12, KindNames
  DEF Step, UpdateProfile, UpdatePreferredPresence, UpdateEmail, UpdateUsername, VerifyEmail

(***************************************************************************)
(* Where one request runs at a time and nothing is lost, a stale copy is   *)
(* that of an account which was disabled, or whose deletion was scheduled, *)
(* while it had no session to revoke; the copy is right in all the rest    *)
(* (cacheDeleteAndRevokeSessions, service.go:510).                         *)
(***************************************************************************)
THEOREM OneRequestWithoutFaults ==
  ASSUME OneRequest, MaxFaults = 0
  PROVE  Spec => [](cached \notin {NoCopy, Public(row)} =>
                      \/ Settling
                      \/ causes = {"early"} /\ row.disabled /\ cached.text = row.text)
<1> DEFINE Inv == Told /\ Alone /\ OnlyTheStateIsBehind
<1>1. ASSUME Init
      PROVE  Inv
  <2>1. \A r \in Requests : pc[r] = "idle"
    BY <1>1 DEF Init
  <2> QED
    BY <1>1, <2>1 DEF Init, Told, Alone, HoldsTheRow, OnlyTheStateIsBehind, FreshButForTheState
<1>2. ASSUME IInv, Inv, [Next]_vars
      PROVE  Inv'
  <2>1. TypeOK /\ Shape
    BY <1>2 DEF IInv
  <2>2. Told' /\ Alone'
    BY <1>2, <2>1, ToldNext, AloneStep
  <2>3. OnlyTheStateIsBehind'
    <3>1. CASE CopyExpires
      BY <3>1 DEF CopyExpires, OnlyTheStateIsBehind, FreshButForTheState
    <3>2. CASE UNCHANGED vars \/ \E e \in Values : CooldownEnds(e) \/ ShieldExpires(e)
      <4>1. row' = row /\ cached' = cached /\ pc' = pc /\ copy' = copy /\ kind' = kind
        BY <3>2 DEF vars, accountVars, requestVars, CooldownEnds, ShieldExpires
      <4> QED
        BY <1>2, <4>1 DEF OnlyTheStateIsBehind, FreshButForTheState, Settling, Public
    <3> QED
      BY <1>2, <2>1, <3>1, <3>2, FreshStep DEF Next
  <2> QED
    BY <2>2, <2>3
<1>3. ASSUME TypeOK, StaleCopyHasACause, Inv
      PROVE  cached \notin {NoCopy, Public(row)} =>
               \/ Settling
               \/ causes = {"early"} /\ row.disabled /\ cached.text = row.text
  <2>1. causes \subseteq {"early"}
    BY <1>3 DEF TypeOK, Causes, Told, Alone
  <2> QED
    BY <1>3, <2>1 DEF StaleCopyHasACause, OnlyTheStateIsBehind, FreshButForTheState
<1> HIDE DEF Inv
<1>4. Spec => []Inv
  BY <1>1, <1>2, Invariance, PTL DEF Spec
<1> QED
  BY <1>3, <1>4, TypeCorrect, StaleCopies, PTL
=============================================================================
