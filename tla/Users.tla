------------------------------- MODULE Users -------------------------------
(***************************************************************************)
(* One account: its row in Postgres, its copy in Redis, and the requests   *)
(* that read and change them (src/internal/user, and the log-in, the       *)
(* password reset and the e-mail verification of src/internal/auth); with  *)
(* the shield that counts failed log-ins (src/internal/shield).            *)
(*                                                                         *)
(* A request is a sequence of calls, and those of several requests         *)
(* interleave.  A transaction is one step.  The sessions of the account    *)
(* are those of the module Sessions; here a revocation may find some or    *)
(* none.                                                                   *)
(***************************************************************************)
EXTENDS Integers, FiniteSets

CONSTANTS
  Requests,
  Kinds,         \* the requests of a run, a subset of AllKinds
  Values,        \* values of a text column
  FirstValue,    \* the one the columns start with
  Unstorable,    \* a presence the service accepts and the table's CHECK refuses: IDLE
  NoCopy,
  MaxAttempts,   \* failed log-ins that start the cooldown
  MaxOps,        \* bound: requests ever begun
  MaxPasswords,  \* bound: passwords ever set
  MaxFaults      \* bound: Redis calls and answers of Postgres that are lost

\* Requests that write one column each, named after it
TextKinds == {"profile", "presence", "email", "username", "verified"}
\* Those that begin with the cached copy
CachedKinds == {"get", "profile", "presence"}
\* Those that begin with fetchAndAuthenticate
CheckedKinds == {"email", "username", "password", "disable", "schedule"}
AllKinds == TextKinds \cup CachedKinds \cup CheckedKinds \cup {"login", "reset"}

ASSUME KindsAssumption == Kinds \subseteq AllKinds
ASSUME ValuesAssumption ==
  FirstValue \in Values /\ Unstorable \notin Values
ASSUME BoundsAssumption ==
  /\ IsFiniteSet(Requests) /\ Requests # {}
  /\ MaxAttempts \in Nat \ {0} /\ MaxPasswords \in Nat \ {0}
  /\ MaxOps \in Nat /\ MaxFaults \in Nat

Accounts ==
  [text : [TextKinds -> Values], password : 0..MaxPasswords,
   disabled : BOOLEAN, scheduled : BOOLEAN]

ASSUME NoCopyAssumption == NoCopy \notin Accounts

VARIABLES
  row,        \* the account in Postgres
  cached,     \* its copy in Redis, without the password, or NoCopy
  pc,         \* [Requests -> Steps]
  kind,       \* [Requests -> Kinds]
  argument,   \* [Requests -> the value to write, or the e-mail of a log-in]
  given,      \* [Requests -> the password the caller gave; 0 is a wrong one]
  copy,       \* [Requests -> the user it works with, or NoCopy]
  failures,   \* [Values -> the shield's counter for that e-mail]
  cooling,    \* the e-mails with a cooldown
  ending,     \* those whose cooldown is in its last half second
  passwords,  \* how many passwords were ever set
  ops, faults,
  causes,     \* history: what may have left the cached copy behind the row
  raced,      \* history: an account was enabled whose deletion was scheduled meanwhile
  knew,       \* history: the requests whose given password was valid since they began
  guesses,    \* history: wrong passwords compared since the shield last let go of the e-mail
  blind       \* history: the e-mails for which the shield missed a call since

accountVars == <<row, passwords>>
requestVars == <<kind, argument, given>>
shieldVars == <<failures, cooling, ending, guesses, blind>>
vars == <<accountVars, cached, pc, requestVars, copy, shieldVars, ops, faults, causes, raced, knew>>

(***************************************************************************)
(* "cooldown": a log-in is about to ask the shield.  "cache", "row": about *)
(* to read.  "fill": about to set the cached copy to what it read.         *)
(* "fail": about to record a wrong password.  "write": about to commit.    *)
(* "drop": about to delete the cached copy.  "commit": about to set it,    *)
(* with the new session.                                                   *)
(***************************************************************************)
Steps == {"idle", "cooldown", "cache", "row", "fill", "fail", "write", "drop", "commit"}
Causes == {"lost", "early", "raced"}

\* A mutant: the copy is the whole user.
PublicWithPassword(u) == u

\* CacheDTO: the user without the password
Public(u) == [u EXCEPT !.password = 0]

EnsureActive(u) == ~u.disabled /\ ~u.scheduled

Reached(n) == n >= MaxAttempts

Init ==
  /\ row \in [text : {[f \in TextKinds |-> FirstValue]}, password : {1},
              disabled : BOOLEAN, scheduled : BOOLEAN]
  /\ row.scheduled => row.disabled
  /\ cached \in {NoCopy, Public(row)}
  /\ pc = [r \in Requests |-> "idle"]
  /\ kind = [r \in Requests |-> "get"]
  /\ argument = [r \in Requests |-> FirstValue]
  /\ given = [r \in Requests |-> 0]
  /\ copy = [r \in Requests |-> NoCopy]
  /\ failures \in {[e \in Values |-> IF e = FirstValue THEN n ELSE 0] : n \in {0, MaxAttempts - 1}}
  /\ cooling = {} /\ ending = {}
  /\ passwords = 1 /\ ops = 0 /\ faults = 0
  /\ causes = {} /\ raced = FALSE /\ knew = {}
  /\ guesses = failures /\ blind = {}

Faulty == faults < MaxFaults /\ faults' = faults + 1

Goto(r, step) ==
  /\ pc' = [pc EXCEPT ![r] = step]
  /\ UNCHANGED requestVars

\* The request ends; what it holds is forgotten.
End(r) ==
  /\ pc' = [pc EXCEPT ![r] = "idle"]
  /\ copy' = [copy EXCEPT ![r] = NoCopy]
  /\ kind' = [kind EXCEPT ![r] = "get"]
  /\ argument' = [argument EXCEPT ![r] = FirstValue]
  /\ given' = [given EXCEPT ![r] = 0]

-----------------------------------------------------------------------------
(* Reading.                                                                *)

FirstStep(k) ==
  CASE k = "login" -> "cooldown"
    [] k \in CachedKinds -> "cache"
    [] k = "verified" -> "write"
    [] OTHER -> "row"

\* A value that the request may carry: only a presence may be one the table refuses.
Arguments(k) == IF k = "presence" THEN Values \cup {Unstorable} ELSE Values

Begin(r, k, v, p) ==
  /\ pc[r] = "idle" /\ ops < MaxOps /\ k \in Kinds
  /\ v \in Arguments(k) /\ (k \in TextKinds \cup {"login"} \/ v = FirstValue)
  /\ k \in CheckedKinds \cup {"login"} \/ p = 0
  /\ pc' = [pc EXCEPT ![r] = FirstStep(k)]
  /\ kind' = [kind EXCEPT ![r] = k]
  /\ argument' = [argument EXCEPT ![r] = v]
  /\ given' = [given EXCEPT ![r] = p]
  /\ ops' = ops + 1
  /\ knew' = IF p = row.password THEN knew \cup {r} ELSE knew \ {r}
  /\ UNCHANGED <<accountVars, cached, copy, shieldVars, faults, causes, raced>>

\* GetCooldown: Redis rounds the TTL to seconds, and one of 0 s is none.
Blocked(e) == e \in cooling \ ending

\* Login's first call: when it fails, the log-in goes on.
AskShield(r) ==
  /\ pc[r] = "cooldown"
  /\ \/ Blocked(argument[r]) /\ End(r) /\ UNCHANGED <<faults, blind>>
     \/ ~Blocked(argument[r]) /\ Goto(r, "row") /\ UNCHANGED <<copy, faults, blind>>
     \/ Faulty /\ Goto(r, "row") /\ UNCHANGED copy /\ blind' = blind \cup {argument[r]}
  /\ UNCHANGED <<accountVars, cached, failures, cooling, ending, guesses, ops, causes,
                 raced, knew>>

\* What a request does with the user that CachedRepository.Get gives it.
Unchanged(r, u) == kind[r] = "get" \/ u.text[kind[r]] = argument[r]
Use(r, u) == IF Unchanged(r, u) THEN End(r) ELSE Goto(r, "write") /\ copy' = [copy EXCEPT ![r] = u]

\* CachedRepository.Get: an error is a miss.
ReadCache(r) ==
  /\ pc[r] = "cache"
  /\ \/ cached # NoCopy /\ Use(r, cached) /\ UNCHANGED faults
     \/ cached = NoCopy /\ Goto(r, "row") /\ UNCHANGED <<copy, faults>>
     \/ Faulty /\ Goto(r, "row") /\ UNCHANGED copy
  /\ UNCHANGED <<accountVars, cached, shieldVars, ops, causes, raced, knew>>

ReadMissing(r) ==
  /\ pc[r] = "row" /\ kind[r] \in CachedKinds
  /\ copy' = [copy EXCEPT ![r] = row]
  /\ Goto(r, "fill")
  /\ UNCHANGED <<accountVars, cached, shieldVars, ops, faults, causes, raced, knew>>

\* The copy is behind the row when another request has written since.
Cache(u) ==
  /\ cached' = Public(u)
  /\ causes' = IF Public(u) = Public(row) THEN {} ELSE {"raced"}

Fill(r) ==
  /\ pc[r] = "fill"
  /\ \/ Cache(copy[r]) /\ UNCHANGED faults
     \/ Faulty /\ UNCHANGED <<cached, causes>>
  /\ Use(r, copy[r])
  /\ UNCHANGED <<accountVars, shieldVars, ops, raced, knew>>

\* A mutant: an active account needs no password.
AuthenticatedByState(u, p) == EnsureActive(u)

Authenticated(u, p) == EnsureActive(u) /\ u.password = p

\* fetchAndAuthenticate; an update to the value that is there already ends.
Authenticate(r) ==
  /\ pc[r] = "row" /\ kind[r] \in CheckedKinds
  /\ IF /\ Authenticated(row, given[r])
        /\ kind[r] \in TextKinds => ~Unchanged(r, row)
     THEN Goto(r, "write") /\ copy' = [copy EXCEPT ![r] = row]
     ELSE End(r)
  /\ UNCHANGED <<accountVars, cached, shieldVars, ops, faults, causes, raced, knew>>

\* GetByEmail and the comparison; an unknown e-mail is not counted.
CheckLogin(r) ==
  /\ pc[r] = "row" /\ kind[r] = "login"
  /\ LET known == row.text["email"] = argument[r]
         valid == row.password = given[r]
     IN \/ ~known /\ End(r) /\ UNCHANGED guesses
        \/ /\ known /\ ~valid /\ Goto(r, "fail") /\ UNCHANGED copy
           /\ guesses' = [guesses EXCEPT ![argument[r]] = @ + 1]
        \/ /\ known /\ valid /\ Goto(r, "write")
           /\ copy' = [copy EXCEPT ![r] = row] /\ UNCHANGED guesses
  /\ UNCHANGED <<accountVars, cached, failures, cooling, ending, blind, ops, faults,
                 causes, raced, knew>>

\* A mutant: PX for EX, a cooldown of 20 milliseconds.
CountInMilliseconds(e, n) ==
  /\ failures' = [failures EXCEPT ![e] = @ + n]
  /\ cooling' = IF Reached(failures[e] + n) THEN cooling \cup {e} ELSE cooling
  /\ ending' = IF Reached(failures[e] + n) THEN ending \cup {e} ELSE ending

\* recordFailureScript; the client runs it again when its reply is lost.
Count(e, n) ==
  /\ failures' = [failures EXCEPT ![e] = @ + n]
  /\ cooling' = IF Reached(failures[e] + n) THEN cooling \cup {e} ELSE cooling
  /\ ending' = IF Reached(failures[e] + n) THEN ending \ {e} ELSE ending

RecordFailure(r) ==
  /\ pc[r] = "fail"
  /\ LET e == argument[r]
     IN \/ Count(e, 1) /\ UNCHANGED <<faults, blind>>
        \/ Count(e, 2) /\ Faulty /\ UNCHANGED blind
        \/ Faulty /\ blind' = blind \cup {e} /\ UNCHANGED <<failures, cooling, ending>>
  /\ End(r)
  /\ UNCHANGED <<accountVars, cached, guesses, ops, causes, raced, knew>>

\* ResetPassword, its userRepo.Get
ReadForReset(r) ==
  /\ pc[r] = "row" /\ kind[r] = "reset"
  /\ copy' = [copy EXCEPT ![r] = row]
  /\ Goto(r, "write")
  /\ UNCHANGED <<accountVars, cached, shieldVars, ops, faults, causes, raced, knew>>

-----------------------------------------------------------------------------
(* Writing.                                                                *)

NewPassword ==
  /\ passwords < MaxPasswords
  /\ passwords' = passwords + 1
  /\ knew' = knew \cup {r \in Requests : pc[r] # "idle" /\ given[r] = passwords'}

SamePassword == UNCHANGED <<passwords, knew>>

\* The answer is lost, and the request ends in an error.
Unanswered(r) ==
  /\ Faulty /\ End(r)
  /\ causes' = IF cached = NoCopy THEN causes ELSE causes \cup {"lost"}

\* A mutant: the writes to columns that a check did not precede forget the cache.
InvalidatesIfChecked(k, revoked) ==
  (k \in {"password", "disable", "schedule"} => revoked) /\ k \in CheckedKinds

\* cacheDelete, and cacheDeleteAndRevokeSessions, which returns early
Invalidates(k, revoked) == k \in {"password", "disable", "schedule"} => revoked

AfterWrite(r, revoked) ==
  \/ /\ UNCHANGED faults
     /\ IF Invalidates(kind[r], revoked)
        THEN Goto(r, "drop") /\ copy' = [copy EXCEPT ![r] = NoCopy] /\ UNCHANGED causes
        ELSE /\ End(r)
             /\ causes' = IF kind[r] \in {"password", "disable", "schedule"} /\ cached # NoCopy
                          THEN causes \cup {"early"} ELSE causes
  \/ Unanswered(r)

\* The statements that set one column, or one group of columns; the row's CHECK may refuse.
Column(u, k, v) == [u EXCEPT !.text[k] = v]

UpdateText(r, k) ==
  /\ pc[r] = "write" /\ kind[r] = k
  /\ \/ /\ argument[r] # Unstorable
        /\ row' = Column(row, k, argument[r])
        /\ AfterWrite(r, TRUE)
     \/ /\ argument[r] = Unstorable /\ End(r)
        /\ UNCHANGED <<row, faults, causes>>
  /\ SamePassword
  /\ UNCHANGED <<cached, shieldVars, ops, raced>>

UpdateProfile(r) == UpdateText(r, "profile")
UpdatePreferredPresence(r) == UpdateText(r, "presence")
UpdateEmail(r) == UpdateText(r, "email")
UpdateUsername(r) == UpdateText(r, "username")
VerifyEmail(r) == UpdateText(r, "verified")

\* UserUpdatePasswordHash
WithPassword(u, p) == [u EXCEPT !.password = p]

\* UserSetDisabled, and UserSetDeleteSchedule with two times
Disabled(u) == [u EXCEPT !.disabled = TRUE]
Scheduled(u) == [u EXCEPT !.scheduled = TRUE, !.disabled = TRUE]

\* The transaction also revokes the account's sessions: it finds some or none.
UpdateAccount(r, k) ==
  /\ pc[r] = "write" /\ kind[r] = k
  /\ \E revoked \in BOOLEAN : AfterWrite(r, revoked)
  /\ UNCHANGED <<cached, shieldVars, ops, raced>>

UpdatePassword(r) ==
  UpdateAccount(r, "password") /\ NewPassword /\ row' = WithPassword(row, passwords')
Disable(r) ==
  UpdateAccount(r, "disable") /\ SamePassword /\ row' = Disabled(row)
ScheduleDelete(r) ==
  UpdateAccount(r, "schedule") /\ SamePassword /\ row' = Scheduled(row)

\* A mutant: Login asks first whether the account is disabled, as a scheduled one is.
EnabledIfDisabled(u) ==
  IF u.disabled THEN [row EXCEPT !.disabled = FALSE]
  ELSE [row EXCEPT !.disabled = FALSE, !.scheduled = FALSE]

\* SetDeleteSchedule or SetDisabled of the row, as the user that was read asks for
Enabled(u) ==
  IF u.scheduled THEN [row EXCEPT !.disabled = FALSE, !.scheduled = FALSE]
  ELSE [row EXCEPT !.disabled = FALSE]

\* Login's transaction.  An active user, as it was read, is not read again.
WriteLogin(r) ==
  /\ pc[r] = "write" /\ kind[r] = "login"
  /\ \/ /\ EnsureActive(copy[r])
        /\ Goto(r, "commit")
        /\ UNCHANGED <<row, copy, faults, causes, raced>>
     \/ /\ ~EnsureActive(copy[r])
        /\ row' = Enabled(copy[r])
        /\ raced' = (raced \/ (row.scheduled /\ ~copy[r].scheduled))
        /\ \/ /\ Goto(r, "commit")
              /\ copy' = [copy EXCEPT ![r] = row']
              /\ UNCHANGED <<faults, causes>>
           \/ Unanswered(r)
  /\ SamePassword
  /\ UNCHANGED <<cached, shieldVars, ops>>

\* ResetPassword's transaction
WriteReset(r) ==
  /\ pc[r] = "write" /\ kind[r] = "reset"
  /\ NewPassword
  /\ row' = WithPassword(row, passwords')
  /\ \/ Goto(r, "commit") /\ copy' = [copy EXCEPT ![r] = row'] /\ UNCHANGED <<faults, causes>>
     \/ Unanswered(r)
  /\ UNCHANGED <<cached, shieldVars, ops, raced>>

\* The statement or the transaction fails and changes nothing.
Fail(r) ==
  /\ pc[r] \in {"row", "write"}
  /\ End(r)
  /\ UNCHANGED <<accountVars, cached, shieldVars, ops, faults, causes, raced, knew>>

-----------------------------------------------------------------------------
(* The cache and the shield after the commit.                              *)

Drop(r) ==
  /\ pc[r] = "drop"
  /\ \/ cached' = NoCopy /\ causes' = {} /\ UNCHANGED faults
     \/ /\ Faulty /\ UNCHANGED cached
        /\ causes' = IF cached = NoCopy THEN causes ELSE causes \cup {"lost"}
  /\ End(r)
  /\ UNCHANGED <<accountVars, shieldVars, ops, raced, knew>>

\* The shield's keys for the e-mail are deleted.
Clear(e) ==
  /\ failures' = [failures EXCEPT ![e] = 0]
  /\ cooling' = cooling \ {e}
  /\ ending' = ending \ {e}
  /\ guesses' = [guesses EXCEPT ![e] = 0]
  /\ blind' = blind \ {e}

\* commitSession, one pipeline
CommitSession(r) ==
  /\ pc[r] = "commit"
  /\ \/ Cache(copy[r]) /\ Clear(copy[r].text["email"]) /\ UNCHANGED faults
     \/ /\ Faulty /\ UNCHANGED <<cached, shieldVars>>
        /\ causes' = IF cached = NoCopy THEN causes ELSE causes \cup {"lost"}
  /\ End(r)
  /\ UNCHANGED <<accountVars, ops, raced, knew>>

\* 24 h
CopyExpires ==
  /\ cached # NoCopy
  /\ cached' = NoCopy /\ causes' = {}
  /\ UNCHANGED <<accountVars, pc, requestVars, copy, shieldVars, ops, faults, raced, knew>>

\* 19.5 s after the last failure: both keys are still there.
CooldownEnds(e) ==
  /\ Blocked(e)
  /\ ending' = ending \cup {e}
  /\ guesses' = [guesses EXCEPT ![e] = 0]
  /\ blind' = blind \ {e}
  /\ UNCHANGED <<accountVars, cached, pc, requestVars, copy, failures, cooling, ops,
                 faults, causes, raced, knew>>

\* 20 s after it: the counter, and the cooldown set with it
ShieldExpires(e) ==
  /\ failures[e] > 0 /\ ~Blocked(e)
  /\ Clear(e)
  /\ UNCHANGED <<accountVars, cached, pc, requestVars, copy, ops, faults, causes, raced, knew>>

-----------------------------------------------------------------------------
Step(r) ==
  \/ \E k \in Kinds, v \in Values \cup {Unstorable}, p \in 0..MaxPasswords : Begin(r, k, v, p)
  \/ AskShield(r) \/ ReadCache(r) \/ ReadMissing(r) \/ Fill(r) \/ Authenticate(r)
  \/ CheckLogin(r) \/ RecordFailure(r) \/ ReadForReset(r)
  \/ UpdateProfile(r) \/ UpdatePreferredPresence(r) \/ UpdateEmail(r) \/ UpdateUsername(r)
  \/ VerifyEmail(r) \/ UpdatePassword(r) \/ Disable(r) \/ ScheduleDelete(r)
  \/ WriteLogin(r) \/ WriteReset(r) \/ Fail(r)
  \/ Drop(r) \/ CommitSession(r)

Next ==
  \/ \E r \in Requests : Step(r)
  \/ CopyExpires
  \/ \E e \in Values : CooldownEnds(e) \/ ShieldExpires(e)

Spec == Init /\ [][Next]_vars

-----------------------------------------------------------------------------
(* Properties.                                                             *)

TypeOK ==
  /\ row \in Accounts /\ row.password \in 1..passwords
  /\ cached = NoCopy \/ (cached \in Accounts /\ cached.password = 0)
  /\ pc \in [Requests -> Steps] /\ kind \in [Requests -> AllKinds]
  /\ argument \in [Requests -> Values \cup {Unstorable}]
  /\ given \in [Requests -> 0..MaxPasswords]
  /\ copy \in [Requests -> Accounts \cup {NoCopy}]
  /\ failures \in [Values -> Nat] /\ cooling \subseteq Values /\ ending \subseteq cooling
  /\ passwords \in 1..MaxPasswords /\ ops \in 0..MaxOps /\ faults \in 0..MaxFaults
  /\ causes \subseteq Causes /\ raced \in BOOLEAN
  /\ knew \subseteq Requests /\ guesses \in [Values -> Nat] /\ blind \subseteq Values

\* A request that has changed the row has yet to drop or to replace the cached copy.
Settling ==
  \E r \in Requests :
    pc[r] = "drop" \/ (pc[r] = "commit" /\ (kind[r] = "reset" \/ copy[r] = row))

(***************************************************************************)
(* The cached user is the one in the database, unless a request is still   *)
(* to invalidate it, or one of three causes is known: the invalidation was *)
(* lost ("lost"), it was skipped since no session was revoked ("early",    *)
(* service.go:510), or a reader or a log-in filled the cache with a user   *)
(* read before another request's write ("raced", repository_cache.go:41,   *)
(* auth/cache.go:85).                                                      *)
(***************************************************************************)
StaleCopyHasACause ==
  cached \notin {NoCopy, Public(row)} => Settling \/ causes # {}

(***************************************************************************)
(* An account whose deletion is scheduled is disabled: the two columns are *)
(* set and cleared together.  The exception is a log-in that read the      *)
(* account while it was disabled only, and enables it after another        *)
(* request scheduled its deletion (service_auth.go:60).                    *)
(***************************************************************************)
ScheduledIsDisabled == row.scheduled => row.disabled \/ raced

(***************************************************************************)
(* A change that asks for the password was begun by someone who knew it:   *)
(* the one given was the account's at some time since the request began,   *)
(* if no longer when it commits (service.go:163).                          *)
(***************************************************************************)
CheckedChangesWereAuthorised ==
  \A r \in Requests : pc[r] = "drop" /\ kind[r] \in CheckedKinds => r \in knew

(***************************************************************************)
(* The shield lets go of an e-mail when a log-in clears its keys, when     *)
(* they expire, and already when its cooldown has less than half a second  *)
(* left, with the counter as it is (shield.go:40).  Between two of these,  *)
(* attempts that run at once may pass the limit, but by no more than their *)
(* number: the cooldown is read before an attempt and set, or set again,   *)
(* after its failure (shield.go:75).  In the last half second each request *)
(* has one attempt.  The counter misses none of them unless Redis fails.   *)
(***************************************************************************)
GuessesAreBounded ==
  \A e \in Values :
    \/ e \in blind
    \/ /\ guesses[e] < MaxAttempts + Cardinality(Requests)
       /\ e \in ending => guesses[e] <= Cardinality(Requests)
=============================================================================
