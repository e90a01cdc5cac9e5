--------------------------- MODULE TokenProvider ---------------------------
(***************************************************************************)
(* CspAuth.GetBearerToken: the clients of Governor keep one short-lived    *)
(* access token, with the time it expires, in a Kubernetes secret they     *)
(* share. Whoever finds it missing or expired gets a new one from CSP and  *)
(* writes it back.                                                         *)
(*                                                                         *)
(* One step is one call to Kubernetes or CSP, or one reading of the clock. *)
(* A token is the time until which CSP honours it; 0 is the empty string.  *)
(* An Update of a secret that changed since it was read is refused: the    *)
(* model keeps the set of callers whose copy is stale instead of versions. *)
(***************************************************************************)
EXTENDS Naturals, FiniteSets

CONSTANTS
  Callers,       \* calls of GetBearerToken, in any process
  Absent,        \* the secret does not exist
  Lifetimes,     \* what CSP may answer as ExpiresIn
  MaxAge,        \* tokenMaxAgeSeconds
  MaxAttempts,   \* Retry
  MaxTime,       \* bound on the clock
  MaxFaults      \* bound on calls that fail, with or without their effect

ASSUME ConstantsAssumption ==
  /\ Lifetimes \subseteq Nat \ {0}
  /\ MaxAge \in Nat \ {0} /\ MaxAttempts \in Nat \ {0}
  /\ MaxTime \in Nat /\ MaxFaults \in Nat
  /\ Absent \notin [token : Nat, expiry : Nat]

VARIABLES
  clock,
  secret,        \* governor-accesstoken: the token and its recorded expiry
  apiToken,      \* whether the API token the user configured is any good
  call,          \* where each caller is, and its local variables
  stale,         \* callers that were overtaken by another one's write
  faults

tokenVars == <<clock, secret, apiToken, call, stale, faults>>

----------------------------------------------------------------------------
Secrets == [token : Nat, expiry : Nat]
NoSecret == [token |-> 0, expiry |-> 0]

PCs == {"idle", "get", "create", "check", "apitoken", "issue", "update",
        "wait", "done", "failed", "gone"}

\* copy: the caller's accessSecret. now: the time read before CSP is asked.
Calls == [pc : PCs, copy : Secrets, now : Nat,
          attempts : 0 .. MaxAttempts - 1]

Idle == [pc |-> "idle", copy |-> NoSecret, now |-> 0, attempts |-> 0]

At(c, pc) == call[c].pc = pc
Becomes(c, l) == call' = [call EXCEPT ![c] = l]
GoTo(c, pc) == Becomes(c, [call[c] EXCEPT !.pc = pc])
Fails(c) == Becomes(c, [Idle EXCEPT !.pc = "failed"])

Fault == faults < MaxFaults /\ faults' = faults + 1

\* Callers that have looked at the secret and not finished.
Looking == {c \in Callers :
              call[c].pc \notin {"idle", "get", "done", "failed", "gone"}}
Running == Looking \cup {c \in Callers : At(c, "get")}

\* The secret is written by c, which learns the new version only from the reply.
Written(c, s, replied) ==
  /\ secret' = s
  /\ stale' = (stale \cup Looking) \ (IF replied THEN {c} ELSE {})

Fresh(s) == s # Absent /\ s.token # 0 /\ clock <= s.expiry

Smaller(a, b) == IF a <= b THEN a ELSE b

----------------------------------------------------------------------------
Init ==
  /\ clock = 0
  /\ secret = Absent
  /\ apiToken \in BOOLEAN
  /\ call = [c \in Callers |-> Idle]
  /\ stale = {} /\ faults = 0

Tick ==
  /\ clock < MaxTime
  /\ clock' = clock + 1
  /\ UNCHANGED <<secret, apiToken, call, stale, faults>>

Start(c) ==
  /\ At(c, "idle")
  /\ GoTo(c, "get")
  /\ UNCHANGED <<clock, secret, apiToken, stale, faults>>

\* getOrCreateSecretForAccessToken: any error of Get is taken for "not there".
GetSecret(c) ==
  /\ At(c, "get")
  /\ stale' = stale \ {c}
  /\ \/ /\ secret # Absent
        /\ Becomes(c, [call[c] EXCEPT !.pc = "check", !.copy = secret])
        /\ UNCHANGED faults
     \/ /\ secret = Absent \/ faults < MaxFaults
        /\ faults' = IF secret = Absent THEN faults ELSE faults + 1
        /\ GoTo(c, "create")
  /\ UNCHANGED <<clock, secret, apiToken>>

\* Only one caller can create it; the others give up.
CreateSecret(c) ==
  /\ At(c, "create")
  /\ \/ /\ secret = Absent
        /\ Written(c, NoSecret, TRUE)
        /\ GoTo(c, "check")
        /\ UNCHANGED faults
     \/ /\ secret # Absent
        /\ Fails(c)
        /\ UNCHANGED <<secret, stale, faults>>
     \/ /\ Fault
        /\ Fails(c)
        /\ \/ secret = Absent /\ Written(c, NoSecret, FALSE)
           \/ UNCHANGED <<secret, stale>>
  /\ UNCHANGED <<clock, apiToken>>

\* The token read is returned, or a new one is due.
CheckExpiry(c) ==
  /\ At(c, "check")
  /\ IF call[c].copy.token = 0 \/ clock > call[c].copy.expiry
     THEN GoTo(c, "apitoken")
     ELSE GoTo(c, "done")
  /\ UNCHANGED <<clock, secret, apiToken, stale, faults>>

\* An attempt begins by reading the clock.
Attempt(c) == Becomes(c, [call[c] EXCEPT !.pc = "issue", !.now = clock])

GetApiToken(c) ==
  /\ At(c, "apitoken")
  /\ \/ Attempt(c) /\ UNCHANGED faults
     \/ Fault /\ Fails(c)
  /\ UNCHANGED <<clock, secret, apiToken, stale>>

----------------------------------------------------------------------------
\* refreshToken, run by the retry helper.

\* Mutant: one attempt too many.
RetryOnceMore(c) ==
  LET n == call[c].attempts + 1 IN
  IF n > MaxAttempts THEN Fails(c)
  ELSE Becomes(c, [call[c] EXCEPT !.pc = "wait", !.attempts = n, !.now = 0])

\* An attempt failed: wait for the next one, or give up after the last.
Retry(c) ==
  LET n == call[c].attempts + 1 IN
  IF n = MaxAttempts THEN Fails(c)
  ELSE Becomes(c, [call[c] EXCEPT !.pc = "wait", !.attempts = n, !.now = 0])

\* No caller's context is ever cancelled: only the timer ends the wait.
Wait(c) ==
  /\ At(c, "wait")
  /\ Attempt(c)
  /\ UNCHANGED <<clock, secret, apiToken, stale, faults>>

\* Mutant: the longer of the two limits.
LaterExpiration(now, life) == now + (IF life <= MaxAge THEN MaxAge ELSE life)

\* CSP answers some time after the clock was read.
Expiration(now, life) == now + Smaller(life, MaxAge)

GetCspAuthorization(c) ==
  /\ At(c, "issue")
  /\ \/ /\ apiToken
        /\ \E life \in Lifetimes :
             Becomes(c, [call[c] EXCEPT
               !.pc = "update", !.now = 0,
               !.copy = [token |-> clock + life,
                         expiry |-> Expiration(call[c].now, life)]])
        /\ UNCHANGED faults
     \/ ~apiToken /\ Retry(c) /\ UNCHANGED faults
     \/ Fault /\ Retry(c)
  /\ UNCHANGED <<clock, secret, apiToken, stale>>

\* Mutant: the write does not depend on the version that was read.
UpdateBlindly(c) ==
  /\ At(c, "update")
  /\ Written(c, call[c].copy, TRUE)
  /\ GoTo(c, "done")
  /\ UNCHANGED <<clock, apiToken, faults>>

\* The same copy is offered at every attempt: once overtaken, always refused.
UpdateSecret(c) ==
  /\ At(c, "update")
  /\ \/ /\ c \notin stale
        /\ Written(c, call[c].copy, TRUE)
        /\ GoTo(c, "done")
        /\ UNCHANGED faults
     \/ /\ c \in stale
        /\ Retry(c)
        /\ UNCHANGED <<secret, stale, faults>>
     \/ /\ Fault
        /\ Retry(c)
        /\ \/ c \notin stale /\ Written(c, call[c].copy, FALSE)
           \/ UNCHANGED <<secret, stale>>
  /\ UNCHANGED <<clock, apiToken>>

\* The process of some callers dies.
Die(S) ==
  call' = [c \in Callers |->
            IF c \in S \cap Running THEN [Idle EXCEPT !.pc = "gone"] ELSE call[c]]

----------------------------------------------------------------------------
GetBearerToken(c) ==
  \/ GetSecret(c) \/ CreateSecret(c) \/ CheckExpiry(c) \/ GetApiToken(c)
  \/ Wait(c) \/ GetCspAuthorization(c) \/ UpdateSecret(c)

----------------------------------------------------------------------------
TypeOK ==
  /\ clock \in Nat
  /\ secret \in Secrets \cup {Absent}
  /\ apiToken \in BOOLEAN
  /\ call \in [Callers -> Calls]
  /\ stale \subseteq Callers
  /\ faults \in Nat

\* The secret never claims that a token lives longer than CSP honours it, however
\* long CSP took to answer and whoever wrote it: expiresIn is counted from a time
\* before the request.
StoredExpiryIsSafe ==
  secret # Absent /\ secret.token # 0 => secret.expiry <= secret.token

\* "GetBearer must return same token if called consequently": a token that is
\* still fresh is never replaced, also not by a caller that found an older one
\* expired and was slow to get a new one.
FreshTokenIsKept == [][Fresh(secret) => secret' = secret]_tokenVars

=============================================================================
