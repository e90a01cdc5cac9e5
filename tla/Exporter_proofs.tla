--------------------------- MODULE Exporter_proofs ---------------------------
(***************************************************************************)
(* Proofs about TokenProvider and Exporter, for any callers, reports,      *)
(* lookups, times and bounds.                                              *)
(*                                                                         *)
(* A caller of GetBearerToken that nobody has overtaken since it read the  *)
(* secret knows what is in it; once it has found it expired, it stays so,  *)
(* because time does not go back. Only such a caller can write, so no fresh *)
(* token is ever replaced. The exporter's own steps touch the calls for a  *)
(* token in two places only: a report that is taken starts one, and a      *)
(* restart ends those under way.                                           *)
(***************************************************************************)
EXTENDS Exporter, TLAPS

Safe(s) == s.token # 0 => s.expiry <= s.token

\* What a caller's own variables say at each of its steps.
Local(c) ==
  /\ Safe(call[c].copy)
  /\ call[c].pc = "issue" => call[c].now <= clock
  /\ call[c].pc \in {"idle", "get", "create"} => call[c].copy = NoSecret

\* What a caller that has not been overtaken knows of the secret.
Sound(c) ==
  c \notin stale =>
    /\ call[c].pc = "check" => secret # Absent /\ call[c].copy = secret
    /\ call[c].pc \in {"apitoken", "issue", "update", "wait"} =>
         secret # Absent /\ ~Fresh(secret)

TokenInv ==
  /\ TypeOK /\ StoredExpiryIsSafe
  /\ \A c \in Callers : Local(c) /\ Sound(c)

----------------------------------------------------------------------------
\* Nothing is known of NoSecret that could be wrong.
LEMMA NoSecretFacts ==
  /\ NoSecret \in Secrets /\ Safe(NoSecret) /\ NoSecret # Absent
  /\ Idle \in Calls /\ [Idle EXCEPT !.pc = "failed"] \in Calls
  /\ Idle.copy = NoSecret /\ Idle.pc = "idle" /\ Idle.attempts = 0
  BY ConstantsAssumption DEF NoSecret, Secrets, Safe, Idle, Calls, PCs

\* Whether a step has a fault or not, the count keeps its type.
LEMMA FaultFacts == TypeOK /\ (Fault \/ UNCHANGED faults) => faults' \in Nat
  BY ConstantsAssumption DEF TypeOK, Fault

\* The expiry that is recorded is not after the time the token lives.
LEMMA ExpirationFacts ==
  ASSUME NEW now \in Nat, NEW life \in Lifetimes
  PROVE  Expiration(now, life) \in Nat /\ Expiration(now, life) <= now + life
  BY ConstantsAssumption DEF Expiration, Smaller

\* A step of one caller changes its own record only.
LEMMA BecomesFacts ==
  ASSUME TypeOK, NEW c \in Callers, NEW l \in Calls, Becomes(c, l)
  PROVE  /\ call' \in [Callers -> Calls] /\ call'[c] = l
         /\ \A d \in Callers \ {c} : call'[d] = call[d]
  BY DEF TypeOK, Becomes

\* The others know as much after the step of c as before: either the secret has
\* not changed, or all of them that look at it are overtaken.
LEMMA OthersKeep ==
  ASSUME TokenInv, NEW c \in Callers, NEW d \in Callers \ {c},
         call'[d] = call[d], clock' = clock,
         \/ secret' = secret /\ stale' \cup {c} = stale \cup {c}
         \/ (stale \cup Looking) \ {c} \subseteq stale'
  PROVE  Local(d)' /\ Sound(d)'
<1>1. Local(d) /\ Sound(d) BY DEF TokenInv
<1>2. Local(d)' BY <1>1 DEF Local, Safe
<1>3. CASE secret' = secret /\ stale' \cup {c} = stale \cup {c}
  <2>1. d \notin stale' => d \notin stale BY <1>3
  <2>2. Fresh(secret)' = Fresh(secret) BY <1>3 DEF Fresh
  <2> QED BY <1>1, <1>2, <1>3, <2>1, <2>2 DEF Sound
<1>4. CASE (stale \cup Looking) \ {c} \subseteq stale'
  <2>1. d \in Looking => d \in stale' BY <1>4
  <2>2. call[d].pc \in {"check", "apitoken", "issue", "update", "wait"} => d \in Looking
    BY DEF Looking
  <2> QED BY <1>2, <2>1, <2>2 DEF Sound
<1> QED BY <1>3, <1>4

\* A call that fails leaves nothing to know.
LEMMA FailsFacts ==
  ASSUME TypeOK, NEW c \in Callers, Fails(c)
  PROVE  /\ call' \in [Callers -> Calls] /\ Local(c)' /\ Sound(c)'
         /\ \A d \in Callers \ {c} : call'[d] = call[d]
<1>1. /\ call' \in [Callers -> Calls] /\ call'[c] = [Idle EXCEPT !.pc = "failed"]
      /\ \A d \in Callers \ {c} : call'[d] = call[d]
  BY NoSecretFacts, BecomesFacts DEF Fails
<1>2. call'[c].pc = "failed" /\ call'[c].copy = NoSecret BY <1>1 DEF Idle
<1> QED BY <1>1, <1>2, NoSecretFacts DEF Local, Sound

\* An attempt that failed keeps the copy, or the call fails.
LEMMA RetryFacts ==
  ASSUME TypeOK, NEW c \in Callers, Retry(c), Local(c),
         c \notin stale' => c \notin stale /\ secret # Absent /\ ~Fresh(secret),
         secret' = secret \/ c \in stale', clock' = clock
  PROVE  /\ call' \in [Callers -> Calls] /\ Local(c)' /\ Sound(c)'
         /\ \A d \in Callers \ {c} : call'[d] = call[d]
<1> DEFINE n == call[c].attempts + 1
           l == [call[c] EXCEPT !.pc = "wait", !.attempts = n, !.now = 0]
<1>1. CASE n = MaxAttempts
  BY <1>1, FailsFacts DEF Retry
<1>2. CASE n # MaxAttempts
  <2>1. call[c] \in Calls BY DEF TypeOK
  <2>2. n \in 0 .. MaxAttempts - 1
    BY <1>2, <2>1, ConstantsAssumption DEF Calls
  <2>3. l \in Calls /\ l.pc = "wait" /\ l.copy = call[c].copy
    BY <2>1, <2>2 DEF Calls, PCs
  <2>4. Becomes(c, l) BY <1>2 DEF Retry
  <2>5. /\ call' \in [Callers -> Calls] /\ call'[c] = l
        /\ \A d \in Callers \ {c} : call'[d] = call[d]
    BY <2>3, <2>4, BecomesFacts
  <2>6. c \notin stale' => secret' # Absent /\ ~Fresh(secret)' BY DEF Fresh
  <2> QED BY <2>3, <2>5, <2>6 DEF Local, Sound
<1> QED BY <1>1, <1>2

\* An attempt begins with the time it begins at.
LEMMA AttemptFacts ==
  ASSUME TypeOK, NEW c \in Callers, Attempt(c), Local(c), Sound(c),
         call[c].pc \in {"apitoken", "wait"},
         UNCHANGED <<clock, secret, stale>>
  PROVE  /\ call' \in [Callers -> Calls] /\ Local(c)' /\ Sound(c)'
         /\ \A d \in Callers \ {c} : call'[d] = call[d]
<1> DEFINE l == [call[c] EXCEPT !.pc = "issue", !.now = clock]
<1>1. l \in Calls /\ l.pc = "issue" /\ l.now = clock /\ l.copy = call[c].copy
  BY DEF TypeOK, Calls, PCs
<1>2. /\ call' \in [Callers -> Calls] /\ call'[c] = l
      /\ \A d \in Callers \ {c} : call'[d] = call[d]
  BY <1>1, BecomesFacts DEF Attempt
<1>3. Fresh(secret)' = Fresh(secret) BY DEF Fresh
<1> QED BY <1>1, <1>2, <1>3 DEF Local, Sound, TypeOK

\* A call goes to another step and keeps all it knows.
LEMMA GoToFacts ==
  ASSUME TypeOK, NEW c \in Callers, NEW pc \in PCs, GoTo(c, pc)
  PROVE  /\ call' \in [Callers -> Calls]
         /\ call'[c].pc = pc /\ call'[c].copy = call[c].copy
         /\ \A d \in Callers \ {c} : call'[d] = call[d]
<1> DEFINE l == [call[c] EXCEPT !.pc = pc]
<1>1. l \in Calls /\ l.pc = pc /\ l.copy = call[c].copy
  BY DEF TypeOK, Calls
<1> QED BY <1>1, BecomesFacts DEF GoTo

----------------------------------------------------------------------------
\* A step of c whose effect on c and on the others is known.
LEMMA StepOf ==
  ASSUME TokenInv, NEW c \in Callers,
         call' \in [Callers -> Calls], Local(c)', Sound(c)',
         \A d \in Callers \ {c} : call'[d] = call[d],
         clock' = clock, apiToken' = apiToken, faults' \in Nat,
         stale' \subseteq Callers,
         \/ secret' = secret /\ stale' \cup {c} = stale \cup {c}
         \/ /\ secret' \in Secrets /\ Safe(secret')
            /\ (stale \cup Looking) \ {c} \subseteq stale'
  PROVE  TokenInv'
<1>1. \A d \in Callers \ {c} : Local(d)' /\ Sound(d)' BY OthersKeep
<1>2. TypeOK' /\ StoredExpiryIsSafe'
  BY DEF TokenInv, TypeOK, StoredExpiryIsSafe, Safe
<1> QED BY <1>1, <1>2 DEF TokenInv

\* Every step of GetBearerToken keeps the invariant.
LEMMA GetBearerTokenStep ==
  ASSUME TokenInv, NEW c \in Callers, GetBearerToken(c)
  PROVE  TokenInv'
<1>a. TypeOK /\ Local(c) /\ Sound(c) BY DEF TokenInv
<1>b. c \in Callers /\ call[c] \in Calls /\ faults \in Nat /\ clock \in Nat
  BY <1>a DEF TypeOK
<1>c. MaxFaults \in Nat BY ConstantsAssumption
<1>1. CASE GetSecret(c)
  <2>1. faults' \in Nat /\ stale' \subseteq Callers /\ stale' \cup {c} = stale \cup {c}
    BY <1>1, <1>a, <1>b DEF GetSecret, TypeOK
  <2>2. CASE secret # Absent /\ Becomes(c, [call[c] EXCEPT !.pc = "check", !.copy = secret])
    <3> DEFINE l == [call[c] EXCEPT !.pc = "check", !.copy = secret]
    <3>1. secret \in Secrets BY <2>2, <1>a DEF TypeOK
    <3>2. l \in Calls /\ l.pc = "check" /\ l.copy = secret
      BY <3>1, <1>b DEF Calls, PCs
    <3>3. /\ call' \in [Callers -> Calls] /\ call'[c] = l
          /\ \A d \in Callers \ {c} : call'[d] = call[d]
      BY <2>2, <3>2, <1>a, BecomesFacts
    <3>4. secret' = secret BY <1>1 DEF GetSecret
    <3>5. Safe(secret) BY <2>2 DEF TokenInv, StoredExpiryIsSafe, Safe
    <3>6. Local(c)' /\ Sound(c)' BY <2>2, <3>2, <3>3, <3>4, <3>5 DEF Local, Sound
    <3> QED BY <2>1, <3>3, <3>4, <3>6, <1>1, StepOf DEF GetSecret
  <2>3. CASE GoTo(c, "create")
    <3>1. /\ call' \in [Callers -> Calls]
          /\ call'[c].pc = "create" /\ call'[c].copy = call[c].copy
          /\ \A d \in Callers \ {c} : call'[d] = call[d]
      BY <2>3, <1>a, GoToFacts DEF PCs
    <3>2. Local(c)' /\ Sound(c)'
      BY <3>1, <1>1, <1>a DEF Local, Sound, GetSecret, At
    <3> QED BY <2>1, <3>1, <3>2, <1>1, StepOf DEF GetSecret
  <2> QED BY <1>1, <2>2, <2>3 DEF GetSecret
<1>2. CASE CreateSecret(c)
  <2>1. call[c].copy = NoSecret BY <1>2, <1>a DEF CreateSecret, At, Local
  <2>2. CASE secret = Absent /\ Written(c, NoSecret, TRUE) /\ GoTo(c, "check") /\ UNCHANGED faults
    <3>1. /\ call' \in [Callers -> Calls]
          /\ call'[c].pc = "check" /\ call'[c].copy = call[c].copy
          /\ \A d \in Callers \ {c} : call'[d] = call[d]
      BY <2>2, <1>a, GoToFacts DEF PCs
    <3>2. secret' = NoSecret /\ (stale \cup Looking) \ {c} \subseteq stale' /\ stale' \subseteq Callers
      BY <2>2, <1>a DEF Written, TypeOK, Looking
    <3>3. Local(c)' /\ Sound(c)'
      BY <2>1, <3>1, <3>2, NoSecretFacts DEF Local, Sound
    <3> QED BY <2>2, <3>1, <3>2, <3>3, <1>2, <1>b, NoSecretFacts, StepOf DEF CreateSecret
  <2>3. CASE Fails(c) /\ UNCHANGED <<secret, stale>> /\ faults' \in Nat
    <3>1. /\ call' \in [Callers -> Calls] /\ Local(c)' /\ Sound(c)'
          /\ \A d \in Callers \ {c} : call'[d] = call[d]
      BY <2>3, <1>a, FailsFacts
    <3> QED BY <2>3, <3>1, <1>2, <1>a, StepOf DEF CreateSecret, TypeOK
  <2>4. CASE Fails(c) /\ Written(c, NoSecret, FALSE) /\ faults' \in Nat
    <3>1. /\ call' \in [Callers -> Calls] /\ Local(c)' /\ Sound(c)'
          /\ \A d \in Callers \ {c} : call'[d] = call[d]
      BY <2>4, <1>a, FailsFacts
    <3>2. secret' = NoSecret /\ (stale \cup Looking) \ {c} \subseteq stale' /\ stale' \subseteq Callers
      BY <2>4, <1>a DEF Written, TypeOK, Looking
    <3> QED BY <2>4, <3>1, <3>2, <1>2, NoSecretFacts, StepOf DEF CreateSecret
  <2>5. faults' \in Nat BY <1>2, <1>a, FaultFacts DEF CreateSecret
  <2> QED BY <1>2, <2>2, <2>3, <2>4, <2>5 DEF CreateSecret
<1>3. CASE CheckExpiry(c)
  <2>1. UNCHANGED <<clock, secret, apiToken, stale, faults>> BY <1>3 DEF CheckExpiry
  <2>2. CASE GoTo(c, "apitoken") /\ (call[c].copy.token = 0 \/ clock > call[c].copy.expiry)
    <3>1. /\ call' \in [Callers -> Calls]
          /\ call'[c].pc = "apitoken" /\ call'[c].copy = call[c].copy
          /\ \A d \in Callers \ {c} : call'[d] = call[d]
      BY <2>2, <1>a, GoToFacts DEF PCs
    <3>2. c \notin stale => secret # Absent /\ call[c].copy = secret
      BY <1>3, <1>a DEF CheckExpiry, At, Sound
    <3>3. call[c].copy.expiry \in Nat BY <1>b DEF Calls, Secrets
    <3>4. c \notin stale => ~Fresh(secret) BY <2>2, <3>2, <3>3, <1>b DEF Fresh
    <3>5. Fresh(secret)' = Fresh(secret) BY <2>1 DEF Fresh
    <3>6. Local(c)' /\ Sound(c)' BY <2>1, <3>1, <3>2, <3>4, <3>5, <1>a DEF Local, Sound
    <3> QED BY <2>1, <3>1, <3>6, <1>a, <1>b, StepOf DEF TypeOK
  <2>3. CASE GoTo(c, "done")
    <3>1. /\ call' \in [Callers -> Calls]
          /\ call'[c].pc = "done" /\ call'[c].copy = call[c].copy
          /\ \A d \in Callers \ {c} : call'[d] = call[d]
      BY <2>3, <1>a, GoToFacts DEF PCs
    <3>2. Local(c)' /\ Sound(c)' BY <2>1, <3>1, <1>a DEF Local, Sound
    <3> QED BY <2>1, <3>1, <3>2, <1>a, <1>b, StepOf DEF TypeOK
  <2> QED BY <1>3, <2>2, <2>3 DEF CheckExpiry
<1>4. CASE GetApiToken(c)
  <2>1. UNCHANGED <<clock, secret, apiToken, stale>> /\ faults' \in Nat
    BY <1>4, <1>a, FaultFacts DEF GetApiToken
  <2>2. /\ call' \in [Callers -> Calls] /\ Local(c)' /\ Sound(c)'
        /\ \A d \in Callers \ {c} : call'[d] = call[d]
    BY <1>4, <2>1, <1>a, FailsFacts, AttemptFacts DEF GetApiToken, At
  <2> QED BY <2>1, <2>2, <1>a, StepOf DEF TypeOK
<1>5. CASE Wait(c)
  <2>1. UNCHANGED <<clock, secret, apiToken, stale, faults>> BY <1>5 DEF Wait
  <2>2. /\ call' \in [Callers -> Calls] /\ Local(c)' /\ Sound(c)'
        /\ \A d \in Callers \ {c} : call'[d] = call[d]
    BY <1>5, <2>1, <1>a, AttemptFacts DEF Wait, At
  <2> QED BY <2>1, <2>2, <1>a, <1>b, StepOf DEF TypeOK
<1>6. CASE GetCspAuthorization(c)
  <2>1. UNCHANGED <<clock, secret, apiToken, stale>> /\ faults' \in Nat
    BY <1>6, <1>a, FaultFacts DEF GetCspAuthorization
  <2>2. call[c].pc = "issue" BY <1>6 DEF GetCspAuthorization, At
  <2>3. c \notin stale => secret # Absent /\ ~Fresh(secret) BY <2>2, <1>a DEF Sound
  <2>4. Fresh(secret)' = Fresh(secret) BY <2>1 DEF Fresh
  <2>5. ASSUME NEW life \in Lifetimes,
               Becomes(c, [call[c] EXCEPT
                 !.pc = "update", !.now = 0,
                 !.copy = [token |-> clock + life,
                           expiry |-> Expiration(call[c].now, life)]])
        PROVE  TokenInv'
    <3> DEFINE s == [token |-> clock + life, expiry |-> Expiration(call[c].now, life)]
               l == [call[c] EXCEPT !.pc = "update", !.now = 0, !.copy = s]
    <3>1. call[c].now \in Nat /\ call[c].now <= clock /\ life \in Nat
      BY <2>2, <1>a, <1>b, ConstantsAssumption DEF Local, Calls
    <3>2. s \in Secrets /\ Safe(s)
      BY <3>1, <1>b, ExpirationFacts DEF Secrets, Safe
    <3>3. l \in Calls /\ l.pc = "update" /\ l.copy = s
      BY <3>2, <1>b DEF Calls, PCs
    <3>4. /\ call' \in [Callers -> Calls] /\ call'[c] = l
          /\ \A d \in Callers \ {c} : call'[d] = call[d]
      BY <2>5, <3>3, <1>a, BecomesFacts
    <3>5. Local(c)' /\ Sound(c)'
      BY <2>1, <2>3, <2>4, <3>2, <3>3, <3>4 DEF Local, Sound
    <3> QED BY <2>1, <3>4, <3>5, <1>a, StepOf DEF TypeOK
  <2>6. CASE Retry(c)
    <3>1. /\ call' \in [Callers -> Calls] /\ Local(c)' /\ Sound(c)'
          /\ \A d \in Callers \ {c} : call'[d] = call[d]
      BY <2>1, <2>3, <2>6, <1>a, RetryFacts
    <3> QED BY <2>1, <3>1, <1>a, StepOf DEF TypeOK
  <2> QED BY <1>6, <2>5, <2>6 DEF GetCspAuthorization
<1>7. CASE UpdateSecret(c)
  <2>1. UNCHANGED <<clock, apiToken>> /\ faults' \in Nat
    BY <1>7, <1>a, FaultFacts DEF UpdateSecret
  <2>2. call[c].pc = "update" BY <1>7 DEF UpdateSecret, At
  <2>3. call[c].copy \in Secrets /\ Safe(call[c].copy) BY <1>a, <1>b DEF Local, Calls
  <2>4. c \notin stale => secret # Absent /\ ~Fresh(secret) BY <2>2, <1>a DEF Sound
  <2>5. CASE Written(c, call[c].copy, TRUE) /\ GoTo(c, "done")
    <3>1. /\ call' \in [Callers -> Calls]
          /\ call'[c].pc = "done" /\ call'[c].copy = call[c].copy
          /\ \A d \in Callers \ {c} : call'[d] = call[d]
      BY <2>5, <1>a, GoToFacts DEF PCs
    <3>2. secret' = call[c].copy /\ (stale \cup Looking) \ {c} \subseteq stale' /\ stale' \subseteq Callers
      BY <2>5, <1>a DEF Written, TypeOK, Looking
    <3>3. Local(c)' /\ Sound(c)' BY <2>3, <3>1 DEF Local, Sound
    <3> QED BY <2>1, <2>3, <3>1, <3>2, <3>3, StepOf
  <2>6. CASE Retry(c) /\ Written(c, call[c].copy, FALSE)
    <3>1. c \in Looking BY <2>2 DEF Looking
    <3>2. /\ secret' = call[c].copy /\ c \in stale' /\ stale' \subseteq Callers
          /\ (stale \cup Looking) \ {c} \subseteq stale'
      BY <2>6, <3>1, <1>a DEF Written, TypeOK, Looking
    <3>3. /\ call' \in [Callers -> Calls] /\ Local(c)' /\ Sound(c)'
          /\ \A d \in Callers \ {c} : call'[d] = call[d]
      BY <2>1, <2>6, <3>2, <1>a, RetryFacts
    <3> QED BY <2>1, <2>3, <3>2, <3>3, StepOf
  <2>7. CASE Retry(c) /\ UNCHANGED <<secret, stale>>
    <3>1. /\ call' \in [Callers -> Calls] /\ Local(c)' /\ Sound(c)'
          /\ \A d \in Callers \ {c} : call'[d] = call[d]
      BY <2>1, <2>4, <2>7, <1>a, RetryFacts
    <3> QED BY <2>1, <2>7, <3>1, <1>a, StepOf DEF TypeOK
  <2> QED BY <1>7, <2>5, <2>6, <2>7 DEF UpdateSecret
<1> QED BY <1>1, <1>2, <1>3, <1>4, <1>5, <1>6, <1>7 DEF GetBearerToken

\* Time that passes does not make an expired token fresh.
LEMMA TickStep == TokenInv /\ Tick => TokenInv'
<1> SUFFICES ASSUME TokenInv, Tick PROVE TokenInv' OBVIOUS
<1>1. /\ clock \in Nat /\ clock' = clock + 1
      /\ UNCHANGED <<secret, apiToken, call, stale, faults>>
  BY DEF TokenInv, TypeOK, Tick
<1>2. TypeOK' /\ StoredExpiryIsSafe'
  BY <1>1 DEF TokenInv, TypeOK, StoredExpiryIsSafe
<1>3. Fresh(secret)' => Fresh(secret)
  <2>1. secret # Absent => secret.expiry \in Nat BY DEF TokenInv, TypeOK, Secrets
  <2> QED BY <1>1, <2>1 DEF Fresh
<1>4. ASSUME NEW c \in Callers PROVE Local(c)' /\ Sound(c)'
  <2>1. Local(c) /\ Sound(c) /\ call[c].now \in Nat BY DEF TokenInv, TypeOK, Calls
  <2> QED BY <1>1, <1>3, <2>1 DEF Local, Sound, Safe
<1> QED BY <1>2, <1>4 DEF TokenInv

\* Only a caller that found the secret expired, and was not overtaken since,
\* replaces what is in it.
LEMMA OnlyExpiredIsReplaced ==
  ASSUME TokenInv, NEW c \in Callers, GetBearerToken(c), Fresh(secret)
  PROVE  secret' = secret
<1>1. TypeOK /\ Sound(c) BY DEF TokenInv
<1>2. secret # Absent BY DEF Fresh
<1>3. UpdateSecret(c) => c \in stale BY <1>1 DEF UpdateSecret, At, Sound
<1> QED BY <1>2, <1>3 DEF GetBearerToken, GetSecret, CreateSecret, CheckExpiry,
           GetApiToken, Wait, GetCspAuthorization, UpdateSecret, Written

----------------------------------------------------------------------------
\* The exporter.

\* A report that was not posted yet has asked for no token.
Ready == \A r \in Reports : scanner[r] = "ready" => call[r] = Idle

IInv == TokenInv /\ ReportingTypeOK /\ Ready

----------------------------------------------------------------------------
\* A call that begins or is cut off knows nothing, and the others what they knew.
LEMMA CallsCut ==
  ASSUME TokenInv, UNCHANGED <<clock, secret, apiToken, stale>>, faults' \in Nat,
         call' \in [Callers -> Calls],
         \A c \in Callers : \/ call'[c] = call[c]
                            \/ /\ call'[c].copy = NoSecret
                               /\ call'[c].pc \in {"get", "gone"}
  PROVE  TokenInv'
<1>1. TypeOK' /\ StoredExpiryIsSafe' BY DEF TokenInv, TypeOK, StoredExpiryIsSafe
<1>2. Fresh(secret)' = Fresh(secret) BY DEF Fresh
<1>3. ASSUME NEW c \in Callers PROVE Local(c)' /\ Sound(c)'
  <2>1. Local(c) /\ Sound(c) BY DEF TokenInv
  <2>2. CASE call'[c] = call[c] BY <1>2, <2>1, <2>2 DEF Local, Sound, Safe
  <2>3. CASE call'[c].copy = NoSecret /\ call'[c].pc \in {"get", "gone"}
    BY <2>3, NoSecretFacts DEF Local, Sound
  <2> QED BY <1>3, <2>2, <2>3
<1> QED BY <1>1, <1>3 DEF TokenInv

\* What a step of GetBearerToken does to the other reports.
LEMMA CallersApart ==
  ASSUME TypeOK, NEW c \in Callers, GetBearerToken(c)
  PROVE  call[c].pc # "idle" /\ \A d \in Callers \ {c} : call'[d] = call[d]
<1>1. call \in [Callers -> Calls] BY DEF TypeOK
<1>2. ASSUME NEW l, Becomes(c, l) PROVE \A d \in Callers \ {c} : call'[d] = call[d]
  BY <1>1, <1>2 DEF Becomes
<1>3. \E l : Becomes(c, l)
  BY DEF GetBearerToken, GetSecret, CreateSecret, CheckExpiry, GetApiToken, Wait,
         GetCspAuthorization, UpdateSecret, GoTo, Fails, Retry, Attempt
<1>4. call[c].pc # "idle"
  BY DEF GetBearerToken, GetSecret, CreateSecret, CheckExpiry, GetApiToken, Wait,
         GetCspAuthorization, UpdateSecret, At
<1> QED BY <1>2, <1>3, <1>4

\* Initially nobody knows anything.
LEMMA InitIInv == ExporterInit => IInv
<1> SUFFICES ASSUME ExporterInit PROVE IInv OBVIOUS
<1>1. Init BY DEF ExporterInit
<1>2. TypeOK BY <1>1, NoSecretFacts DEF Init, TypeOK
<1>3. StoredExpiryIsSafe BY <1>1 DEF Init, StoredExpiryIsSafe
<1>4. \A c \in Callers : Local(c) /\ Sound(c)
  BY <1>1, NoSecretFacts DEF Init, Local, Sound
<1>5. ReportingTypeOK BY <1>2 DEF ExporterInit, ReportingTypeOK
<1>6. Ready BY <1>1, ReportingAssumption DEF ExporterInit, Init, Ready
<1> QED BY <1>2, <1>3, <1>4, <1>5, <1>6 DEF IInv, TokenInv

----------------------------------------------------------------------------
\* Every step keeps the invariant.
LEMMA InvStep == IInv /\ [ExporterNext]_vars => IInv'
<1> SUFFICES ASSUME IInv, [ExporterNext]_vars PROVE IInv' OBVIOUS
<1>a. TokenInv /\ ReportingTypeOK /\ Ready /\ TypeOK
  BY DEF IInv, TokenInv
<1>b. Reports \subseteq Callers /\ Lookups \subseteq Callers /\ Reports \cap Lookups = {}
  BY ReportingAssumption
<1>1. ASSUME NEW c \in Callers, TokenStep(c) PROVE IInv'
  <2>1. GetBearerToken(c) /\ UNCHANGED <<config, outputs, answer>> BY <1>1 DEF TokenStep
  <2>2. TokenInv' BY <2>1, <1>a, GetBearerTokenStep
  <2>3. ReportingTypeOK' BY <2>1, <2>2, <1>a DEF ReportingTypeOK, TokenInv, outputs
  <2>4. call[c].pc # "idle" /\ \A d \in Callers \ {c} : call'[d] = call[d]
    BY <2>1, <1>a, CallersApart
  <2>5. Ready' BY <2>1, <2>4, <1>a, <1>b, NoSecretFacts DEF Ready, outputs
  <2> QED BY <2>2, <2>3, <2>5 DEF IInv
<1>2. ASSUME NEW r \in Reports, PostReport(r) PROVE IInv'
  <2>1. UNCHANGED <<clock, secret, apiToken, stale, config, put, telemetry, answer>>
    BY <1>2 DEF PostReport
  <2>2. faults' \in Nat BY <1>2, <1>a, FaultFacts DEF PostReport, Refuse
  <2>3. call[r] = Idle BY <1>2, <1>a DEF PostReport, Ready
  <2>4. call' = call \/ call' = [call EXCEPT ![r].pc = "get"]
    BY <1>2 DEF PostReport, ForwardEvent, Refuse
  <2>5. [Idle EXCEPT !.pc = "get"] \in Calls /\ [Idle EXCEPT !.pc = "get"].copy = NoSecret
        /\ [Idle EXCEPT !.pc = "get"].pc = "get"
    BY NoSecretFacts DEF Calls, PCs
  <2>6. /\ call' \in [Callers -> Calls]
        /\ \A c \in Callers : \/ call'[c] = call[c]
                              \/ c = r /\ call'[c] = [Idle EXCEPT !.pc = "get"]
    BY <2>3, <2>4, <2>5, <1>a, <1>b DEF TypeOK
  <2>7. TokenInv' BY <2>1, <2>2, <2>5, <2>6, <1>a, CallsCut
  <2>8. scanner' \in [Reports -> {"ready", "ok", "error"}] /\ scanner'[r] # "ready"
        /\ \A q \in Reports \ {r} : scanner'[q] = scanner[q]
    BY <1>2, <1>a DEF PostReport, ReportingTypeOK
  <2>9. search' \in [Reports -> {"none", "posting", "delivered", "lost"}]
    BY <1>2, <1>a DEF PostReport, ForwardEvent, Refuse, ReportingTypeOK
  <2>10. ReportingTypeOK' BY <2>1, <2>7, <2>8, <2>9, <1>a DEF ReportingTypeOK, TokenInv
  <2>11. Ready' BY <2>6, <2>8, <1>a, <1>b DEF Ready
  <2> QED BY <2>7, <2>10, <2>11 DEF IInv
<1>3. ASSUME NEW r \in Reports, OpenSearchPost(r) PROVE IInv'
  <2>1. UNCHANGED <<tokenVars, config, scanner, put, telemetry, answer>>
    BY <1>3 DEF OpenSearchPost
  <2>2. search' \in [Reports -> {"none", "posting", "delivered", "lost"}]
    BY <1>3, <1>a DEF OpenSearchPost, ReportingTypeOK
  <2>3. TokenInv' BY <2>1, <1>a, CallsCut DEF TokenInv, TypeOK, tokenVars
  <2> QED BY <2>1, <2>2, <2>3, <1>a DEF IInv, ReportingTypeOK, Ready, TokenInv, tokenVars
<1>4. ASSUME NEW r \in Reports, SendReport(r) PROVE IInv'
  <2>1. UNCHANGED <<clock, secret, apiToken, call, stale, config, scanner, search, answer>>
    BY <1>4 DEF SendReport
  <2>2. faults' \in Nat BY <1>4, <1>a, FaultFacts DEF SendReport
  <2>3. put' \in [Reports -> {"none", "delivered", "lost"}]
    BY <1>4, <1>a DEF SendReport, ReportingTypeOK
  <2>4. telemetry' = Payload(Decoded(r)) \/ telemetry' = telemetry BY <1>4 DEF SendReport
  <2>5. telemetry' \in {Unknown} \cup {Payload(Decoded(q)) : q \in Reports}
    BY <2>4, <1>a DEF ReportingTypeOK
  <2>6. TokenInv' BY <2>1, <2>2, <1>a, CallsCut DEF TypeOK
  <2> QED BY <2>1, <2>3, <2>5, <2>6, <1>a DEF IInv, ReportingTypeOK, Ready, TokenInv
<1>5. ASSUME NEW r \in Reports, SendFails(r) PROVE IInv'
  <2>1. UNCHANGED <<tokenVars, config, scanner, search, telemetry, answer>>
    BY <1>5 DEF SendFails
  <2>2. put' \in [Reports -> {"none", "delivered", "lost"}]
    BY <1>5, <1>a DEF SendFails, ReportingTypeOK
  <2>3. TokenInv' BY <2>1, <1>a, CallsCut DEF TokenInv, TypeOK, tokenVars
  <2> QED BY <2>1, <2>2, <2>3, <1>a DEF IInv, ReportingTypeOK, Ready, TokenInv, tokenVars
<1>6. ASSUME NEW v \in Lookups, StartLookup(v) PROVE IInv'
  <2>1. At(v, "idle") /\ GoTo(v, "get") /\ v \in Callers /\ v \notin Reports
    BY <1>6, <1>b DEF StartLookup, Start
  <2>2. UNCHANGED <<clock, secret, apiToken, stale, faults, config, scanner, search, put,
                    telemetry, answer>>
    BY <1>6 DEF StartLookup, Start, outputs
  <2>3. /\ call' \in [Callers -> Calls]
        /\ call'[v].pc = "get" /\ call'[v].copy = call[v].copy
        /\ \A d \in Callers \ {v} : call'[d] = call[d]
    BY <2>1, <1>a, GoToFacts DEF PCs
  <2>4. call[v].copy = NoSecret BY <2>1, <1>a DEF TokenInv, Local, At
  <2>5. TokenInv' BY <2>2, <2>3, <2>4, <1>a, CallsCut DEF TypeOK
  <2>6. Ready' BY <2>1, <2>2, <2>3, <1>a, <1>b DEF Ready
  <2> QED BY <2>2, <2>5, <2>6, <1>a DEF IInv, ReportingTypeOK, TokenInv
<1>7. ASSUME NEW v \in Lookups, GetVacProductInfo(v) PROVE IInv'
  <2>1. UNCHANGED <<clock, secret, apiToken, call, stale, config, outputs>>
    BY <1>7 DEF GetVacProductInfo
  <2>2. faults' \in Nat BY <1>7, <1>a, FaultFacts DEF GetVacProductInfo
  <2>3. answer' \in [Lookups -> {"none", "trusted", "untrusted", "error", "panic"}]
    BY <1>7, <1>a DEF GetVacProductInfo, Product, ReportingTypeOK
  <2>4. TokenInv' BY <2>1, <2>2, <1>a, CallsCut DEF TypeOK
  <2> QED BY <2>1, <2>3, <2>4, <1>a DEF IInv, ReportingTypeOK, Ready, TokenInv, outputs
<1>8. CASE TickClock
  <2>1. Tick /\ UNCHANGED <<config, outputs, answer>> BY <1>8 DEF TickClock
  <2>2. TokenInv' BY <2>1, <1>a, TickStep
  <2>3. call' = call BY <2>1 DEF Tick
  <2> QED BY <2>1, <2>2, <2>3, <1>a DEF IInv, ReportingTypeOK, Ready, TokenInv, outputs
<1>9. CASE Restart
  <2>1. UNCHANGED <<clock, secret, apiToken, stale, config, scanner, telemetry, answer>>
    BY <1>9 DEF Restart
  <2>2. faults' \in Nat BY <1>9, <1>a, FaultFacts DEF Restart
  <2> DEFINE Gone == [Idle EXCEPT !.pc = "gone"]
  <2>3. Gone \in Calls /\ Gone.copy = NoSecret /\ Gone.pc = "gone"
    BY NoSecretFacts DEF Calls, PCs
  <2>4. \A c \in Callers : /\ c \in Reports \cap Running => call'[c] = Gone
                           /\ c \notin Reports \cap Running => call'[c] = call[c]
    BY <1>9 DEF Restart, Die
  <2>5. call' \in [Callers -> Calls] BY <1>9, <2>3, <1>a DEF Restart, Die, TypeOK
  <2>6. TokenInv' BY <2>1, <2>2, <2>3, <2>4, <2>5, <1>a, CallsCut
  <2>7. \A c \in Callers : call[c] = Idle => call'[c] = Idle
    BY <2>4, NoSecretFacts DEF Running, Looking, At
  <2>8. Ready' BY <2>1, <2>7, <1>a, <1>b DEF Ready
  <2>9. search' \in [Reports -> {"none", "posting", "delivered", "lost"}]
    BY <1>9, <1>a DEF Restart, ReportingTypeOK
  <2>10. put' \in [Reports -> {"none", "delivered", "lost"}]
    BY <1>9, <1>a DEF Restart, ReportingTypeOK
  <2> QED BY <2>1, <2>6, <2>8, <2>9, <2>10, <1>a DEF IInv, ReportingTypeOK, TokenInv
<1>10. CASE UNCHANGED vars
  <2>1. UNCHANGED <<tokenVars, config, scanner, search, put, telemetry, answer>>
    BY <1>10 DEF vars
  <2>2. TokenInv' BY <2>1, <1>a, CallsCut DEF TypeOK, tokenVars
  <2> QED BY <2>1, <2>2, <1>a DEF IInv, ReportingTypeOK, Ready, TokenInv, tokenVars
<1> QED
  BY <1>1, <1>2, <1>3, <1>4, <1>5, <1>6, <1>7, <1>8, <1>9, <1>10 DEF ExporterNext, Post

----------------------------------------------------------------------------
\* A step that replaces a fresh token is none of those a caller can take.
LEMMA FreshStep == IInv /\ [ExporterNext]_vars => [Fresh(secret) => secret' = secret]_tokenVars
<1> SUFFICES ASSUME IInv, [ExporterNext]_vars, Fresh(secret) PROVE secret' = secret
  OBVIOUS
<1>1. ASSUME NEW c \in Callers, TokenStep(c) PROVE secret' = secret
  BY <1>1, OnlyExpiredIsReplaced DEF IInv, TokenStep
<1>2. CASE UNCHANGED vars BY <1>2 DEF vars, tokenVars
<1>3. ASSUME NEW r \in Reports, PostReport(r) \/ Post(r) PROVE secret' = secret
  BY <1>3 DEF PostReport, Post, OpenSearchPost, SendReport, SendFails, tokenVars
<1>4. ASSUME NEW v \in Lookups, StartLookup(v) \/ GetVacProductInfo(v) PROVE secret' = secret
  BY <1>4 DEF StartLookup, Start, GetVacProductInfo
<1>5. CASE TickClock \/ Restart BY <1>5 DEF TickClock, Tick, Restart
<1> QED BY <1>1, <1>2, <1>3, <1>4, <1>5 DEF ExporterNext

----------------------------------------------------------------------------
\* The invariant holds in every behaviour.
LEMMA IInvAlways == ExporterSpec => []IInv
<1>1. ExporterInit => IInv BY InitIInv
<1>2. IInv /\ [ExporterNext]_vars => IInv' BY InvStep
<1> QED BY <1>1, <1>2, PTL DEF ExporterSpec

\* Type correctness, of the calls for a token and of what the exporter keeps.
THEOREM TypeCorrect == ExporterSpec => []ReportingTypeOK
<1>1. IInv => ReportingTypeOK BY DEF IInv
<1> QED BY <1>1, IInvAlways, PTL

\* The secret never claims a longer life for a token than CSP gives it, however
\* many callers of however many processes write it (refreshToken).
THEOREM ExpirySafe == ExporterSpec => []StoredExpiryIsSafe
<1>1. IInv => StoredExpiryIsSafe BY DEF IInv, TokenInv
<1> QED BY <1>1, IInvAlways, PTL

\* A token that is still fresh is never replaced, though callers check, ask CSP and
\* write in separate steps, and writes are repeated after lost replies.
THEOREM FreshKept == ExporterSpec => FreshTokenIsKept
<1>1. IInv /\ [ExporterNext]_vars => [Fresh(secret) => secret' = secret]_tokenVars
  BY FreshStep
<1> QED BY <1>1, IInvAlways, PTL DEF ExporterSpec, FreshTokenIsKept

=============================================================================
