---------------------------- MODULE GeminiBreaker ----------------------------
(***************************************************************************)
(* ai-service/services/gemini.py: the key pool (GeminiClientManager), the  *)
(* circuit breaker (ProviderStateRegistry) and the calls that use them     *)
(* (execute_gemini_call), made by the pipelines of several jobs under one  *)
(* semaphore.                                                              *)
(*                                                                         *)
(* Time is kept as what remains: cool[k] and breaker are the seconds left  *)
(* until _cooldowns[k] and cooldown_until, 0 when they have passed.  A job *)
(* calls again and again; its call is in one of the phases                 *)
(*   idle      no call in progress                                         *)
(*   queued    waiting for the semaphore                                   *)
(*   calling   awaiting call_fn on key slot[t]                             *)
(*   sleeping  in the pause before the one retry of a transient error      *)
(*   retrying  awaiting that retry, on the same key                        *)
(* ProviderStateRegistry.available is left out: it only selects log lines. *)
(***************************************************************************)
EXTENDS Integers, FiniteSets

CONSTANTS Jobs,             \* jobs whose pipelines call Gemini
          NumKeys,          \* number of configured keys
          Permits,          \* GEMINI_CONCURRENCY_LIMIT
          MaxCalls,         \* GEMINI_MAX_CALLS_PER_JOB
          QuotaDelays,      \* what parse_retry_delay may return
          TransientDelay,   \* cooldown after a failed retry
          UnexpectedDelay,  \* cooldown after an unclassified or key error
          MaxReloads        \* bound on the calls of /admin/reload-keys

ASSUME BreakerAssumption ==
  /\ NumKeys \in Nat \ {0} /\ Permits \in Nat \ {0}
  /\ MaxCalls \in Nat /\ MaxReloads \in Nat
  /\ QuotaDelays \subseteq Nat /\ IsFiniteSet(QuotaDelays)
  /\ TransientDelay \in Nat \ {0} /\ UnexpectedDelay \in Nat \ {0}

VARIABLES cool,     \* seconds each key still cools down
          breaker,  \* seconds the provider stays marked unavailable
          current,  \* GeminiClientManager._current_index
          phase,    \* phase of each job's call
          slot,     \* slot_index captured by each call
          tried,    \* keys_tried of each call
          calls,    \* job_call_counter of each job
          reloads   \* how often the keys were reloaded

vars == <<cool, breaker, current, phase, slot, tried, calls, reloads>>

Keys == 0..(NumKeys - 1)

Delays == QuotaDelays \cup {TransientDelay, UnexpectedDelay}

\* Any cooldown is one of the delays or what is left of it.
MaxDelay == CHOOSE m \in Delays : \A d \in Delays : d <= m

Phases == {"idle", "queued", "calling", "sleeping", "retrying"}

\* Jobs that hold a permit of the semaphore.
Inside == {t \in Jobs : phase[t] \in {"calling", "sleeping", "retrying"}}

\* GeminiClientManager.is_degraded, the negation of check_availability.
Degraded == breaker > 0

AllCooling(c) == \A k \in Keys : c[k] > 0

\* A slip, used by no behaviour of Spec: get_client returns the key at the
\* current index whatever its cooldown.
NextReadyIgnoresCooldown(i, c) == i

\* The first key from index i on, cyclically, that is not cooling (get_client).
NextReady(i, c) ==
  CHOOSE k \in Keys :
    /\ c[k] = 0
    /\ \A l \in Keys : c[l] = 0 => (k - i) % NumKeys <= (l - i) % NumKeys

Init ==
  /\ cool = [k \in Keys |-> 0]
  /\ breaker = 0
  /\ current = 0
  /\ phase = [t \in Jobs |-> "idle"]
  /\ slot = [t \in Jobs |-> 0]
  /\ tried = [t \in Jobs |-> 0]
  /\ calls = [t \in Jobs |-> 0]
  /\ reloads = 0

-----------------------------------------------------------------------------
(* Plausible slips, one change each; no behaviour of Spec uses them.       *)

\* Only the failed key is looked at when deciding whether to open the breaker.
MarkCooldownOpensAtOnce(k, d) ==
  /\ cool' = [cool EXCEPT ![k] = d]
  /\ breaker' = d

\* The breaker opens for the failed key's delay, not for the shortest one.
MarkCooldownOwnDelay(k, d) ==
  /\ cool' = [cool EXCEPT ![k] = d]
  /\ breaker' = IF AllCooling(cool') THEN d ELSE breaker

\* A cooldown one past the last valid delay is stored (retry_delay + 1).
MarkCooldownTooLong(k, d) ==
  /\ cool' = [cool EXCEPT ![k] = d + 1]
  /\ breaker' = IF AllCooling(cool')
                THEN CHOOSE m \in {cool'[l] : l \in Keys} :
                       \A l \in Keys : m <= cool'[l]
                ELSE breaker

-----------------------------------------------------------------------------
(* The pieces of execute_gemini_call that run without an await.            *)

\* The call is over, with a result or an exception; the permit is released.
Leave(t) ==
  /\ phase' = [phase EXCEPT ![t] = "idle"]
  /\ slot' = [slot EXCEPT ![t] = 0]
  /\ tried' = [tried EXCEPT ![t] = 0]

\* One turn of the loop over the keys, n of them tried before, for the
\* cooldowns, breaker and index that hold when the turn begins.
Turn(t, n, c, b, i) ==
  \/ /\ n < NumKeys /\ b = 0 /\ ~AllCooling(c)
     /\ current' = NextReady(i, c)
     /\ slot' = [slot EXCEPT ![t] = NextReady(i, c)]
     /\ phase' = [phase EXCEPT ![t] = "calling"]
     /\ tried' = [tried EXCEPT ![t] = n]
  \/ /\ n = NumKeys \/ b > 0 \/ AllCooling(c)
     /\ Leave(t)
     /\ current' = i

\* mark_cooldown: key k cools for d seconds; when no key is left the breaker
\* opens until the first of them is ready again.
MarkCooldown(k, d) ==
  /\ cool' = [cool EXCEPT ![k] = d]
  /\ breaker' = IF AllCooling(cool')
                THEN CHOOSE m \in {cool'[l] : l \in Keys} :
                       \A l \in Keys : m <= cool'[l]
                ELSE breaker

\* A slip: the loop does not count the keys it has tried.
FailKeyUncounted(t, d) ==
  /\ MarkCooldown(slot[t], d)
  /\ Turn(t, tried[t], cool', breaker', (current + 1) % NumKeys)
  /\ UNCHANGED <<calls, reloads>>

\* The key failed: cool it down, rotate_key, go on with the loop.
FailKey(t, d) ==
  /\ MarkCooldown(slot[t], d)
  /\ Turn(t, tried[t] + 1, cool', breaker', (current + 1) % NumKeys)
  /\ UNCHANGED <<calls, reloads>>

-----------------------------------------------------------------------------
(* The steps of a call.                                                    *)

\* Entry: charge the job's budget, then look at the breaker.
Begin(t) ==
  /\ phase[t] = "idle"
  /\ calls[t] < MaxCalls
  /\ calls' = [calls EXCEPT ![t] = @ + 1]
  /\ phase' = [phase EXCEPT ![t] = IF Degraded THEN "idle" ELSE "queued"]
  /\ UNCHANGED <<cool, breaker, current, slot, tried, reloads>>

\* The semaphore is granted and the first turn of the loop runs.
Enter(t) ==
  /\ phase[t] = "queued"
  /\ Cardinality(Inside) < Permits
  /\ Turn(t, 0, cool, breaker, current)
  /\ UNCHANGED <<cool, breaker, calls, reloads>>

\* call_fn returns, or fails for good (404, 400).
Finish(t) ==
  /\ phase[t] \in {"calling", "retrying"}
  /\ Leave(t)
  /\ UNCHANGED <<cool, breaker, current, calls, reloads>>

\* 429 with a retry delay, a rejected key, or an unclassified error.
KeyError(t) ==
  /\ phase[t] = "calling"
  /\ \E d \in QuotaDelays \cup {UnexpectedDelay} : FailKey(t, d)

\* A timeout, a network error or a 5xx: pause, keeping the permit.
Transient(t) ==
  /\ phase[t] = "calling"
  /\ phase' = [phase EXCEPT ![t] = "sleeping"]
  /\ UNCHANGED <<cool, breaker, current, slot, tried, calls, reloads>>

Retry(t) ==
  /\ phase[t] = "sleeping"
  /\ phase' = [phase EXCEPT ![t] = "retrying"]
  /\ UNCHANGED <<cool, breaker, current, slot, tried, calls, reloads>>

RetryError(t) ==
  /\ phase[t] = "retrying"
  /\ FailKey(t, TransientDelay)

\* The stage timeout (asyncio.wait_for) or a cancellation ends the await.
Abandon(t) ==
  /\ phase[t] # "idle"
  /\ Leave(t)
  /\ UNCHANGED <<cool, breaker, current, calls, reloads>>

\* /admin/reload-keys: reload_keys on the live manager.
Reload ==
  /\ reloads < MaxReloads
  /\ reloads' = reloads + 1
  /\ cool' = [k \in Keys |-> 0]
  /\ current' = 0
  /\ UNCHANGED <<breaker, phase, slot, tried, calls>>

\* A second passes.
Before(n) == IF n = 0 THEN 0 ELSE n - 1

Tick ==
  /\ cool' = [k \in Keys |-> Before(cool[k])]
  /\ breaker' = Before(breaker)
  /\ UNCHANGED <<current, phase, slot, tried, calls, reloads>>

Step(t) ==
  Enter(t) \/ Finish(t) \/ KeyError(t) \/ Transient(t) \/ Retry(t) \/ RetryError(t)

Next == Reload \/ Tick \/ \E t \in Jobs : Begin(t) \/ Step(t) \/ Abandon(t)

Spec == Init /\ [][Next]_vars

\* The event loop runs every ready task; an awaited call returns, fails or is
\* ended by the stage timeout around it; the semaphore is FIFO; time passes.
Fairness ==
  /\ WF_vars(Tick)
  /\ \A t \in Jobs : WF_vars(Step(t) \/ Abandon(t)) /\ SF_vars(Enter(t))

FairSpec == Spec /\ Fairness

-----------------------------------------------------------------------------
TypeOK ==
  /\ cool \in [Keys -> 0..MaxDelay]
  /\ breaker \in 0..MaxDelay
  /\ current \in Keys
  /\ phase \in [Jobs -> Phases]
  /\ slot \in [Jobs -> Keys]
  /\ tried \in [Jobs -> 0..(NumKeys - 1)]
  /\ calls \in [Jobs -> 0..MaxCalls]
  /\ reloads \in 0..MaxReloads

\* When every key cools down, the breaker is open and closes exactly when the
\* first key is ready: is_degraded then also answers for the keys, as its
\* docstring says, and get_client never meets a pool without a ready key.
BreakerIsEarliestExpiry ==
  AllCooling(cool) => /\ \E k \in Keys : cool[k] = breaker
                      /\ \A k \in Keys : cool[k] >= breaker

\* The breaker never rejects calls while a key is ready, unless the keys were
\* reloaded under it or the provider asked for a retry delay of zero.
LockoutOnlyWithoutKeys ==
  reloads = 0 /\ 0 \notin QuotaDelays => (Degraded => AllCooling(cool))

\* An attempt on a newly chosen key starts only with the breaker closed and
\* that key ready, whatever the other calls did since the last await.
FreshAttemptOnReadyKey ==
  [][\A t \in Jobs :
       phase'[t] = "calling" /\ (phase[t] # "calling" \/ tried'[t] # tried[t])
         => cool'[slot'[t]] = 0 /\ ~Degraded']_vars

\* A call that was admitted ends, however many keys fail under it and however
\* fast they come back.
CallEnds == \A t \in Jobs : phase[t] # "idle" ~> phase[t] = "idle"

=============================================================================
