------------------------------ MODULE Gateway ------------------------------
(***************************************************************************)
(* The LLM gateway under concurrent callers: a bounded number of call slots,  *)
(* a provider client built lazily by whichever thread needs it first, and     *)
(* retries with backoff. A call keeps its slot from its first attempt to its  *)
(* answer, backoff included.                                                 *)
(*                                                                          *)
(* Sources: backend/app/ai/gateway.py. run_assessment creates one gateway per *)
(* run; the calls of a run come from its judge threads.                      *)
(***************************************************************************)
EXTENDS Naturals, FiniteSets

CONSTANTS
  Calls,           \* calls to complete or complete_vision, one thread each
  Gateways,        \* the LLMGateway objects of the process
  Nobody,          \* holder of a free client lock; also "no client"
  MaxConcurrency,  \* LLM_MAX_CONCURRENCY
  MaxAttempts      \* LLM_MAX_RETRIES, the attempts of one call

ASSUME GatewayAssumption ==
  /\ Nobody \notin Calls
  /\ IsFiniteSet(Calls)
  /\ MaxConcurrency \in Nat \ {0} /\ MaxAttempts \in Nat \ {0}

VARIABLES
  provider,    \* "remote" (groq, anthropic) or "deterministic"
  keyed,       \* the provider's API key is configured
  gateway,     \* gateway[c]: the gateway call c goes through
  call,        \* call[c]: where its thread stands
  attempt,     \* attempt[c]: number of its current attempt
  using,       \* using[c]: the client it last sent a request with
  slots,       \* slots[g]: free slots of g's _call_slots
  lock,        \* lock[g]: holder of g's _client_lock
  client       \* client[g]: g's client, named by the call that built it

settings == <<provider, keyed, gateway>>
gatewayVars == <<settings, call, attempt, using, slots, lock, client>>

Holding == {"local", "client", "locking", "checking", "building", "sending",
            "backoff"}
Ended == {"answered", "rejected", "exhausted"}

\* Never more than MaxConcurrency free slots, never more than MaxAttempts attempts.
TypeOK ==
  /\ provider \in {"remote", "deterministic"} /\ keyed \in BOOLEAN
  /\ gateway \in [Calls -> Gateways]
  /\ call \in [Calls -> {"idle", "waiting"} \cup Holding \cup Ended]
  /\ attempt \in [Calls -> 0..MaxAttempts]
  /\ using \in [Calls -> Calls \cup {Nobody}]
  /\ slots \in [Gateways -> 0..MaxConcurrency]
  /\ lock \in [Gateways -> Calls \cup {Nobody}]
  /\ client \in [Gateways -> Calls \cup {Nobody}]

GatewayInit ==
  /\ provider \in {"remote", "deterministic"} /\ keyed \in BOOLEAN
  /\ gateway \in [Calls -> Gateways]
  /\ call = [c \in Calls |-> "idle"]
  /\ attempt = [c \in Calls |-> 0]
  /\ using = [c \in Calls |-> Nobody]
  /\ slots = [g \in Gateways |-> MaxConcurrency]
  /\ lock = [g \in Gateways |-> Nobody]
  /\ client = [g \in Gateways |-> Nobody]

-----------------------------------------------------------------------------
(* _dispatch: the slot.                                                     *)

Go(c, next) == call' = [call EXCEPT ![c] = next]

\* Leaving the with block, by an answer or by any exception, frees the slot.
Leave(c, how) == Go(c, how) /\ slots' = [slots EXCEPT ![gateway[c]] = @ + 1]

Start(c) ==
  /\ call[c] = "idle"
  /\ Go(c, "waiting")
  /\ UNCHANGED <<settings, attempt, using, slots, lock, client>>

TakeSlot(c) ==
  /\ call[c] = "waiting" /\ slots[gateway[c]] > 0
  /\ slots' = [slots EXCEPT ![gateway[c]] = @ - 1]
  /\ IF provider = "deterministic"
     THEN Go(c, "local") /\ UNCHANGED attempt
     ELSE Go(c, "client") /\ attempt' = [attempt EXCEPT ![c] = 1]
  /\ UNCHANGED <<settings, using, lock, client>>

\* The rule-based stand-in answers, or has no rule for the task.
AnswerLocally(c) ==
  /\ call[c] = "local"
  /\ \E how \in {"answered", "rejected"} : Leave(c, how)
  /\ UNCHANGED <<settings, attempt, using, lock, client>>

-----------------------------------------------------------------------------
(* The provider's client, built once under double-checked locking.          *)

Send(c, k) == Go(c, "sending") /\ using' = [using EXCEPT ![c] = k]
Unlock(c) == lock' = [lock EXCEPT ![gateway[c]] = Nobody]

FindClient(c) ==
  /\ call[c] = "client"
  /\ IF client[gateway[c]] = Nobody
     THEN Go(c, "locking") /\ UNCHANGED using
     ELSE Send(c, client[gateway[c]])
  /\ UNCHANGED <<settings, attempt, slots, lock, client>>

LockClient(c) ==
  /\ call[c] = "locking" /\ lock[gateway[c]] = Nobody
  /\ lock' = [lock EXCEPT ![gateway[c]] = c]
  /\ Go(c, "checking")
  /\ UNCHANGED <<settings, attempt, using, slots, client>>

\* Another thread built it while this one waited.
FoundBuilt(c) ==
  /\ call[c] = "checking" /\ client[gateway[c]] # Nobody
  /\ Unlock(c)
  /\ Send(c, client[gateway[c]])
  /\ UNCHANGED <<settings, attempt, slots, client>>

\* Mutant: the client is not looked for again under the lock.
StartBuild_Unchecked(c) ==
  /\ call[c] = "checking" /\ keyed
  /\ Go(c, "building")
  /\ UNCHANGED <<settings, attempt, using, slots, lock, client>>

\* Nobody has: this one does, under the lock.
StartBuild(c) ==
  /\ call[c] = "checking" /\ client[gateway[c]] = Nobody /\ keyed
  /\ Go(c, "building")
  /\ UNCHANGED <<settings, attempt, using, slots, lock, client>>

Build(c) ==
  /\ call[c] = "building"
  /\ client' = [client EXCEPT ![gateway[c]] = c]
  /\ Unlock(c)
  /\ Send(c, c)
  /\ UNCHANGED <<settings, attempt, slots>>

\* Mutant: acquire and release without a finally.
MissingKey_KeepsLock(c) ==
  /\ call[c] = "checking" /\ client[gateway[c]] = Nobody /\ ~keyed
  /\ Leave(c, "rejected")
  /\ UNCHANGED <<settings, attempt, using, lock, client>>

\* Without an API key the call fails here, through lock and slot.
MissingKey(c) ==
  /\ call[c] = "checking" /\ client[gateway[c]] = Nobody /\ ~keyed
  /\ Unlock(c)
  /\ Leave(c, "rejected")
  /\ UNCHANGED <<settings, attempt, using, client>>

-----------------------------------------------------------------------------
(* One attempt, and the retries around it.                                  *)

\* An answer (a refusal is one), or an error that no retry would mend.
Respond(c) ==
  /\ call[c] = "sending"
  /\ \E how \in {"answered", "rejected"} : Leave(c, how)
  /\ UNCHANGED <<settings, attempt, using, lock, client>>

\* Rate limits, overload, timeouts, lost connections: tried again.
BackOff(c) ==
  /\ call[c] = "sending" /\ attempt[c] < MaxAttempts
  /\ Go(c, "backoff")
  /\ UNCHANGED <<settings, attempt, using, slots, lock, client>>

\* Mutant: the slot is given back only with an answer.
Exhaust_KeepsSlot(c) ==
  /\ call[c] = "sending" /\ attempt[c] = MaxAttempts
  /\ Go(c, "exhausted")
  /\ UNCHANGED <<settings, attempt, using, slots, lock, client>>

\* The last attempt failed as well: RetryError, reported as a GatewayError.
Exhaust(c) ==
  /\ call[c] = "sending" /\ attempt[c] = MaxAttempts
  /\ Leave(c, "exhausted")
  /\ UNCHANGED <<settings, attempt, using, lock, client>>

Retry(c) ==
  /\ call[c] = "backoff"
  /\ attempt' = [attempt EXCEPT ![c] = @ + 1]
  /\ Go(c, "client")
  /\ UNCHANGED <<settings, using, slots, lock, client>>

Step(c) ==
  \/ TakeSlot(c) \/ AnswerLocally(c)
  \/ FindClient(c) \/ LockClient(c) \/ FoundBuilt(c) \/ StartBuild(c) \/ Build(c)
  \/ MissingKey(c)
  \/ Respond(c) \/ BackOff(c) \/ Exhaust(c) \/ Retry(c)

GatewayNext == \E c \in Calls : Start(c) \/ Step(c)

\* Threads run; the client's request timeout ends every attempt.
GatewayFairness == \A c \in Calls : WF_gatewayVars(Step(c))

GatewaySpec == GatewayInit /\ [][GatewayNext]_gatewayVars
FairGatewaySpec == GatewaySpec /\ GatewayFairness

-----------------------------------------------------------------------------
(* Properties                                                               *)

HoldersOf(g) == {c \in Calls : gateway[c] = g /\ call[c] \in Holding}

\* Every slot is free or held by a call that has not ended, on every way out of
\* a call: no slot is lost to a failure, and a run never has more calls under
\* way, retries and backoffs included, than the limit.
SlotsAccountedFor ==
  \A g \in Gateways : slots[g] + Cardinality(HoldersOf(g)) = MaxConcurrency

\* The calls of one gateway all use one client, however many threads found none
\* at the same time.
OneClientPerGateway ==
  \A c \in Calls : using[c] # Nobody => using[c] = client[gateway[c]]

\* Every call ends, also when the key is missing or the provider only fails.
CallEnds == \A c \in Calls : call[c] = "waiting" ~> call[c] \in Ended
=============================================================================
