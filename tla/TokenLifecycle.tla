---------------------------- MODULE TokenLifecycle ----------------------------
(***************************************************************************)
(* The access token that the parallel tests of one run share               *)
(* (src/main/java/com/hi/api): TokenCache holds it and remembers the ones  *)
(* that were rejected, RestStep gives it to a step and reacts to a 401,    *)
(* AuthDiagnostics drops it at most once per window, TokenRefresh and      *)
(* AuthHelper fetch another.                                               *)
(*                                                                         *)
(* A test is one thread with a context of its own (ctx); the cache, the    *)
(* rejected tokens and the time of the last drop are shared and read and   *)
(* written one at a time, without a lock. What the two servers answer is   *)
(* free: the token server may issue any token, the same again too, and a   *)
(* service may refuse any of them (expired, revoked, meant for another).   *)
(***************************************************************************)
EXTENDS Naturals

CONSTANTS
  Threads,       \* tests that run in parallel
  Importing,     \* those of converted suites: their chain has a tokenRequest step
  Bound,         \* those whose scenario is bound to a client that can fetch a token
  Tokens,
  NoToken,
  Steps,         \* the steps of the chains: <<to the service, asserts a 401, expects one>>
  TokenRetries,  \* tokenRetry
  Debounce,      \* auth.invalidateDebounceMs, in ticks
  MaxTime        \* bound: ticks of the clock

ASSUME TokenAssumption ==
  /\ Importing \subseteq Threads /\ Bound \subseteq Threads
  /\ NoToken \notin Tokens /\ Steps \subseteq BOOLEAN \X BOOLEAN \X BOOLEAN
  /\ TokenRetries \in Nat /\ Debounce \in Nat \ {0} /\ MaxTime \in Nat
  /\ Debounce <= MaxTime

VARIABLES
  now,        \* the clock: it is long after 0 when the run begins
  held,       \* HELD: [token, over], over once its time has passed
  rejected,   \* REJECTED
  lastClear,  \* LAST_CLEAR
  test,       \* what each test has in its hands
  clears      \* (history) calls that won the right to drop the cache, by their time

vars == <<now, held, rejected, lastClear, test, clears>>
shared == <<now, held, rejected, lastClear, clears>>

Nobody == [token |-> NoToken, over |-> FALSE]

\* token, access: tokenId.GeneratedTokenID and accessToken of the ctx;
\* got: the token in an answer or in a parameter; next: where prime and put return to;
\* first, keyed, own: what the step sent, whether from tokenId.GeneratedTokenID,
\* and to the service; asserts, expects: it wants a 401 (row's column, builder).
Quiet == [pc |-> "idle", next |-> "idle", token |-> NoToken, access |-> NoToken,
          got |-> NoToken, first |-> NoToken, keyed |-> FALSE, own |-> FALSE,
          asserts |-> FALSE, expects |-> FALSE, attempt |-> 0, prev |-> 0, at |-> 0]

Init ==
  /\ now = Debounce /\ held = Nobody /\ rejected = {} /\ lastClear = 0
  /\ test = [t \in Threads |-> Quiet]
  /\ clears = [i \in 0..MaxTime |-> 0]

Live == held.token # NoToken /\ ~held.over

\* The end of a step, or of the preparation: only the ctx stays.
Ended(c) == [Quiet EXCEPT !.token = c.token, !.access = c.access]
\* The next thing a thread does.
Goes(t, pc) == test' = [test EXCEPT ![t].pc = pc]
\* ...after prime or put.
Returns(c) == IF c.next = "idle" THEN Ended(c) ELSE [c EXCEPT !.pc = c.next, !.got = NoToken]

-----------------------------------------------------------------------------
(* TokenCache.getAccessToken: three callers give it three ways on *)

\* HELD.compareAndSet(e, null), whatever was put there since.
DropAnyway == Nobody

\* HELD.compareAndSet(e, null): an entry that replaced the expired one stays.
Dropped == IF held.over THEN Nobody ELSE held

Drop(t, pc, then) ==
  /\ test[t].pc = pc
  /\ held' = Dropped
  /\ Goes(t, then)
  /\ UNCHANGED <<now, rejected, lastClear, clears>>

\* An entry that is read expired is dropped in a second step.
Misses(t, dropping, then) ==
  /\ ~Live
  /\ Goes(t, IF held.over THEN dropping ELSE then)
  /\ UNCHANGED shared

-----------------------------------------------------------------------------
(* TokenCache.putAccessToken(got) *)

PutChecks(t) ==
  /\ test[t].pc = "put"
  /\ test' = [test EXCEPT ![t] = IF test[t].got \in rejected THEN Returns(test[t])
                                 ELSE [test[t] EXCEPT !.pc = "set"]]
  /\ UNCHANGED shared

PutSets(t) ==
  /\ test[t].pc = "set"
  /\ held' = [token |-> test[t].got, over |-> FALSE]
  /\ test' = [test EXCEPT ![t] = Returns(test[t])]
  /\ UNCHANGED <<now, rejected, lastClear, clears>>

-----------------------------------------------------------------------------
(* AuthHelper.primeClientCredentialsToken *)

\* A test begins with an empty ctx; one that is written by hand is primed.
NewTest(t) ==
  /\ test[t].pc = "idle" /\ (test[t] # Quiet \/ t \notin Importing)
  /\ test' = [test EXCEPT ![t] = IF t \in Importing THEN Quiet ELSE [Quiet EXCEPT !.pc = "prime"]]
  /\ UNCHANGED shared

\* Called again, with a token in the ctx: it goes (back) into the cache.
PrimeAgain(t) ==
  /\ test[t].pc = "idle" /\ test[t].access # NoToken /\ t \notin Importing
  /\ test' = [test EXCEPT ![t] = [test[t] EXCEPT !.pc = "put", !.got = test[t].access]]
  /\ UNCHANGED shared

Prime(t) ==
  /\ test[t].pc = "prime"
  /\ \/ /\ Live
        /\ test' = [test EXCEPT ![t] = Returns([test[t] EXCEPT !.access = held.token])]
        /\ UNCHANGED shared
     \/ Misses(t, "primeDrop", "primeFetch")

PrimeFetch(t) ==
  /\ test[t].pc = "primeFetch"
  /\ \/ test' = [test EXCEPT ![t] = Returns(test[t])]
     \/ \E k \in Tokens : test' = [test EXCEPT ![t] = [test[t] EXCEPT !.pc = "put", !.got = k, !.access = k]]
  /\ UNCHANGED shared

-----------------------------------------------------------------------------
(* RestStep: a tokenRequest step *)

\* A negative one goes to the token server.
TokenStep(t, asserts, expects) ==
  /\ test[t].pc = "idle" /\ t \in Importing
  /\ test' = [test EXCEPT ![t] = [test[t] EXCEPT !.pc = IF expects THEN "fetch" ELSE "reuse", !.asserts = asserts]]
  /\ UNCHANGED shared

\* canReuseForSetup
Reuse(t) ==
  /\ test[t].pc = "reuse"
  /\ \/ Live /\ Goes(t, "answer") /\ UNCHANGED shared
     \/ Misses(t, "fetchDrop", "fetch")

\* cachedAsResponse: the entry may have gone meanwhile, or be another.
Answer(t) ==
  /\ test[t].pc = "answer"
  /\ \/ /\ Live
        /\ test' = [test EXCEPT ![t] = [test[t] EXCEPT !.pc = "apply", !.got = held.token]]
        /\ UNCHANGED shared
     \/ Misses(t, "fetchDrop", "fetch")

\* The key of a ctx as applyToCtx leaves it.
Filled(old) == IF old = NoToken \/ old \in rejected THEN held.token ELSE old

\* applyToCtx
Apply(t) ==
  /\ test[t].pc = "apply"
  /\ \/ /\ Live
        /\ test' = [test EXCEPT ![t] = [test[t] EXCEPT !.pc = "extract",
                       !.token = Filled(test[t].token), !.access = Filled(test[t].access)]]
        /\ UNCHANGED shared
     \/ Misses(t, "applyDrop", "extract")

\* The chain's own extract may take the token out of the cached answer.
Extract(t) ==
  /\ test[t].pc = "extract"
  /\ \E k \in {test[t].token, test[t].got} : test' = [test EXCEPT ![t] = Ended([test[t] EXCEPT !.token = k])]
  /\ UNCHANGED shared

\* The exchange: a token, a 401, or another failure.
Fetch(t) ==
  /\ test[t].pc = "fetch"
  /\ \/ \E k \in Tokens : test' = [test EXCEPT ![t] = [test[t] EXCEPT !.pc = "store", !.got = k]]
     \/ test' = [test EXCEPT ![t] = IF test[t].asserts THEN Ended(test[t]) ELSE [test[t] EXCEPT !.pc = "mark"]]
     \/ test' = [test EXCEPT ![t] = Ended(test[t])]
  /\ UNCHANGED shared

\* storeFrom; the chain extracts the token.
Store(t) ==
  /\ test[t].pc = "store"
  /\ held' = [token |-> test[t].got, over |-> FALSE]
  /\ test' = [test EXCEPT ![t] = Ended([test[t] EXCEPT !.token = test[t].got])]
  /\ UNCHANGED <<now, rejected, lastClear, clears>>

-----------------------------------------------------------------------------
(* RestStep: any other step *)

\* apiToken(): the first of its keys that holds something, then the cache.
Bearer(c) ==
  IF c.token # NoToken THEN c.token
  ELSE IF c.access # NoToken THEN c.access
  ELSE IF Live THEN held.token ELSE NoToken

\* A step that is refused (one that is not changes nothing here), by the
\* service (own) or by another that has a token of its own (Salesforce).
Send(t, own, asserts, expects) ==
  /\ test[t].pc = "idle"
  /\ test' = [test EXCEPT ![t] =
       [test[t] EXCEPT !.pc = IF asserts THEN "judge" ELSE "mark", !.own = own,
          !.first = IF own THEN Bearer(test[t]) ELSE NoToken,
          !.keyed = own /\ test[t].token # NoToken,
          !.asserts = asserts, !.expects = expects]]
  /\ UNCHANGED shared

\* Only a refusal of a step that was to be let in is remembered: not of this one.
MarkNothing(t) ==
  /\ test[t].pc = "mark"
  /\ Goes(t, "look")
  /\ UNCHANGED shared

\* What the ctx has under its key, also when that is empty.
MarkWhatever(t) ==
  /\ test[t].pc = "mark"
  /\ rejected' = rejected \cup {test[t].token}
  /\ Goes(t, "look")
  /\ UNCHANGED <<now, held, lastClear, clears>>

\* TokenCache.markRejected
Mark(t) ==
  /\ test[t].pc = "mark"
  /\ rejected' = rejected \cup ({test[t].token} \ {NoToken})
  /\ Goes(t, "look")
  /\ UNCHANGED <<now, held, lastClear, clears>>

\* AuthDiagnostics.invalidateCachedTokens: now, prev...
Look(t) ==
  /\ test[t].pc = "look"
  /\ test' = [test EXCEPT ![t] = IF lastClear + Debounce <= now
                                 THEN [test[t] EXCEPT !.pc = "swap", !.at = now, !.prev = lastClear]
                                 ELSE [test[t] EXCEPT !.pc = "judge"]]
  /\ UNCHANGED shared

\* LAST_CLEAR.set(now): every thread that looked wins.
SwapsAnyway(t) == TRUE

\* LAST_CLEAR.compareAndSet(prev, now)
Swaps(t) == lastClear = test[t].prev

Swap(t) ==
  /\ test[t].pc = "swap"
  /\ IF Swaps(t)
     THEN /\ lastClear' = test[t].at
          /\ clears' = [clears EXCEPT ![test[t].at] = clears[test[t].at] + 1]
     ELSE UNCHANGED <<lastClear, clears>>
  /\ test' = [test EXCEPT ![t] = [test[t] EXCEPT !.pc = IF Swaps(t) THEN "clear" ELSE "judge",
                                    !.prev = 0, !.at = 0]]
  /\ UNCHANGED <<now, held, rejected>>

\* ...and TokenCache.clear.
Clear(t) ==
  /\ test[t].pc = "clear"
  /\ held' = Nobody
  /\ Goes(t, "judge")
  /\ UNCHANGED <<now, rejected, lastClear, clears>>

\* The loop's condition: attempts left, and TokenRefresh.shouldAttempt.
ShouldAttempt(c) == c.attempt < TokenRetries /\ c.own /\ ~c.expects

Judge(t) ==
  /\ test[t].pc = "judge"
  /\ test' = [test EXCEPT ![t] =
       IF ShouldAttempt(test[t])
       THEN [test[t] EXCEPT !.pc = "refresh", !.attempt = test[t].attempt + 1]
       ELSE Ended(test[t])]
  /\ UNCHANGED shared

\* refreshFromBoundClient: not with a token that is known to be rejected.
RefreshBound(t) ==
  /\ test[t].pc = "refresh" /\ t \in Bound
  /\ \/ test' = [test EXCEPT ![t] = Ended(test[t])]
     \/ \E k \in Tokens \ rejected :
          test' = [test EXCEPT ![t] = [test[t] EXCEPT !.pc = "put", !.next = "resend",
                                         !.token = k, !.access = k, !.got = k]]
  /\ UNCHANGED shared

\* refreshViaAuthHelper
RefreshPrimes(t) ==
  /\ test[t].pc = "refresh" /\ t \notin Bound
  /\ test' = [test EXCEPT ![t] = [test[t] EXCEPT !.pc = "prime", !.next = "primed", !.access = NoToken]]
  /\ UNCHANGED shared

Primed(t) ==
  /\ test[t].pc = "primed"
  /\ test' = [test EXCEPT ![t] =
       IF test[t].access = NoToken THEN Ended(test[t])
       ELSE [test[t] EXCEPT !.pc = "put", !.next = "resend", !.token = test[t].access, !.got = test[t].access]]
  /\ UNCHANGED shared

\* The exchange again; a second refusal is neither remembered nor drops the cache.
Resend(t) ==
  /\ test[t].pc = "resend"
  /\ \/ test' = [test EXCEPT ![t] = Ended(test[t])]
     \/ test' = [test EXCEPT ![t] = [test[t] EXCEPT !.pc = "judge", !.next = "idle"]]
  /\ UNCHANGED shared

-----------------------------------------------------------------------------
HeldExpires ==
  /\ Live /\ held' = [held EXCEPT !.over = TRUE]
  /\ UNCHANGED <<now, rejected, lastClear, test, clears>>

Tick ==
  /\ now < MaxTime /\ now' = now + 1
  /\ UNCHANGED <<held, rejected, lastClear, test, clears>>

\* A thread goes on with what it has begun.
GoesOn(t) ==
  \/ PutChecks(t) \/ PutSets(t) \/ Prime(t) \/ PrimeFetch(t)
  \/ Reuse(t) \/ Answer(t) \/ Apply(t) \/ Extract(t) \/ Fetch(t) \/ Store(t)
  \/ Drop(t, "primeDrop", "primeFetch") \/ Drop(t, "fetchDrop", "fetch") \/ Drop(t, "applyDrop", "extract")
  \/ Mark(t) \/ Look(t) \/ Swap(t) \/ Clear(t) \/ Judge(t)
  \/ RefreshBound(t) \/ RefreshPrimes(t) \/ Primed(t) \/ Resend(t)

Begins(t) ==
  \/ NewTest(t) \/ PrimeAgain(t)
  \/ \E s \in Steps : TokenStep(t, s[2], s[3]) \/ Send(t, s[1], s[2], s[3])

Next == HeldExpires \/ Tick \/ \E t \in Threads : GoesOn(t) \/ Begins(t)

Spec == Init /\ [][Next]_vars

-----------------------------------------------------------------------------
(* Properties *)

Pcs == {"idle", "put", "set", "prime", "primeDrop", "primeFetch", "reuse", "answer", "apply", "extract",
        "fetchDrop", "applyDrop", "fetch", "store", "mark", "look", "swap", "clear", "judge",
        "refresh", "primed", "resend"}
Some == Tokens \cup {NoToken}
TestType == [pc : Pcs, next : {"idle", "primed", "resend"}, token : Some, access : Some, got : Some,
             first : Some, keyed : BOOLEAN, own : BOOLEAN, asserts : BOOLEAN, expects : BOOLEAN,
             attempt : 0..TokenRetries, prev : 0..MaxTime, at : 0..MaxTime]

TypeOK ==
  /\ now \in Debounce..MaxTime
  /\ held \in [token : Some, over : BOOLEAN]
  /\ rejected \subseteq Tokens
  /\ lastClear \in 0..MaxTime
  /\ test \in [Threads -> TestType]
  /\ clears \in [0..MaxTime -> Nat]

\* "One clear per window is enough": however many tests are refused at once,
\* two calls that drop the cache looked at the clock a window apart.
OneClearPerWindow ==
  /\ \A i \in 0..MaxTime : clears[i] <= 1
  /\ \A i, j \in 0..MaxTime : i < j /\ clears[i] > 0 /\ clears[j] > 0 => i + Debounce <= j

\* A retry is not the same request again: a step of a converted suite that was
\* refused with the token of its ctx is not sent again with that token. (Not
\* so for a step whose row asserts the refusal: it is taken for a dead token's.)
RetryIsOfAnother ==
  \A t \in Bound : test[t].pc = "resend" /\ test[t].keyed /\ ~test[t].asserts
                   => test[t].token # test[t].first

\* A token whose time has not passed leaves the cache only in a drop that won
\* its window or for another token: never by a reader that saw an older one expire.
ExpiryDropsOnlyTheExpired ==
  [][Live /\ held'.token = NoToken => \E t \in Threads : test[t].pc = "clear" /\ test'[t].pc = "judge"]_vars

=============================================================================
