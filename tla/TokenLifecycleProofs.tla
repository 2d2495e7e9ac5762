------------------------- MODULE TokenLifecycleProofs -------------------------
(***************************************************************************)
(* Proofs about TokenLifecycle, for any tests, tokens, retries and times:  *)
(* its types, that the cache is dropped once per window, that a retry is   *)
(* not the same request again, and that only a drop takes a live token.    *)
(*                                                                         *)
(* Every step of a test changes that test's record alone (Steps of one     *)
(* test), so what is said of a record is shown once per action, of the     *)
(* record it leaves behind.                                                *)
(***************************************************************************)
EXTENDS TokenLifecycle, TLAPS

\* A step that sent the token of its ctx is remembered as refused before it is
\* refreshed, and only a token that is not takes its place.
KeyOK(t, c, refused) ==
  t \in Bound /\ c.keyed =>
    /\ c.pc \in {"mark", "look", "swap", "clear", "judge", "refresh", "put", "set", "resend"}
    /\ c.pc = "mark" => c.first = c.token
    /\ c.pc \in {"put", "set"} => c.next = "resend"
    /\ c.first \in Tokens
    /\ ~c.asserts => (c.pc = "mark" \/ c.first \in refused)
    /\ ~c.asserts /\ c.pc \in {"put", "set", "resend"} => c.token # c.first

Keyed == \A t \in Threads : KeyOK(t, test[t], rejected)

\* What a thread that may drop the cache saw of the clock, and what the drops
\* so far leave for the next.
Windows ==
  /\ lastClear <= now
  /\ \A t \in Threads : test[t].pc = "swap" => test[t].prev + Debounce <= test[t].at /\ test[t].at <= now
  /\ \A i \in 0..MaxTime : clears[i] > 0 => i <= lastClear

\* What is about to be put into the cache is a token.
GotOK(c) == c.pc \in {"put", "set", "store"} => c.got \in Tokens
Bearing == \A t \in Threads : GotOK(test[t])

Inv == TypeOK /\ Keyed /\ Windows /\ Bearing

\* Whatever a test did, its record is one of these.
Left(t, refused) ==
  \E c \in TestType : /\ test' = [test EXCEPT ![t] = c]
                      /\ KeyOK(t, c, refused)
                      /\ c.pc = "swap" => c.prev + Debounce <= c.at /\ c.at <= now

\* What prime and put return to.
Went(c) == [c EXCEPT !.pc = c.next, !.got = NoToken]

-----------------------------------------------------------------------------
\* A record that ended is of the type and holds nothing to remember.
LEMMA QuietOK == Quiet \in TestType /\ Quiet.keyed = FALSE
<1>1. 0 \in 0..TokenRetries /\ 0 \in 0..MaxTime
  BY TokenAssumption
<1> QED
  BY <1>1 DEF Quiet, TestType, Pcs, Some

LEMMA EndedOK ==
  ASSUME NEW c \in TestType, NEW t, NEW refused
  PROVE  /\ Ended(c) \in TestType
         /\ KeyOK(t, Ended(c), refused)
         /\ Ended(c).pc = "idle"
<1>1. c.token \in Some /\ c.access \in Some
  BY DEF TestType
<1>2. Ended(c) \in TestType
  BY <1>1, QuietOK DEF Ended, TestType
<1>3. Ended(c).keyed = FALSE /\ Ended(c).pc = "idle"
  BY DEF Ended, Quiet
<1> QED
  BY <1>2, <1>3 DEF KeyOK

\* One field of a record at a time.
LEMMA Fields ==
  ASSUME NEW c \in TestType
  PROVE  /\ \A p \in Pcs : [c EXCEPT !.pc = p] \in TestType /\ [c EXCEPT !.pc = p].pc = p
         /\ c.pc \in Pcs /\ c.token \in Some /\ c.access \in Some /\ c.got \in Some /\ c.first \in Some
         /\ c.next \in {"idle", "primed", "resend"} /\ c.keyed \in BOOLEAN /\ c.asserts \in BOOLEAN
         /\ c.own \in BOOLEAN /\ c.expects \in BOOLEAN
         /\ c.attempt \in 0..TokenRetries /\ c.prev \in 0..MaxTime /\ c.at \in 0..MaxTime
BY DEF TestType

\* A record that did not remember anything does not begin to.
LEMMA Unkeyed ==
  ASSUME NEW t, NEW old \in TestType, NEW c, NEW refused, NEW later, KeyOK(t, old, refused),
         old.pc \notin {"mark", "look", "swap", "clear", "judge", "refresh", "put", "set", "resend"},
         c.keyed = old.keyed
  PROVE  KeyOK(t, c, later)
BY DEF KeyOK

LEMMA LeftBy ==
  ASSUME NEW t \in Threads, NEW c \in TestType, NEW refused, test' = [test EXCEPT ![t] = c],
         KeyOK(t, c, refused), c.pc # "swap"
  PROVE  Left(t, refused)
BY DEF Left

\* A thread that ends its step.
LEMMA LeftEnded ==
  ASSUME NEW t \in Threads, NEW c \in TestType, NEW refused, test' = [test EXCEPT ![t] = Ended(c)]
  PROVE  Left(t, refused)
<1>1. Ended(c) \in TestType /\ KeyOK(t, Ended(c), refused) /\ Ended(c).pc # "swap"
  BY EndedOK
<1> QED
  BY <1>1, LeftBy

\* A thread outside a step that sent anything goes on.
LEMMA LeftUnkeyed ==
  ASSUME TypeOK, Keyed, NEW t \in Threads, NEW c \in TestType, NEW refused, test' = [test EXCEPT ![t] = c],
         test[t].pc \notin {"mark", "look", "swap", "clear", "judge", "refresh", "put", "set", "resend"},
         c.keyed = test[t].keyed, c.pc # "swap"
  PROVE  Left(t, refused)
<1>1. test[t] \in TestType /\ KeyOK(t, test[t], rejected)
  BY DEF TypeOK, Keyed
<1>2. KeyOK(t, c, refused)
  BY <1>1, Unkeyed
<1> QED
  BY <1>2, LeftBy

LEMMA GoesUnkeyed ==
  ASSUME TypeOK, Keyed, NEW t \in Threads, NEW pc \in Pcs, NEW refused, Goes(t, pc),
         test[t].pc \notin {"mark", "look", "swap", "clear", "judge", "refresh", "put", "set", "resend"},
         pc # "swap"
  PROVE  Left(t, refused)
<1> DEFINE c == [test[t] EXCEPT !.pc = pc]
<1>1. test[t] \in TestType
  BY DEF TypeOK
<1>2. c \in TestType
  BY <1>1, Fields
<1>3. test' = [test EXCEPT ![t] = c]
  BY DEF Goes, TypeOK
<1>4. c.keyed = test[t].keyed /\ c.pc = pc
  BY <1>1 DEF TestType
<1> HIDE DEF c
<1> QED
  BY <1>2, <1>3, <1>4, LeftUnkeyed

LEMMA ReturnsLeft ==
  ASSUME NEW t \in Threads, NEW c \in TestType, NEW refused,
         c.next # "idle" => KeyOK(t, Went(c), refused),
         test' = [test EXCEPT ![t] = Returns(c)]
  PROVE  Left(t, refused)
<1>1. CASE c.next = "idle"
  BY <1>1, LeftEnded DEF Returns
<1>2. CASE c.next # "idle"
  <2>1. Went(c) \in TestType /\ Went(c).pc # "swap"
    BY <1>2 DEF Went, TestType, Pcs, Some
  <2>2. test' = [test EXCEPT ![t] = Went(c)]
    BY <1>2 DEF Returns, Went
  <2>3. KeyOK(t, Went(c), refused)
    BY <1>2
  <2> QED
    BY <2>1, <2>2, <2>3, LeftBy
<1> QED
  BY <1>1, <1>2

\* What returns from prime or put, of a step that sent nothing of its ctx.
LEMMA ReturnsUnkeyed ==
  ASSUME TypeOK, Keyed, NEW t \in Threads, NEW c \in TestType, NEW refused,
         test[t].pc = "prime" \/ test[t].pc = "primeFetch", c.keyed = test[t].keyed,
         test' = [test EXCEPT ![t] = Returns(c)]
  PROVE  Left(t, refused)
<1>1. test[t] \in TestType /\ KeyOK(t, test[t], rejected)
  BY DEF TypeOK, Keyed
<1>2. Went(c).keyed = test[t].keyed
  BY DEF Went, TestType
<1>3. KeyOK(t, Went(c), refused)
  BY <1>1, <1>2, Unkeyed
<1> QED
  BY <1>3, ReturnsLeft

-----------------------------------------------------------------------------
LEMMA PutChecksLeaves ==
  ASSUME TypeOK, Keyed, Windows, NEW t \in Threads, PutChecks(t)
  PROVE  Left(t, rejected')
<1>1. test[t] \in TestType /\ KeyOK(t, test[t], rejected)
  BY DEF TypeOK, Keyed
<1>2. CASE test[t].got \in rejected
  <2>1. test' = [test EXCEPT ![t] = Returns(test[t])] /\ rejected' = rejected
    BY <1>2 DEF PutChecks, shared
  <2>2. KeyOK(t, Went(test[t]), rejected')
    BY <1>1, <2>1 DEF KeyOK, Went, TestType, PutChecks
  <2> QED
    BY <1>1, <2>1, <2>2, ReturnsLeft
<1>3. CASE test[t].got \notin rejected
  <2> DEFINE c == [test[t] EXCEPT !.pc = "set"]
  <2>1. test' = [test EXCEPT ![t] = c] /\ rejected' = rejected
    BY <1>3 DEF PutChecks, shared
  <2>2. c \in TestType /\ c.pc # "swap"
    BY <1>1, Fields DEF Pcs
  <2>3. KeyOK(t, c, rejected')
    BY <1>1, <2>1 DEF KeyOK, TestType, PutChecks
  <2> HIDE DEF c
  <2> QED
    BY <2>1, <2>2, <2>3, LeftBy
<1> QED
  BY <1>2, <1>3


LEMMA PutSetsLeaves ==
  ASSUME TypeOK, Keyed, Windows, NEW t \in Threads, PutSets(t)
  PROVE  Left(t, rejected')
<1>1. test[t] \in TestType /\ KeyOK(t, test[t], rejected)
  BY DEF TypeOK, Keyed
<1>2. test' = [test EXCEPT ![t] = Returns(test[t])] /\ rejected' = rejected
  BY DEF PutSets
<1>3. KeyOK(t, Went(test[t]), rejected')
  BY <1>1, <1>2 DEF KeyOK, Went, TestType, PutSets
<1> QED
  BY <1>1, <1>2, <1>3, ReturnsLeft


LEMMA NewTestLeaves ==
  ASSUME TypeOK, Keyed, Windows, NEW t \in Threads, NewTest(t)
  PROVE  Left(t, rejected')
<1>1. CASE t \in Importing
  <2>1. test' = [test EXCEPT ![t] = Quiet] /\ Quiet.pc # "swap" /\ KeyOK(t, Quiet, rejected')
    BY <1>1, QuietOK DEF NewTest, KeyOK, Quiet
  <2> QED
    BY <2>1, QuietOK, LeftBy
<1>2. CASE t \notin Importing
  <2> DEFINE c == [Quiet EXCEPT !.pc = "prime"]
  <2>1. test' = [test EXCEPT ![t] = c]
    BY <1>2 DEF NewTest
  <2>2. c \in TestType
    BY QuietOK, Fields DEF Pcs
  <2>3. c.pc # "swap" /\ c.keyed = FALSE
    BY DEF Quiet
  <2>4. KeyOK(t, c, rejected')
    BY <2>3 DEF KeyOK
  <2> HIDE DEF c
  <2> QED
    BY <2>1, <2>2, <2>3, <2>4, LeftBy
<1> QED
  BY <1>1, <1>2


LEMMA PrimeAgainLeaves ==
  ASSUME TypeOK, Keyed, Windows, NEW t \in Threads, PrimeAgain(t)
  PROVE  Left(t, rejected')
<1>1. test[t] \in TestType /\ KeyOK(t, test[t], rejected)
  BY DEF TypeOK, Keyed
<1> DEFINE c == [test[t] EXCEPT !.pc = "put", !.got = test[t].access]
<1>2. test' = [test EXCEPT ![t] = c]
  BY DEF PrimeAgain
<1>3. c \in TestType
  BY <1>1 DEF TestType, Pcs
<1>4. c.pc # "swap" /\ c.keyed = test[t].keyed
  BY <1>1 DEF TestType
<1>5. test[t].pc = "idle"
  BY DEF PrimeAgain
<1> HIDE DEF c
<1> QED
  BY <1>2, <1>3, <1>4, <1>5, LeftUnkeyed


LEMMA PrimeLeaves ==
  ASSUME TypeOK, Keyed, Windows, NEW t \in Threads, Prime(t)
  PROVE  Left(t, rejected')
<1>1. test[t] \in TestType /\ KeyOK(t, test[t], rejected)
  BY DEF TypeOK, Keyed
<1>2. test[t].pc = "prime"
  BY DEF Prime
<1>3. CASE Live /\ test' = [test EXCEPT ![t] = Returns([test[t] EXCEPT !.access = held.token])]
  <2> DEFINE c == [test[t] EXCEPT !.access = held.token]
  <2>1. held.token \in Some
    BY DEF TypeOK
  <2>2. c \in TestType /\ c.keyed = test[t].keyed
    BY <1>1, <2>1 DEF TestType
  <2>3. test' = [test EXCEPT ![t] = Returns(c)]
    BY <1>3
  <2> HIDE DEF c
  <2> QED
    BY <2>2, <2>3, <1>2, ReturnsUnkeyed
<1>4. CASE Misses(t, "primeDrop", "primeFetch")
  <2>1. Goes(t, "primeDrop") \/ Goes(t, "primeFetch")
    BY <1>4 DEF Misses
  <2> QED
    BY <2>1, <1>2, GoesUnkeyed DEF Pcs
<1> QED
  BY <1>3, <1>4 DEF Prime


LEMMA PrimeFetchLeaves ==
  ASSUME TypeOK, Keyed, Windows, NEW t \in Threads, PrimeFetch(t)
  PROVE  Left(t, rejected')
<1>1. test[t] \in TestType /\ KeyOK(t, test[t], rejected)
  BY DEF TypeOK, Keyed
<1>2. test[t].pc = "primeFetch"
  BY DEF PrimeFetch
<1>3. CASE test' = [test EXCEPT ![t] = Returns(test[t])]
  BY <1>1, <1>2, <1>3, ReturnsUnkeyed
<1>4. ASSUME NEW k \in Tokens,
             test' = [test EXCEPT ![t] = [test[t] EXCEPT !.pc = "put", !.got = k, !.access = k]]
      PROVE  Left(t, rejected')
  <2> DEFINE c == [test[t] EXCEPT !.pc = "put", !.got = k, !.access = k]
  <2>1. c \in TestType
    BY <1>1 DEF TestType, Pcs, Some
  <2>2. c.pc # "swap" /\ c.keyed = test[t].keyed
    BY <1>1 DEF TestType
  <2>3. test' = [test EXCEPT ![t] = c]
    BY <1>4
  <2> HIDE DEF c
  <2> QED
    BY <2>1, <2>2, <2>3, <1>2, LeftUnkeyed
<1> QED
  BY <1>3, <1>4 DEF PrimeFetch


LEMMA TokenStepLeaves ==
  ASSUME TypeOK, Keyed, Windows, NEW t \in Threads, NEW a \in BOOLEAN, NEW e \in BOOLEAN, TokenStep(t, a, e)
  PROVE  Left(t, rejected')
<1>1. test[t] \in TestType /\ KeyOK(t, test[t], rejected)
  BY DEF TypeOK, Keyed
<1>2. test[t].pc = "idle"
  BY DEF TokenStep
<1> DEFINE c == [test[t] EXCEPT !.pc = IF e THEN "fetch" ELSE "reuse", !.asserts = a]
<1>3. test' = [test EXCEPT ![t] = c]
  BY DEF TokenStep
<1>4. c \in TestType
  BY <1>1 DEF TestType, Pcs
<1>5. c.pc # "swap" /\ c.keyed = test[t].keyed
  BY <1>1 DEF TestType
<1> HIDE DEF c
<1> QED
  BY <1>2, <1>3, <1>4, <1>5, LeftUnkeyed


LEMMA ReuseLeaves ==
  ASSUME TypeOK, Keyed, Windows, NEW t \in Threads, Reuse(t)
  PROVE  Left(t, rejected')
<1>1. test[t] \in TestType /\ KeyOK(t, test[t], rejected)
  BY DEF TypeOK, Keyed
<1>2. test[t].pc = "reuse"
  BY DEF Reuse
<1>3. CASE Goes(t, "answer")
  BY <1>2, <1>3, GoesUnkeyed DEF Pcs
<1>4. CASE Misses(t, "fetchDrop", "fetch")
  <2>1. Goes(t, "fetchDrop") \/ Goes(t, "fetch")
    BY <1>4 DEF Misses
  <2> QED
    BY <2>1, <1>2, GoesUnkeyed DEF Pcs
<1> QED
  BY <1>3, <1>4 DEF Reuse


LEMMA AnswerLeaves ==
  ASSUME TypeOK, Keyed, Windows, NEW t \in Threads, Answer(t)
  PROVE  Left(t, rejected')
<1>1. test[t] \in TestType /\ KeyOK(t, test[t], rejected)
  BY DEF TypeOK, Keyed
<1>2. test[t].pc = "answer"
  BY DEF Answer
<1>3. CASE Live /\ test' = [test EXCEPT ![t] = [test[t] EXCEPT !.pc = "apply", !.got = held.token]]
  <2> DEFINE c == [test[t] EXCEPT !.pc = "apply", !.got = held.token]
  <2>1. held.token \in Some
    BY DEF TypeOK
  <2>2. c \in TestType
    BY <1>1, <2>1 DEF TestType, Pcs
  <2>3. c.pc # "swap" /\ c.keyed = test[t].keyed
    BY <1>1 DEF TestType
  <2>4. test' = [test EXCEPT ![t] = c]
    BY <1>3
  <2> HIDE DEF c
  <2> QED
    BY <2>2, <2>3, <2>4, <1>2, LeftUnkeyed
<1>4. CASE Misses(t, "fetchDrop", "fetch")
  <2>1. Goes(t, "fetchDrop") \/ Goes(t, "fetch")
    BY <1>4 DEF Misses
  <2> QED
    BY <2>1, <1>2, GoesUnkeyed DEF Pcs
<1> QED
  BY <1>3, <1>4 DEF Answer


LEMMA ApplyLeaves ==
  ASSUME TypeOK, Keyed, Windows, NEW t \in Threads, Apply(t)
  PROVE  Left(t, rejected')
<1>1. test[t] \in TestType /\ KeyOK(t, test[t], rejected)
  BY DEF TypeOK, Keyed
<1>2. test[t].pc = "apply"
  BY DEF Apply
<1>3. CASE Live /\ test' = [test EXCEPT ![t] = [test[t] EXCEPT !.pc = "extract",
                       !.token = Filled(test[t].token), !.access = Filled(test[t].access)]]
  <2> DEFINE c == [test[t] EXCEPT !.pc = "extract",
                       !.token = Filled(test[t].token), !.access = Filled(test[t].access)]
  <2>1. Filled(test[t].token) \in Some /\ Filled(test[t].access) \in Some
    BY <1>1, Fields DEF TypeOK, Filled
  <2>2. c \in TestType
    BY <1>1, <2>1 DEF TestType, Pcs
  <2>3. c.pc # "swap" /\ c.keyed = test[t].keyed
    BY <1>1 DEF TestType
  <2>4. test' = [test EXCEPT ![t] = c]
    BY <1>3
  <2> HIDE DEF c
  <2> QED
    BY <2>2, <2>3, <2>4, <1>2, LeftUnkeyed
<1>4. CASE Misses(t, "applyDrop", "extract")
  <2>1. Goes(t, "applyDrop") \/ Goes(t, "extract")
    BY <1>4 DEF Misses
  <2> QED
    BY <2>1, <1>2, GoesUnkeyed DEF Pcs
<1> QED
  BY <1>3, <1>4 DEF Apply


LEMMA ExtractLeaves ==
  ASSUME TypeOK, Keyed, Windows, NEW t \in Threads, Extract(t)
  PROVE  Left(t, rejected')
<1>1. test[t] \in TestType /\ KeyOK(t, test[t], rejected)
  BY DEF TypeOK, Keyed
<1>2. PICK k \in {test[t].token, test[t].got} : test' = [test EXCEPT ![t] = Ended([test[t] EXCEPT !.token = k])]
  BY DEF Extract
<1>3. [test[t] EXCEPT !.token = k] \in TestType
  BY <1>1 DEF TestType
<1> QED
  BY <1>2, <1>3, LeftEnded


LEMMA FetchLeaves ==
  ASSUME TypeOK, Keyed, Windows, NEW t \in Threads, Fetch(t)
  PROVE  Left(t, rejected')
<1>1. test[t] \in TestType /\ KeyOK(t, test[t], rejected)
  BY DEF TypeOK, Keyed
<1>2. test[t].pc = "fetch"
  BY DEF Fetch
<1>3. ASSUME NEW k \in Tokens, test' = [test EXCEPT ![t] = [test[t] EXCEPT !.pc = "store", !.got = k]]
      PROVE  Left(t, rejected')
  <2> DEFINE c == [test[t] EXCEPT !.pc = "store", !.got = k]
  <2>1. c \in TestType
    BY <1>1 DEF TestType, Pcs, Some
  <2>2. c.pc # "swap" /\ c.keyed = test[t].keyed
    BY <1>1 DEF TestType
  <2>3. test' = [test EXCEPT ![t] = c]
    BY <1>3
  <2> HIDE DEF c
  <2> QED
    BY <2>1, <2>2, <2>3, <1>2, LeftUnkeyed
<1>4. CASE test' = [test EXCEPT ![t] = Ended(test[t])]
  BY <1>1, <1>4, LeftEnded
<1>5. CASE test' = [test EXCEPT ![t] = [test[t] EXCEPT !.pc = "mark"]]
  BY <1>2, <1>5, GoesUnkeyed DEF Pcs, Goes
<1> QED
  BY <1>3, <1>4, <1>5 DEF Fetch


LEMMA StoreLeaves ==
  ASSUME TypeOK, Keyed, Windows, NEW t \in Threads, Store(t)
  PROVE  Left(t, rejected')
<1>1. test[t] \in TestType /\ KeyOK(t, test[t], rejected)
  BY DEF TypeOK, Keyed
<1>2. test' = [test EXCEPT ![t] = Ended([test[t] EXCEPT !.token = test[t].got])]
  BY DEF Store
<1>3. [test[t] EXCEPT !.token = test[t].got] \in TestType
  BY <1>1 DEF TestType
<1> QED
  BY <1>2, <1>3, LeftEnded


LEMMA DropLeaves ==
  ASSUME TypeOK, Keyed, Windows, NEW t \in Threads, NEW from \in {"primeDrop", "fetchDrop", "applyDrop"}, NEW to \in {"primeFetch", "fetch", "extract"},
         Drop(t, from, to)
  PROVE  Left(t, rejected')
<1>1. Goes(t, to) /\ test[t].pc = from
  BY DEF Drop
<1> QED
  BY <1>1, GoesUnkeyed DEF Pcs


LEMMA SendLeaves ==
  ASSUME TypeOK, Keyed, Windows, NEW t \in Threads, NEW o \in BOOLEAN, NEW a \in BOOLEAN, NEW e \in BOOLEAN, Send(t, o, a, e)
  PROVE  Left(t, rejected')
<1>1. test[t] \in TestType /\ KeyOK(t, test[t], rejected)
  BY DEF TypeOK, Keyed
<1> DEFINE c == [test[t] EXCEPT !.pc = IF a THEN "judge" ELSE "mark", !.own = o,
          !.first = IF o THEN Bearer(test[t]) ELSE NoToken,
          !.keyed = o /\ test[t].token # NoToken,
          !.asserts = a, !.expects = e]
<1>2. test' = [test EXCEPT ![t] = c]
  BY DEF Send
<1>3. Bearer(test[t]) \in Some
  <2>1. test[t].token \in Some /\ test[t].access \in Some /\ held.token \in Some /\ NoToken \in Some
    BY <1>1, Fields DEF TypeOK, Some
  <2> QED
    BY <2>1 DEF Bearer
<1>4. c \in TestType
  <2> DEFINE p == IF a THEN "judge" ELSE "mark"
             f == IF o THEN Bearer(test[t]) ELSE NoToken
             k == o /\ test[t].token # NoToken
  <2>1. p \in Pcs /\ f \in Some /\ k \in BOOLEAN
    BY <1>3 DEF Pcs, Some
  <2> HIDE DEF p, f, k
  <2>2. [test[t] EXCEPT !.pc = p, !.own = o, !.first = f, !.keyed = k, !.asserts = a, !.expects = e] \in TestType
    BY <1>1, <2>1 DEF TestType
  <2> QED
    BY <2>2 DEF p, f, k
<1>5. /\ c.pc = (IF a THEN "judge" ELSE "mark") /\ c.asserts = a /\ c.token = test[t].token
      /\ c.first = (IF o THEN Bearer(test[t]) ELSE NoToken)
      /\ c.keyed = (o /\ test[t].token # NoToken)
  BY <1>1 DEF TestType
<1>6. c.keyed => c.first = c.token /\ c.first \in Tokens
  <2>1. test[t].token # NoToken => Bearer(test[t]) = test[t].token
    BY DEF Bearer
  <2>2. test[t].token \in Some
    BY <1>1, Fields
  <2> QED
    BY <1>5, <2>1, <2>2 DEF Some
<1>7. KeyOK(t, c, rejected')
  BY <1>5, <1>6 DEF KeyOK
<1> HIDE DEF c
<1> QED
  BY <1>2, <1>4, <1>5, <1>7, LeftBy


LEMMA MarkLeaves ==
  ASSUME TypeOK, Keyed, Windows, NEW t \in Threads, Mark(t)
  PROVE  Left(t, rejected')
<1>1. test[t] \in TestType /\ KeyOK(t, test[t], rejected)
  BY DEF TypeOK, Keyed
<1> DEFINE c == [test[t] EXCEPT !.pc = "look"]
<1>2. test' = [test EXCEPT ![t] = c] /\ test[t].pc = "mark"
  BY DEF Mark, Goes, TypeOK
<1>3. c \in TestType
  BY <1>1, Fields DEF Pcs
<1>4. c.pc = "look" /\ c.keyed = test[t].keyed /\ c.first = test[t].first /\ c.asserts = test[t].asserts
  BY <1>1 DEF TestType
<1>5. test[t].token \in Tokens => test[t].token \in rejected'
  BY TokenAssumption DEF Mark
<1>6. KeyOK(t, c, rejected')
  BY <1>1, <1>2, <1>4, <1>5 DEF KeyOK
<1> HIDE DEF c
<1> QED
  BY <1>2, <1>3, <1>4, <1>6, LeftBy


LEMMA LookLeaves ==
  ASSUME TypeOK, Keyed, Windows, NEW t \in Threads, Look(t)
  PROVE  Left(t, rejected')
<1>1. test[t] \in TestType /\ KeyOK(t, test[t], rejected)
  BY DEF TypeOK, Keyed
<1>2. test[t].pc = "look" /\ rejected' = rejected /\ now \in 0..MaxTime /\ lastClear \in 0..MaxTime
  BY TokenAssumption DEF Look, shared, TypeOK
<1>3. CASE lastClear + Debounce <= now
  <2> DEFINE c == [test[t] EXCEPT !.pc = "swap", !.at = now, !.prev = lastClear]
  <2>1. test' = [test EXCEPT ![t] = c]
    BY <1>3 DEF Look
  <2>2. c \in TestType
    BY <1>1, <1>2 DEF TestType, Pcs
  <2>3. KeyOK(t, c, rejected')
    BY <1>1, <1>2 DEF KeyOK, TestType
  <2>4. c.prev + Debounce <= c.at /\ c.at <= now
    BY <1>1, <1>2, <1>3 DEF TestType
  <2> HIDE DEF c
  <2> QED
    BY <2>1, <2>2, <2>3, <2>4 DEF Left
<1>4. CASE ~(lastClear + Debounce <= now)
  <2> DEFINE c == [test[t] EXCEPT !.pc = "judge"]
  <2>1. test' = [test EXCEPT ![t] = c]
    BY <1>4 DEF Look
  <2>2. c \in TestType /\ c.pc # "swap"
    BY <1>1, Fields DEF Pcs
  <2>3. KeyOK(t, c, rejected')
    BY <1>1, <1>2 DEF KeyOK, TestType
  <2> HIDE DEF c
  <2> QED
    BY <2>1, <2>2, <2>3, LeftBy
<1> QED
  BY <1>3, <1>4


LEMMA SwapLeaves ==
  ASSUME TypeOK, Keyed, Windows, NEW t \in Threads, Swap(t)
  PROVE  Left(t, rejected')
<1>1. test[t] \in TestType /\ KeyOK(t, test[t], rejected)
  BY DEF TypeOK, Keyed
<1> DEFINE c == [test[t] EXCEPT !.pc = IF Swaps(t) THEN "clear" ELSE "judge", !.prev = 0, !.at = 0]
<1>2. test' = [test EXCEPT ![t] = c] /\ test[t].pc = "swap" /\ rejected' = rejected
  BY DEF Swap
<1>3. 0 \in 0..MaxTime
  BY TokenAssumption
<1>4. c \in TestType /\ c.pc # "swap"
  BY <1>1, <1>3 DEF TestType, Pcs
<1>5. KeyOK(t, c, rejected')
  BY <1>1, <1>2 DEF KeyOK, TestType
<1> HIDE DEF c
<1> QED
  BY <1>2, <1>4, <1>5, LeftBy


LEMMA ClearLeaves ==
  ASSUME TypeOK, Keyed, Windows, NEW t \in Threads, Clear(t)
  PROVE  Left(t, rejected')
<1>1. test[t] \in TestType /\ KeyOK(t, test[t], rejected)
  BY DEF TypeOK, Keyed
<1> DEFINE c == [test[t] EXCEPT !.pc = "judge"]
<1>2. test' = [test EXCEPT ![t] = c] /\ test[t].pc = "clear" /\ rejected' = rejected
  BY DEF Clear, Goes, TypeOK
<1>3. c \in TestType /\ c.pc # "swap"
  BY <1>1, Fields DEF Pcs
<1>4. KeyOK(t, c, rejected')
  BY <1>1, <1>2 DEF KeyOK, TestType
<1> HIDE DEF c
<1> QED
  BY <1>2, <1>3, <1>4, LeftBy


LEMMA JudgeLeaves ==
  ASSUME TypeOK, Keyed, Windows, NEW t \in Threads, Judge(t)
  PROVE  Left(t, rejected')
<1>1. test[t] \in TestType /\ KeyOK(t, test[t], rejected)
  BY DEF TypeOK, Keyed
<1>2. test[t].pc = "judge" /\ rejected' = rejected
  BY DEF Judge, shared
<1>3. CASE ShouldAttempt(test[t])
  <2> DEFINE c == [test[t] EXCEPT !.pc = "refresh", !.attempt = test[t].attempt + 1]
  <2>1. test' = [test EXCEPT ![t] = c]
    BY <1>3 DEF Judge
  <2>2. test[t].attempt + 1 \in 0..TokenRetries
    BY <1>1, <1>3, Fields, TokenAssumption DEF ShouldAttempt
  <2>3. c \in TestType /\ c.pc # "swap"
    BY <1>1, <2>2 DEF TestType, Pcs
  <2>4. KeyOK(t, c, rejected')
    BY <1>1, <1>2 DEF KeyOK, TestType
  <2> HIDE DEF c
  <2> QED
    BY <2>1, <2>3, <2>4, LeftBy
<1>4. CASE ~ShouldAttempt(test[t])
  BY <1>1, <1>4, LeftEnded DEF Judge
<1> QED
  BY <1>3, <1>4


LEMMA RefreshBoundLeaves ==
  ASSUME TypeOK, Keyed, Windows, NEW t \in Threads, RefreshBound(t)
  PROVE  Left(t, rejected')
<1>1. test[t] \in TestType /\ KeyOK(t, test[t], rejected)
  BY DEF TypeOK, Keyed
<1>2. test[t].pc = "refresh" /\ rejected' = rejected
  BY DEF RefreshBound, shared
<1>3. CASE test' = [test EXCEPT ![t] = Ended(test[t])]
  BY <1>1, <1>3, LeftEnded
<1>4. ASSUME NEW k \in Tokens \ rejected,
             test' = [test EXCEPT ![t] = [test[t] EXCEPT !.pc = "put", !.next = "resend",
                                            !.token = k, !.access = k, !.got = k]]
      PROVE  Left(t, rejected')
  <2> DEFINE c == [test[t] EXCEPT !.pc = "put", !.next = "resend", !.token = k, !.access = k, !.got = k]
  <2>1. c \in TestType
    BY <1>1 DEF TestType, Pcs, Some
  <2>2. /\ c.pc = "put" /\ c.next = "resend" /\ c.token = k /\ c.first = test[t].first
        /\ c.keyed = test[t].keyed /\ c.asserts = test[t].asserts
    BY <1>1 DEF TestType
  <2>3. KeyOK(t, c, rejected')
    BY <1>1, <1>2, <2>2 DEF KeyOK
  <2>4. test' = [test EXCEPT ![t] = c]
    BY <1>4
  <2> HIDE DEF c
  <2> QED
    BY <2>1, <2>2, <2>3, <2>4, LeftBy
<1> QED
  BY <1>3, <1>4 DEF RefreshBound


LEMMA RefreshPrimesLeaves ==
  ASSUME TypeOK, Keyed, Windows, NEW t \in Threads, RefreshPrimes(t)
  PROVE  Left(t, rejected')
<1>1. test[t] \in TestType /\ KeyOK(t, test[t], rejected)
  BY DEF TypeOK, Keyed
<1> DEFINE c == [test[t] EXCEPT !.pc = "prime", !.next = "primed", !.access = NoToken]
<1>2. test' = [test EXCEPT ![t] = c] /\ t \notin Bound
  BY DEF RefreshPrimes
<1>3. c \in TestType /\ c.pc # "swap"
  BY <1>1 DEF TestType, Pcs, Some
<1>4. KeyOK(t, c, rejected')
  BY <1>2 DEF KeyOK
<1> HIDE DEF c
<1> QED
  BY <1>2, <1>3, <1>4, LeftBy


LEMMA PrimedLeaves ==
  ASSUME TypeOK, Keyed, Windows, NEW t \in Threads, Primed(t)
  PROVE  Left(t, rejected')
<1>1. test[t] \in TestType /\ KeyOK(t, test[t], rejected)
  BY DEF TypeOK, Keyed
<1>2. test[t].pc = "primed"
  BY DEF Primed
<1>3. CASE test[t].access = NoToken
  BY <1>1, <1>3, LeftEnded DEF Primed
<1>4. CASE test[t].access # NoToken
  <2> DEFINE c == [test[t] EXCEPT !.pc = "put", !.next = "resend", !.token = test[t].access, !.got = test[t].access]
  <2>1. test' = [test EXCEPT ![t] = c]
    BY <1>4 DEF Primed
  <2>2. c \in TestType
    BY <1>1 DEF TestType, Pcs
  <2>3. c.pc # "swap" /\ c.keyed = test[t].keyed
    BY <1>1 DEF TestType
  <2> HIDE DEF c
  <2> QED
    BY <2>1, <2>2, <2>3, <1>2, LeftUnkeyed
<1> QED
  BY <1>3, <1>4


LEMMA ResendLeaves ==
  ASSUME TypeOK, Keyed, Windows, NEW t \in Threads, Resend(t)
  PROVE  Left(t, rejected')
<1>1. test[t] \in TestType /\ KeyOK(t, test[t], rejected)
  BY DEF TypeOK, Keyed
<1>2. test[t].pc = "resend" /\ rejected' = rejected
  BY DEF Resend, shared
<1>3. CASE test' = [test EXCEPT ![t] = Ended(test[t])]
  BY <1>1, <1>3, LeftEnded
<1>4. CASE test' = [test EXCEPT ![t] = [test[t] EXCEPT !.pc = "judge", !.next = "idle"]]
  <2> DEFINE c == [test[t] EXCEPT !.pc = "judge", !.next = "idle"]
  <2>1. c \in TestType /\ c.pc # "swap"
    BY <1>1 DEF TestType, Pcs
  <2>2. KeyOK(t, c, rejected')
    BY <1>1, <1>2 DEF KeyOK, TestType
  <2>3. test' = [test EXCEPT ![t] = c]
    BY <1>4
  <2> HIDE DEF c
  <2> QED
    BY <2>1, <2>2, <2>3, LeftBy
<1> QED
  BY <1>3, <1>4 DEF Resend


LEMMA StepsLeave ==
  ASSUME TypeOK, Keyed, Windows, NEW t \in Threads, GoesOn(t) \/ Begins(t)
  PROVE  Left(t, rejected')
<1>1. CASE GoesOn(t)
  BY <1>1, PutChecksLeaves, PutSetsLeaves, PrimeLeaves, PrimeFetchLeaves, ReuseLeaves, AnswerLeaves, ApplyLeaves, ExtractLeaves, FetchLeaves, StoreLeaves, DropLeaves, MarkLeaves, LookLeaves, SwapLeaves, ClearLeaves, JudgeLeaves, RefreshBoundLeaves, RefreshPrimesLeaves, PrimedLeaves, ResendLeaves DEF GoesOn
<1>2. CASE NewTest(t) \/ PrimeAgain(t)
  BY <1>2, NewTestLeaves, PrimeAgainLeaves
<1>3. ASSUME NEW s \in Steps, TokenStep(t, s[2], s[3]) \/ Send(t, s[1], s[2], s[3])
      PROVE  Left(t, rejected')
  <2>1. s[1] \in BOOLEAN /\ s[2] \in BOOLEAN /\ s[3] \in BOOLEAN
    BY TokenAssumption
  <2> QED
    BY <1>3, <2>1, TokenStepLeaves, SendLeaves
<1> QED
  BY <1>1, <1>2, <1>3 DEF Begins

-----------------------------------------------------------------------------
LEMMA Plain ==
  ASSUME NEW t \in Threads, NEW c, test \in [Threads -> TestType], test' = [test EXCEPT ![t] = c], GotOK(c)
  PROVE  GotOK(test[t])'
BY DEF GotOK

LEMMA EndedPlain ==
  ASSUME NEW c \in TestType
  PROVE  GotOK(Ended(c)) /\ GotOK(Returns(c))
<1>1. Ended(c).pc = "idle"
  BY EndedOK
<1>2. CASE c.next = "idle"
  BY <1>1, <1>2 DEF GotOK, Returns
<1>3. CASE c.next # "idle"
  <2>1. Went(c).pc = c.next /\ c.next \in {"primed", "resend"}
    BY <1>3 DEF Went, TestType
  <2>2. Returns(c) = Went(c)
    BY <1>3 DEF Returns, Went
  <2> QED
    BY <1>1, <2>1, <2>2 DEF GotOK
<1> QED
  BY <1>2, <1>3

\* What a thread has in its hands when it is about to put it into the cache.
LEMMA StepsBear ==
  ASSUME TypeOK, Bearing, NEW t \in Threads, GoesOn(t) \/ Begins(t)
  PROVE  GotOK(test[t])'
<1> DEFINE Drops(u) == \/ Drop(u, "primeDrop", "primeFetch") \/ Drop(u, "fetchDrop", "fetch")
                       \/ Drop(u, "applyDrop", "extract")
<1>1. test[t] \in TestType /\ GotOK(test[t]) /\ test \in [Threads -> TestType]
  BY DEF TypeOK, Bearing
<1>0. ASSUME NEW c \in TestType, test' = [test EXCEPT ![t] = Ended(c)] \/ test' = [test EXCEPT ![t] = Returns(c)]
      PROVE  GotOK(test[t])'
  BY <1>0, <1>1, EndedPlain, Plain
<1>Q. ASSUME NEW c, test' = [test EXCEPT ![t] = c], c.pc \notin {"put", "set", "store"}
      PROVE  GotOK(test[t])'
  BY <1>Q, <1>1, Plain DEF GotOK
<1>2. CASE PutChecks(t)
  BY <1>1, <1>2 DEF PutChecks, Returns, Ended, Quiet, GotOK, TestType
<1>3. CASE PutSets(t)
  BY <1>1, <1>3 DEF PutSets, Returns, Ended, Quiet, GotOK, TestType
<1>4. CASE Prime(t)
  <2>1. held.token \in Some
    BY DEF TypeOK
  <2>2. [test[t] EXCEPT !.access = held.token] \in TestType
    BY <1>1, <2>1 DEF TestType
  <2>3. CASE test' = [test EXCEPT ![t] = Returns([test[t] EXCEPT !.access = held.token])]
    BY <1>0, <2>2, <2>3
  <2>4. CASE Misses(t, "primeDrop", "primeFetch")
    BY <1>1, <2>4 DEF Misses, Goes, GotOK, TestType
  <2> QED
    BY <1>4, <2>3, <2>4 DEF Prime
<1>5. CASE PrimeFetch(t)
  <2>1. ASSUME NEW k \in Tokens,
               test' = [test EXCEPT ![t] = [test[t] EXCEPT !.pc = "put", !.got = k, !.access = k]]
        PROVE  GotOK(test[t])'
    <3>1. GotOK([test[t] EXCEPT !.pc = "put", !.got = k, !.access = k])
      BY <1>1 DEF GotOK, TestType
    <3> QED
      BY <1>1, <2>1, <3>1, Plain
  <2> QED
    BY <1>0, <1>1, <1>5, <2>1 DEF PrimeFetch
<1>6. CASE Reuse(t)
  BY <1>1, <1>6 DEF Reuse, Goes, Misses, GotOK, TestType
<1>7. CASE Answer(t)
  <2>1. [test[t] EXCEPT !.pc = "apply", !.got = held.token].pc = "apply"
    BY <1>1 DEF TestType
  <2>2. CASE Misses(t, "fetchDrop", "fetch")
    BY <1>1, <2>2 DEF Misses, Goes, GotOK, TestType
  <2> QED
    BY <1>7, <1>Q, <2>1, <2>2 DEF Answer
<1>8. CASE Apply(t)
  <2>1. [test[t] EXCEPT !.pc = "extract", !.token = Filled(test[t].token), !.access = Filled(test[t].access)].pc
          = "extract"
    BY <1>1 DEF TestType
  <2>2. CASE Misses(t, "applyDrop", "extract")
    BY <1>1, <2>2 DEF Misses, Goes, GotOK, TestType
  <2> QED
    BY <1>8, <1>Q, <2>1, <2>2 DEF Apply
<1>9. CASE Extract(t)
  BY <1>1, <1>9 DEF Extract, Ended, Quiet, GotOK, TestType
<1>10. CASE Fetch(t)
  <2>1. ASSUME NEW k \in Tokens, test' = [test EXCEPT ![t] = [test[t] EXCEPT !.pc = "store", !.got = k]]
        PROVE  GotOK(test[t])'
    <3>1. GotOK([test[t] EXCEPT !.pc = "store", !.got = k])
      BY <1>1 DEF GotOK, TestType
    <3> QED
      BY <1>1, <2>1, <3>1, Plain
  <2>2. CASE test' = [test EXCEPT ![t] = [test[t] EXCEPT !.pc = "mark"]]
    BY <1>1, <2>2 DEF GotOK, TestType
  <2> QED
    BY <1>0, <1>1, <1>10, <2>1, <2>2 DEF Fetch
<1>11. CASE Store(t)
  BY <1>1, <1>11 DEF Store, Ended, Quiet, GotOK, TestType
<1>12. CASE Drops(t)
  BY <1>1, <1>12 DEF Drop, Goes, GotOK, TestType
<1>13. CASE Mark(t)
  BY <1>1, <1>13 DEF Mark, Goes, GotOK, TestType
<1>14. CASE Look(t)
  BY <1>1, <1>14 DEF Look, GotOK, TestType
<1>15. CASE Swap(t)
  BY <1>1, <1>15 DEF Swap, GotOK, TestType
<1>16. CASE Clear(t)
  BY <1>1, <1>16 DEF Clear, Goes, GotOK, TestType
<1>17. CASE Judge(t)
  BY <1>1, <1>17 DEF Judge, Ended, Quiet, GotOK, TestType
<1>18. CASE RefreshBound(t)
  <2>1. ASSUME NEW k \in Tokens,
               test' = [test EXCEPT ![t] = [test[t] EXCEPT !.pc = "put", !.next = "resend",
                                              !.token = k, !.access = k, !.got = k]]
        PROVE  GotOK(test[t])'
    <3>1. GotOK([test[t] EXCEPT !.pc = "put", !.next = "resend", !.token = k, !.access = k, !.got = k])
      BY <1>1 DEF GotOK, TestType
    <3> QED
      BY <1>1, <2>1, <3>1, Plain
  <2> QED
    BY <1>0, <1>1, <1>18, <2>1 DEF RefreshBound
<1>19. CASE RefreshPrimes(t)
  BY <1>1, <1>19 DEF RefreshPrimes, GotOK, TestType
<1>20. CASE Primed(t)
  BY <1>1, <1>20 DEF Primed, Some, Ended, Quiet, GotOK, TestType
<1>21. CASE Resend(t)
  <2>1. CASE test' = [test EXCEPT ![t] = [test[t] EXCEPT !.pc = "judge", !.next = "idle"]]
    BY <1>1, <2>1 DEF GotOK, TestType
  <2> QED
    BY <1>0, <1>1, <1>21, <2>1 DEF Resend
<1>22. CASE NewTest(t)
  BY <1>1, <1>22 DEF NewTest, Quiet, GotOK, TestType
<1>23. CASE PrimeAgain(t)
  BY <1>1, <1>23 DEF PrimeAgain, Some, GotOK, TestType
<1>24. ASSUME NEW s \in Steps, TokenStep(t, s[2], s[3]) \/ Send(t, s[1], s[2], s[3])
      PROVE  GotOK(test[t])'
  <2>1. CASE TokenStep(t, s[2], s[3])
    <3>1. [test[t] EXCEPT !.pc = IF s[3] THEN "fetch" ELSE "reuse", !.asserts = s[2]].pc \in {"fetch", "reuse"}
      BY <1>1 DEF TestType
    <3> QED
      BY <1>Q, <2>1, <3>1 DEF TokenStep
  <2>2. CASE Send(t, s[1], s[2], s[3])
    <3> DEFINE c == [test[t] EXCEPT !.pc = IF s[2] THEN "judge" ELSE "mark", !.own = s[1],
          !.first = IF s[1] THEN Bearer(test[t]) ELSE NoToken,
          !.keyed = s[1] /\ test[t].token # NoToken,
          !.asserts = s[2], !.expects = s[3]]
    <3>1. c.pc \in {"judge", "mark"}
      BY <1>1 DEF TestType
    <3>2. test' = [test EXCEPT ![t] = c]
      BY <2>2 DEF Send
    <3> HIDE DEF c
    <3> QED
      BY <1>Q, <3>1, <3>2
  <2> QED
    BY <1>24, <2>1, <2>2
<1> QED
  BY <1>2, <1>3, <1>4, <1>5, <1>6, <1>7, <1>8, <1>9, <1>10, <1>11, <1>12, <1>13, <1>14, <1>15, <1>16, <1>17, <1>18, <1>19, <1>20, <1>21, <1>22, <1>23, <1>24
  DEF GoesOn, Begins

\* What a step does to what the tests share.
LEMMA StepsShare ==
  ASSUME TypeOK, NEW t \in Threads, GoesOn(t) \/ Begins(t)
  PROVE  \/ UNCHANGED shared
         \/ PutSets(t) \/ Store(t) \/ Mark(t) \/ Swap(t) \/ Clear(t)
         \/ \E from \in {"primeDrop", "fetchDrop", "applyDrop"}, to \in {"primeFetch", "fetch", "extract"} :
              Drop(t, from, to)
<1>1. PutChecks(t) \/ PrimeFetch(t) \/ Extract(t) \/ Fetch(t) => UNCHANGED shared
  BY DEF PutChecks, PrimeFetch, Extract, Fetch
<1>2. Prime(t) \/ Reuse(t) \/ Answer(t) \/ Apply(t) => UNCHANGED shared
  BY DEF Prime, Reuse, Answer, Apply, Misses
<1>3. Look(t) \/ Judge(t) \/ RefreshBound(t) \/ RefreshPrimes(t) => UNCHANGED shared
  BY DEF Look, Judge, RefreshBound, RefreshPrimes
<1>4. Primed(t) \/ Resend(t) \/ NewTest(t) \/ PrimeAgain(t) => UNCHANGED shared
  BY DEF Primed, Resend, NewTest, PrimeAgain
<1>5. \A s \in Steps : TokenStep(t, s[2], s[3]) \/ Send(t, s[1], s[2], s[3]) => UNCHANGED shared
  BY DEF TokenStep, Send
<1> QED
  BY <1>1, <1>2, <1>3, <1>4, <1>5 DEF GoesOn, Begins

\* The types of what is shared, and that what was rejected stays so.
LEMMA StepsType ==
  ASSUME TypeOK, Bearing, NEW t \in Threads, GoesOn(t) \/ Begins(t)
  PROVE  /\ now' = now
         /\ held' \in [token : Some, over : BOOLEAN]
         /\ rejected \subseteq rejected' /\ rejected' \subseteq Tokens
         /\ lastClear' \in 0..MaxTime
         /\ clears' \in [0..MaxTime -> Nat]
<1> DEFINE Goal == /\ now' = now
                   /\ held' \in [token : Some, over : BOOLEAN]
                   /\ rejected \subseteq rejected' /\ rejected' \subseteq Tokens
                   /\ lastClear' \in 0..MaxTime
                   /\ clears' \in [0..MaxTime -> Nat]
<1>1. /\ held \in [token : Some, over : BOOLEAN] /\ rejected \subseteq Tokens
      /\ lastClear \in 0..MaxTime /\ clears \in [0..MaxTime -> Nat] /\ test[t] \in TestType
  BY DEF TypeOK
<1>2. CASE UNCHANGED shared
  BY <1>1, <1>2 DEF shared
<1>3. CASE PutSets(t) \/ Store(t)
  <2>1. test[t].got \in Some
    BY <1>1, Fields
  <2>2. held' \in [token : Some, over : BOOLEAN]
    <3>1. held' = [token |-> test[t].got, over |-> FALSE]
      BY <1>3 DEF PutSets, Store
    <3> QED
      BY <2>1, <3>1
  <2>3. UNCHANGED <<now, rejected, lastClear, clears>>
    BY <1>3 DEF PutSets, Store
  <2> QED
    BY <1>1, <2>2, <2>3
<1>4. CASE Mark(t)
  <2>1. test[t].token \in Some
    BY <1>1, Fields
  <2>2. rejected' \subseteq Tokens
    BY <1>1, <1>4, <2>1 DEF Mark, Some
  <2> QED
    BY <1>1, <1>4, <2>2 DEF Mark
<1>5. CASE Swap(t)
  <2>1. test[t].at \in 0..MaxTime
    BY <1>1, Fields
  <2>2. clears[test[t].at] + 1 \in Nat
    BY <1>1, <2>1
  <2>3. clears' \in [0..MaxTime -> Nat]
    BY <1>1, <1>5, <2>2 DEF Swap
  <2>4. lastClear' \in 0..MaxTime
    BY <1>1, <1>5, <2>1 DEF Swap
  <2> QED
    BY <1>1, <1>5, <2>3, <2>4 DEF Swap
<1>6. CASE Clear(t)
  BY <1>1, <1>6 DEF Clear, Nobody, Some
<1>7. ASSUME NEW from, NEW to, Drop(t, from, to)
      PROVE  Goal
  BY <1>1, <1>7 DEF Drop, Dropped, Nobody, Some
<1> QED
  BY <1>2, <1>3, <1>4, <1>5, <1>6, <1>7, StepsShare

\* A drop wins its window: what the winner saw, and what it leaves.
LEMMA StepsClear ==
  ASSUME TypeOK, Windows, NEW t \in Threads, GoesOn(t) \/ Begins(t)
  PROVE  \/ UNCHANGED <<lastClear, clears>>
         \/ /\ lastClear' \in 0..MaxTime
            /\ lastClear + Debounce <= lastClear' /\ lastClear' <= now
            /\ clears' = [clears EXCEPT ![lastClear'] = 1]
<1>1. CASE ~Swap(t)
  BY <1>1, StepsShare DEF PutSets, Store, Mark, Clear, Drop, shared
<1>2. CASE Swap(t) /\ ~Swaps(t)
  BY <1>2 DEF Swap
<1>3. CASE Swap(t) /\ Swaps(t)
  <2>1. /\ test[t].pc = "swap" /\ lastClear' = test[t].at /\ lastClear = test[t].prev
        /\ clears' = [clears EXCEPT ![test[t].at] = clears[test[t].at] + 1]
    BY <1>3 DEF Swap, Swaps
  <2>2. test[t].at \in 0..MaxTime /\ lastClear \in 0..MaxTime /\ clears[test[t].at] \in Nat
    BY Fields DEF TypeOK
  <2>3. lastClear + Debounce <= test[t].at /\ test[t].at <= now
    BY <2>1 DEF Windows
  <2>4. clears[test[t].at] = 0
    BY <2>2, <2>3, TokenAssumption DEF Windows
  <2> QED
    BY <2>1, <2>2, <2>3, <2>4
<1> QED
  BY <1>1, <1>2, <1>3

-----------------------------------------------------------------------------
LEMMA InvInit == Init => Inv /\ OneClearPerWindow
<1> SUFFICES ASSUME Init PROVE Inv /\ OneClearPerWindow
  OBVIOUS
<1>1. \A t \in Threads : test[t] = Quiet
  BY DEF Init
<1>2. Quiet.pc = "idle" /\ Quiet.keyed = FALSE
  BY DEF Quiet
<1>3. TypeOK
  BY QuietOK, TokenAssumption DEF Init, TypeOK, Nobody, Some
<1>4. Keyed
  BY <1>1, <1>2 DEF Keyed, KeyOK
<1>5. \A i \in 0..MaxTime : clears[i] = 0
  BY DEF Init
<1>6. Windows
  BY <1>1, <1>2, <1>5, TokenAssumption DEF Init, Windows
<1>7. Bearing
  BY <1>1, <1>2 DEF Bearing, GotOK
<1>8. OneClearPerWindow
  BY <1>5 DEF OneClearPerWindow
<1> QED
  BY <1>3, <1>4, <1>6, <1>7, <1>8 DEF Inv

LEMMA InvStep ==
  ASSUME Inv, NEW t \in Threads, GoesOn(t) \/ Begins(t)
  PROVE  Inv'
<1> USE DEF Inv
<1>1. PICK c \in TestType : /\ test' = [test EXCEPT ![t] = c]
                            /\ KeyOK(t, c, rejected')
                            /\ c.pc = "swap" => c.prev + Debounce <= c.at /\ c.at <= now
  BY StepsLeave DEF Left
<1>2. \A u \in Threads : test'[u] = IF u = t THEN c ELSE test[u]
  BY <1>1 DEF TypeOK
<1>3. now' = now /\ rejected \subseteq rejected'
  BY StepsType
<1>4. TypeOK'
  <2>1. test' \in [Threads -> TestType]
    BY <1>1 DEF TypeOK
  <2> QED
    BY <1>3, <2>1, StepsType DEF TypeOK
<1>5. Keyed'
  <2>1. ASSUME NEW u \in Threads PROVE KeyOK(u, test'[u], rejected')
    <3>1. CASE u = t
      BY <1>1, <1>2, <3>1
    <3>2. CASE u # t
      <4>1. KeyOK(u, test[u], rejected)
        BY DEF Keyed
      <4>2. KeyOK(u, test[u], rejected')
        BY <1>3, <4>1 DEF KeyOK
      <4> QED
        BY <1>2, <3>2, <4>2
    <3> QED
      BY <3>1, <3>2
  <2> QED
    BY <2>1 DEF Keyed
<1>6. Windows'
  <2>1. \A u \in Threads : test'[u].pc = "swap" => test'[u].prev + Debounce <= test'[u].at /\ test'[u].at <= now'
    BY <1>1, <1>2, <1>3 DEF Windows
  <2>2. lastClear' <= now' /\ \A i \in 0..MaxTime : clears'[i] > 0 => i <= lastClear'
    <3>1. CASE UNCHANGED <<lastClear, clears>>
      BY <1>3, <3>1 DEF Windows
    <3>2. CASE /\ lastClear' \in 0..MaxTime
               /\ lastClear + Debounce <= lastClear' /\ lastClear' <= now
               /\ clears' = [clears EXCEPT ![lastClear'] = 1]
      <4>1. lastClear \in 0..MaxTime /\ lastClear <= lastClear'
        BY <3>2, TokenAssumption DEF TypeOK
      <4>2. \A i \in 0..MaxTime : i = lastClear' \/ clears'[i] = clears[i]
        BY <3>2 DEF TypeOK
      <4> QED
        BY <1>3, <3>2, <4>1, <4>2 DEF Windows
    <3> QED
      BY <3>1, <3>2, StepsClear
  <2> QED
    BY <2>1, <2>2 DEF Windows
<1>7. Bearing'
  <2>1. GotOK(test[t])'
    BY StepsBear
  <2>2. ASSUME NEW u \in Threads PROVE GotOK(test[u])'
    BY <1>2, <2>1, <2>2 DEF Bearing, GotOK
  <2> QED
    BY <2>2 DEF Bearing
<1> QED
  BY <1>4, <1>5, <1>6, <1>7

\* Time passes, or nothing happens.
LEMMA InvTime ==
  ASSUME Inv, HeldExpires \/ Tick \/ UNCHANGED vars
  PROVE  Inv' /\ UNCHANGED <<lastClear, clears, rejected, test>>
<1> USE DEF Inv
<1>1. UNCHANGED <<lastClear, clears, rejected, test>>
  BY DEF HeldExpires, Tick, vars
<1>2. now \in Debounce..MaxTime /\ now' \in Debounce..MaxTime /\ now <= now'
  BY TokenAssumption DEF HeldExpires, Tick, vars, TypeOK
<1>3. held' \in [token : Some, over : BOOLEAN]
  BY DEF HeldExpires, Tick, vars, TypeOK
<1>4. TypeOK'
  BY <1>1, <1>2, <1>3 DEF TypeOK
<1>5. Keyed' /\ Bearing'
  BY <1>1 DEF Keyed, Bearing, KeyOK, GotOK
<1>6. Windows'
  <2>1. lastClear \in 0..MaxTime /\ now \in Nat /\ now' \in Nat
    BY <1>2, TokenAssumption DEF TypeOK
  <2>2. \A t \in Threads : test[t].at \in 0..MaxTime
    BY Fields DEF TypeOK
  <2> QED
    BY <1>1, <1>2, <2>1, <2>2 DEF Windows
<1> QED
  BY <1>1, <1>4, <1>5, <1>6

LEMMA Invariant == Spec => []Inv
<1>1. Init => Inv
  BY InvInit
<1>2. Inv /\ [Next]_vars => Inv'
  BY InvStep, InvTime DEF Next
<1> QED
  BY <1>1, <1>2, PTL DEF Spec

\* The types of the shared cache and of every test's context, whatever the
\* tests, the tokens, the retries and the window.
THEOREM TokenTypes == Spec => []TypeOK
<1>1. Inv => TypeOK
  BY DEF Inv
<1> QED
  BY <1>1, Invariant, PTL

\* invalidateCachedTokens: of any number of tests refused at once one drops
\* the cache, and the next drop looked at the clock a whole window later.
THEOREM OneDropPerWindow == Spec => []OneClearPerWindow
<1>1. Init => OneClearPerWindow
  BY InvInit
<1>2. Inv /\ OneClearPerWindow /\ [Next]_vars => OneClearPerWindow'
  <2> SUFFICES ASSUME Inv, OneClearPerWindow, [Next]_vars
               PROVE  OneClearPerWindow'
    OBVIOUS
  <2> USE DEF Inv
  <2>1. CASE UNCHANGED <<lastClear, clears>>
    BY <2>1 DEF OneClearPerWindow
  <2>2. ASSUME NEW t \in Threads, GoesOn(t) \/ Begins(t) PROVE OneClearPerWindow'
    <3>1. CASE /\ lastClear' \in 0..MaxTime
               /\ lastClear + Debounce <= lastClear' /\ lastClear' <= now
               /\ clears' = [clears EXCEPT ![lastClear'] = 1]
      <4>1. \A i \in 0..MaxTime : clears'[i] = IF i = lastClear' THEN 1 ELSE clears[i]
        BY <3>1 DEF TypeOK
      <4>2. lastClear \in 0..MaxTime /\ \A i \in 0..MaxTime : clears[i] > 0 => i + Debounce <= lastClear'
        BY <3>1, TokenAssumption DEF Windows, TypeOK
      <4>3. \A i \in 0..MaxTime : clears'[i] <= 1
        BY <4>1 DEF OneClearPerWindow
      <4>4. \A i \in 0..MaxTime : clears'[i] > 0 => i <= lastClear'
        BY <4>1, <4>2, <3>1, TokenAssumption
      <4>5. ASSUME NEW i \in 0..MaxTime, NEW j \in 0..MaxTime, i < j, clears'[i] > 0, clears'[j] > 0
            PROVE  i + Debounce <= j
        <5>1. i # lastClear'
          BY <3>1, <4>4, <4>5
        <5>2. CASE j = lastClear'
          BY <4>1, <4>2, <4>5, <5>1, <5>2
        <5>3. CASE j # lastClear'
          BY <4>1, <4>5, <5>1, <5>3 DEF OneClearPerWindow
        <5> QED
          BY <5>2, <5>3
      <4> QED
        BY <4>3, <4>5 DEF OneClearPerWindow
    <3> QED
      BY <2>1, <2>2, <3>1, StepsClear
  <2> QED
    BY <2>1, <2>2, InvTime DEF Next
<1> QED
  BY <1>1, <1>2, Invariant, PTL DEF Spec

\* The refresh of a refused step: the token it was refused with is remembered
\* before the client is asked, and never taken again for the retry.
THEOREM RetryAnother == Spec => []RetryIsOfAnother
<1>1. Inv => RetryIsOfAnother
  BY TokenAssumption DEF Inv, Keyed, KeyOK, RetryIsOfAnother
<1> QED
  BY <1>1, Invariant, PTL

\* getAccessToken's compareAndSet: no reader that saw a token expire takes a
\* newer one out of the cache; only the winner of a window does.
THEOREM OnlyTheExpired == Spec => ExpiryDropsOnlyTheExpired
<1> DEFINE Cleared == \E t \in Threads : test[t].pc = "clear" /\ test'[t].pc = "judge"
<1>1. Inv /\ [Next]_vars => [Live /\ held'.token = NoToken => Cleared]_vars
  <2> SUFFICES ASSUME Inv, Next, Live, held'.token = NoToken
               PROVE  Cleared
    BY DEF vars
  <2> USE DEF Inv
  <2>0. held.token # NoToken /\ ~held.over /\ held \in [token : Some, over : BOOLEAN]
    BY DEF Live, TypeOK
  <2>1. ~HeldExpires /\ ~Tick
    BY <2>0 DEF HeldExpires, Tick
  <2>2. PICK t \in Threads : GoesOn(t) \/ Begins(t)
    BY <2>1 DEF Next
  <2>3. test[t] \in TestType /\ GotOK(test[t])
    BY DEF TypeOK, Bearing
  <2>4. ~UNCHANGED shared /\ ~Mark(t) /\ ~Swap(t)
    BY <2>0 DEF shared, Mark, Swap
  <2>5. ~PutSets(t) /\ ~Store(t)
    BY <2>3, TokenAssumption DEF PutSets, Store, GotOK
  <2>6. ASSUME NEW from, NEW to PROVE ~Drop(t, from, to)
    BY <2>0 DEF Drop, Dropped
  <2>7. Clear(t)
    BY <2>2, <2>4, <2>5, <2>6, StepsShare
  <2>8. test[t].pc = "clear" /\ test'[t].pc = "judge"
    BY <2>3, <2>7 DEF Clear, Goes, TestType, TypeOK
  <2> QED
    BY <2>8
<1> QED
  BY <1>1, Invariant, PTL DEF Spec, ExpiryDropsOnlyTheExpired

=============================================================================
