----------------------------- MODULE RateLimit -----------------------------
(***************************************************************************)
(* One limiter of rateLimiter.js and one key of it, an address or an       *)
(* account, over the routes that share the limiter.  A request is counted  *)
(* before its handler runs; where successes are not to count, a success    *)
(* takes its hit back when its response is finished, in whatever window    *)
(* that is.  The counts live in the process.                               *)
(***************************************************************************)
EXTENDS Integers, FiniteSets

CONSTANTS
  Max,                    \* requests let through in a window
  Window,                 \* its length, from the key's first hit
  SkipSuccessfulRequests, \* successes do not count: sign-in, the password re-check
  Routes,                 \* routes that share the limiter
  Slots,                  \* bound: requests being handled at once
  MaxRefused,             \* bound: refusals a count goes past the maximum by
  MaxTime                 \* bound: the clock

VARIABLES
  now,
  hits,         \* the key's count, of which only what is in its window counts
  reset,        \* when its window ends; none has begun when not in the future
  handling,     \* requests past the limiter, in the window they began in
  failures,     \* wrong guesses let through since the window began
  refunds       \* successes of an earlier window finished in this one

vars == <<now, hits, reset, handling, failures, refunds>>

Request == [route : Routes, window : 0..MaxTime + Window]
Free == [route |-> "none", window |-> 0]

Init ==
  /\ now = 0 /\ hits = 0 /\ reset = 0
  /\ handling = [s \in Slots |-> Free]
  /\ failures = 0 /\ refunds = 0

Expired == reset <= now
Hits == IF Expired THEN 1 ELSE hits + 1

\* The store counts first; past the maximum the request is refused, still counted.
Increment ==
  /\ hits' = Hits
  /\ reset' = IF Expired THEN now + Window ELSE reset
  /\ failures' = IF Expired THEN 0 ELSE failures
  /\ refunds' = IF Expired THEN 0 ELSE refunds

Limit(s, route) ==
  /\ handling[s] = Free /\ Hits <= Max
  /\ Increment
  /\ handling' = [handling EXCEPT ![s] = [route |-> route, window |-> reset']]
  /\ UNCHANGED now

Refuse ==
  /\ Hits > Max /\ Hits <= Max + MaxRefused
  /\ Increment
  /\ UNCHANGED <<now, handling>>

\* Mutant: it is the wrong guesses that take their hit back.
FailAndTakeBack(s) ==
  /\ handling[s] # Free
  /\ hits' = IF hits > 0 THEN hits - 1 ELSE hits
  /\ failures' = IF handling[s].window = reset THEN failures + 1 ELSE failures
  /\ handling' = [handling EXCEPT ![s] = Free]
  /\ UNCHANGED <<now, reset, refunds>>
\* The response is finished.  A wrong guess keeps its hit.
Fail(s) ==
  /\ handling[s] # Free
  /\ failures' = IF handling[s].window = reset THEN failures + 1 ELSE failures
  /\ handling' = [handling EXCEPT ![s] = Free]
  /\ UNCHANGED <<now, hits, reset, refunds>>

Decrement == IF SkipSuccessfulRequests /\ hits > 0 THEN hits - 1 ELSE hits
Succeed(s) ==
  /\ handling[s] # Free
  /\ hits' = Decrement
  /\ refunds' = IF handling[s].window # reset /\ hits' # hits THEN refunds + 1 ELSE refunds
  /\ handling' = [handling EXCEPT ![s] = Free]
  /\ UNCHANGED <<now, reset, failures>>

Tick ==
  /\ now < MaxTime /\ now' = now + 1
  /\ UNCHANGED <<hits, reset, handling, failures, refunds>>

\* The counts go with the process, and so do the requests it was handling.
Restart ==
  /\ hits' = 0 /\ reset' = 0
  /\ handling' = [s \in Slots |-> Free]
  /\ failures' = 0 /\ refunds' = 0
  /\ UNCHANGED now

Next ==
  \/ \E s \in Slots : Fail(s) \/ Succeed(s) \/ \E route \in Routes : Limit(s, route)
  \/ Refuse \/ Tick \/ Restart

Spec == Init /\ [][Next]_vars
-----------------------------------------------------------------------------
TypeOK ==
  /\ now \in 0..MaxTime /\ hits \in 0..Max + MaxRefused /\ reset \in 0..MaxTime + Window
  /\ handling \in [Slots -> Request \cup {Free}]
  /\ failures \in 0..Max + Cardinality(Slots) /\ refunds \in 0..Cardinality(Slots)

\* In one window of one process no more wrong guesses get through than the
\* maximum, over all the routes that share the limiter, but for one more for
\* each success that began in an earlier window and finished in this one
\* (limiter, loginLimiter, passwordRecheckLimiter).
GuessesAreCapped ==
  failures + Cardinality({s \in Slots : handling[s] # Free /\ handling[s].window = reset}) <= Max + refunds

\* "The ceiling only ever binds on the attack" (loginLimiter): sign-ins on
\* their way hold a hit each, so a full house of right ones refuses the next.
BindsOnlyOnGuesses == Hits > Max => failures > 0
=============================================================================
