----------------------------- MODULE TokenBucket ------------------------------
(***************************************************************************)
(* The rate governor of crates.io and RubyGems, internal/registry/         *)
(* ratelimit.go.  A process has one for each of the two and calls it once  *)
(* per resolve, one call at a time, with a context that nobody cancels.    *)
(* Time is in units of which a token takes Period to accumulate, and       *)
(* tokens are counted in the same units, so that nothing is divided.       *)
(***************************************************************************)
EXTENDS Integers, Sequences

CONSTANTS Period, Burst

ASSUME BucketAssumption == Period \in Nat \ {0} /\ Burst \in Nat \ {0}

VARIABLES
  now,    \* the clock
  tokens, \* below zero while somebody has waited for a deficit
  last,   \* up to when tokens are counted
  grants  \* history: when each call of Wait returned

bucketvars == <<tokens, last, grants>>

\* newTokenBucket starts full.
BucketInit == now = 0 /\ tokens = Burst * Period /\ last = 0 /\ grants = <<>>

\* What has accumulated since, up to the burst.
Refilled ==
  LET x == tokens + (now - last) IN
  IF now <= last THEN tokens ELSE IF x > Burst * Period THEN Burst * Period ELSE x

\* The caller that has to wait takes no token.
BugNoReservation ==
  LET wait == IF Refilled >= Period THEN 0 ELSE Period - Refilled IN
  /\ now' = now + wait
  /\ last' = now
  /\ tokens' = IF wait = 0 THEN Refilled - Period ELSE Refilled
  /\ grants' = Append(grants, now')

\* A whole token is taken; a caller that finds less sleeps for the deficit, and the
\* bucket counts from the end of that sleep on.
Wait ==
  LET wait == IF Refilled >= Period THEN 0 ELSE Period - Refilled IN
  /\ now' = now + wait
  /\ last' = now + wait
  /\ tokens' = Refilled - Period
  /\ grants' = Append(grants, now')

\* Time goes by.
Elapse(d) == now' = now + d

\* However slow or quick the calls come, any run of grants keeps to the ceiling the
\* registry publishes: one per Period, Burst of them at once (ratelimit.go:12: "a
\* resolver never bursts past the registry's published ceiling").
GrantsKeepCeiling ==
  \A i, j \in DOMAIN grants : i <= j => ((j - i + 1) - Burst) * Period <= grants[j] - grants[i]
==============================================================================
