---------------------------- MODULE CooldownConfig ----------------------------
(***************************************************************************)
(* The cool-down settings of config.json and how the gate reads them       *)
(* (internal/config/config.go; CheckGate1 in internal/gate/gate.go).       *)
(*                                                                         *)
(* A setting is a partial function from keys to whole days: the keys are   *)
(* the ecosystems and "default".  The gate turns days into a time.Duration, *)
(* a signed 64-bit count of nanoseconds; here it counts ticks, DayTicks of *)
(* them in 24 hours, and wraps at HalfModulus (2^63 in Go).                *)
(***************************************************************************)
EXTENDS Integers

CONSTANTS
  Ecosystems,
  MinCooldownDays,      \* the floor
  DefaultCooldownDays,  \* when no key says anything
  DayTicks,
  HalfModulus           \* one more than the largest Duration

ASSUME CooldownAssumption ==
  /\ "default" \notin Ecosystems
  /\ MinCooldownDays \in Nat
  /\ DefaultCooldownDays \in Nat
  /\ DefaultCooldownDays >= MinCooldownDays
  /\ DayTicks \in Nat \ {0}
  /\ HalfModulus \in Nat \ {0}

Keys == Ecosystems \cup {"default"}

IsSettings(days) ==
  DOMAIN days \subseteq Keys /\ days \in [DOMAIN days -> Int]

SetTo(days, key) == key \in DOMAIN days /\ days[key] >= 0

CooldownRaw(days, eco) ==
  IF SetTo(days, eco) THEN days[eco]
  ELSE IF SetTo(days, "default") THEN days["default"]
  ELSE DefaultCooldownDays

\* Variants named Bug... are mistakes on purpose: each replaces the definition
\* after it in one run that shows a property to fail.
BugNoFloor(days, eco) == CooldownRaw(days, eco)

Cooldown(days, eco) ==
  IF CooldownRaw(days, eco) < MinCooldownDays THEN MinCooldownDays
  ELSE CooldownRaw(days, eco)

BugStrictlyUnder(days) ==
  {k \in Keys : SetTo(days, k) /\ days[k] < MinCooldownDays - 1}

\* The keys whose value the audit log must show as rejected.
LooseningClamps(days) ==
  {k \in Keys : SetTo(days, k) /\ days[k] < MinCooldownDays}

-----------------------------------------------------------------------------
\* Two's complement: what a Duration holds after n was stored in it.
Wrapped(n) == ((n + HalfModulus) % (2 * HalfModulus)) - HalfModulus

\* time.Duration(Cooldown(eco)) * 24 * time.Hour
Window(days, eco) == Wrapped(Cooldown(days, eco) * DayTicks)

\* No setting is too large to be counted in ticks.
Fits(days) ==
  /\ DefaultCooldownDays * DayTicks < HalfModulus
  /\ \A k \in DOMAIN days : days[k] * DayTicks < HalfModulus
==============================================================================
