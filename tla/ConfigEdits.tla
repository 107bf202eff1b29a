----------------------------- MODULE ConfigEdits -----------------------------
(***************************************************************************)
(* config.json is a file people edit: keys are set, changed and removed    *)
(* between invocations of penrush.  Each invocation loads the file, logs a *)
(* "policy_changed" row for every setting under the floor (best effort,    *)
(* auditCooldownClamps in internal/cli/check.go) and gates with what it    *)
(* loaded.                                                                 *)
(***************************************************************************)
EXTENDS CooldownConfig

CONSTANT Values   \* the day counts an edit may write

ASSUME ValuesAssumption == Values \subseteq Int

VARIABLES
  days,      \* the cool-down settings in config.json
  loaded,    \* what the last invocation loaded
  reported,  \* the policy_changed rows it wrote: keys and rejected values
  logged     \* FALSE if an append failed on the way

vars == <<days, loaded, reported, logged>>

BugOtherKey == [k \in {"fallback"} |-> DefaultCooldownDays]

\* A config without "cooldown_days" is loaded as {"default": 14}.
CompiledSettings == [k \in {"default"} |-> DefaultCooldownDays]

Init ==
  /\ days = CompiledSettings
  /\ loaded = CompiledSettings
  /\ reported = {}
  /\ logged = TRUE

SetKey(k, n) ==
  /\ days' = [j \in DOMAIN days \cup {k} |-> IF j = k THEN n ELSE days[j]]
  /\ UNCHANGED <<loaded, reported, logged>>

RemoveKey(k) ==
  /\ days' = [j \in DOMAIN days \ {k} |-> days[j]]
  /\ UNCHANGED <<loaded, reported, logged>>

\* "written" are the rows whose append succeeded.
LoadAndAudit ==
  LET rows == {<<k, days[k]>> : k \in LooseningClamps(days)} IN
  \E written \in SUBSET rows :
    /\ loaded' = days
    /\ reported' = written
    /\ logged' = (written = rows)
    /\ UNCHANGED days

Next ==
  \/ \E k \in Keys, n \in Values : SetKey(k, n)
  \/ \E k \in Keys : RemoveKey(k)
  \/ LoadAndAudit

Spec == Init /\ [][Next]_vars

-----------------------------------------------------------------------------
TypeOK ==
  /\ IsSettings(days)
  /\ IsSettings(loaded)
  /\ reported \subseteq Keys \X Int
  /\ logged \in BOOLEAN

\* Whatever mixture of keys the file was edited into, no ecosystem is gated by a
\* window shorter than the floor, as long as the settings fit a Duration.
FloorHolds ==
  Fits(loaded) =>
    \A eco \in Ecosystems : Window(loaded, eco) >= MinCooldownDays * DayTicks

\* A setting under the floor is never traceless: if an ecosystem is gated by
\* another value than the file asks for, the log names a key with that value
\* (the ecosystem's own or "default"), unless the append itself failed.
ClampsAreTraced ==
  logged => \A eco \in Ecosystems :
    Cooldown(loaded, eco) # CooldownRaw(loaded, eco) =>
      \E k \in {eco, "default"} : <<k, CooldownRaw(loaded, eco)>> \in reported

\* config.go: "config may tighten the gate (raise the cooldown) but may never
\* loosen it below the floor".
NeverBelowFloor ==
  \A eco \in Ecosystems : Window(loaded, eco) >= MinCooldownDays * DayTicks
==============================================================================
