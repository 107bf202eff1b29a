----------------------------- MODULE ConfigProofs -----------------------------
(***************************************************************************)
(* Proofs about the cool-down settings, for any ecosystems, any floor, any *)
(* settings and any size of a Duration.                                    *)
(***************************************************************************)
EXTENDS ConfigEdits, TLAPS

\* A number that fits is stored unchanged.
LEMMA WrappedFits ==
  ASSUME NEW n \in Nat, n < HalfModulus
  PROVE  Wrapped(n) = n
<1>1. HalfModulus \in Nat \ {0}
  BY CooldownAssumption
<1>2. (n + HalfModulus) % (2 * HalfModulus) = n + HalfModulus
  BY <1>1
<1> QED
  BY <1>1, <1>2 DEF Wrapped

\* What Cooldown returns is an explicit setting or the compiled default, raised
\* to the floor.
LEMMA CooldownRange ==
  ASSUME NEW d, IsSettings(d), NEW eco \in Ecosystems
  PROVE  /\ CooldownRaw(d, eco) \in Nat
         /\ \/ CooldownRaw(d, eco) = DefaultCooldownDays
            \/ \E k \in {eco, "default"} : SetTo(d, k) /\ CooldownRaw(d, eco) = d[k]
         /\ Cooldown(d, eco) \in Nat
         /\ Cooldown(d, eco) >= MinCooldownDays
         /\ Cooldown(d, eco) \in {CooldownRaw(d, eco), MinCooldownDays}
<1>1. /\ MinCooldownDays \in Nat /\ DefaultCooldownDays \in Nat
  BY CooldownAssumption
<1>2. /\ CooldownRaw(d, eco) \in Nat
      /\ \/ CooldownRaw(d, eco) = DefaultCooldownDays
         \/ \E k \in {eco, "default"} : SetTo(d, k) /\ CooldownRaw(d, eco) = d[k]
  BY <1>1 DEF IsSettings, CooldownRaw, SetTo
<1> QED
  BY <1>1, <1>2 DEF Cooldown

\* A window of at least the floor: from the range of Cooldown, and because no
\* setting that fits wraps.
LEMMA WindowAtLeastFloor ==
  ASSUME NEW d, IsSettings(d), Fits(d), NEW eco \in Ecosystems
  PROVE  Window(d, eco) >= MinCooldownDays * DayTicks
<1> DEFINE c == Cooldown(d, eco)
<1>1. /\ MinCooldownDays \in Nat /\ DefaultCooldownDays \in Nat
      /\ DefaultCooldownDays >= MinCooldownDays /\ DayTicks \in Nat \ {0}
      /\ HalfModulus \in Nat \ {0}
  BY CooldownAssumption
<1>2. c \in Nat /\ c >= MinCooldownDays
  BY CooldownRange
<1>3. MinCooldownDays * DayTicks <= DefaultCooldownDays * DayTicks
  BY <1>1
<1>4. DefaultCooldownDays * DayTicks < HalfModulus
  BY DEF Fits
<1>5. c * DayTicks < HalfModulus
  <2>1. CASE c = MinCooldownDays
    BY <1>1, <1>3, <1>4, <2>1
  <2>2. CASE c = CooldownRaw(d, eco)
    <3>1. CASE CooldownRaw(d, eco) = DefaultCooldownDays
      BY <1>4, <2>2, <3>1
    <3>2. ASSUME NEW k \in {eco, "default"}, SetTo(d, k), CooldownRaw(d, eco) = d[k]
          PROVE  c * DayTicks < HalfModulus
      BY <2>2, <3>2 DEF Fits, SetTo
    <3> QED
      BY <3>1, <3>2, CooldownRange
  <2> QED
    BY <2>1, <2>2, CooldownRange
<1>6. c * DayTicks \in Nat /\ MinCooldownDays * DayTicks <= c * DayTicks
  BY <1>1, <1>2
<1>7. Window(d, eco) = c * DayTicks
  BY <1>5, <1>6, WrappedFits DEF Window
<1> QED
  BY <1>6, <1>7

-----------------------------------------------------------------------------
\* After any edits and loads, config.json, the last load and its rows are of their types:
\* the file maps keys to days, and every row names a key and the days it asked for.
THEOREM TypeInvariant == Spec => []TypeOK
<1>0. IsSettings(CompiledSettings)
  BY CooldownAssumption DEF IsSettings, CompiledSettings, Keys
<1>1. Init => TypeOK
  BY <1>0 DEF Init, TypeOK
<1>2. TypeOK /\ [Next]_vars => TypeOK'
  <2> SUFFICES ASSUME TypeOK, [Next]_vars PROVE TypeOK'
    OBVIOUS
  <2>1. ASSUME NEW k \in Keys, NEW n \in Values, SetKey(k, n) PROVE TypeOK'
    <3>1. n \in Int
      BY ValuesAssumption
    <3>2. IsSettings(days')
      BY <2>1, <3>1 DEF SetKey, TypeOK, IsSettings
    <3> QED
      BY <2>1, <3>2 DEF SetKey, TypeOK
  <2>2. ASSUME NEW k \in Keys, RemoveKey(k) PROVE TypeOK'
    <3>1. IsSettings(days')
      BY <2>2 DEF RemoveKey, TypeOK, IsSettings
    <3> QED
      BY <2>2, <3>1 DEF RemoveKey, TypeOK
  <2>3. CASE LoadAndAudit
    <3>1. \A k \in LooseningClamps(days) : <<k, days[k]>> \in Keys \X Int
      BY DEF LooseningClamps, SetTo, TypeOK, IsSettings
    <3> QED
      BY <2>3, <3>1 DEF LoadAndAudit, TypeOK
  <2>4. CASE UNCHANGED vars
    BY <2>4 DEF vars, TypeOK, IsSettings
  <2> QED
    BY <2>1, <2>2, <2>3, <2>4 DEF Next
<1> QED
  BY <1>1, <1>2, PTL DEF Spec

\* For every history of edits, every ecosystem is gated by at least the floor,
\* unless a setting is too large for a Duration.
THEOREM FloorAlwaysHolds == Spec => []FloorHolds
<1>1. TypeOK => FloorHolds
  BY WindowAtLeastFloor DEF TypeOK, FloorHolds
<1> QED
  BY <1>1, TypeInvariant, PTL

\* The rows an invocation writes cover every ecosystem it gates by another value
\* than the file asks for.
THEOREM ClampsAlwaysTraced == Spec => []ClampsAreTraced
<1> DEFINE Traced == logged => reported = {<<k, loaded[k]>> : k \in LooseningClamps(loaded)}
<1>0. IsSettings(CompiledSettings) /\ LooseningClamps(CompiledSettings) = {}
  BY CooldownAssumption DEF IsSettings, CompiledSettings, Keys, LooseningClamps, SetTo
<1>1. Init => Traced
  BY <1>0 DEF Init
<1>2. Traced /\ [Next]_vars => Traced'
  <2>1. CASE UNCHANGED <<loaded, reported, logged>>
    BY <2>1
  <2>2. CASE LoadAndAudit
    <3> SUFFICES ASSUME logged' PROVE Traced'
      OBVIOUS
    <3>1. reported' = {<<k, days[k]>> : k \in LooseningClamps(days)}
      BY <2>2 DEF LoadAndAudit
    <3>2. loaded' = days
      BY <2>2 DEF LoadAndAudit
    <3> QED
      BY <3>1, <3>2
  <2> QED
    BY <2>1, <2>2 DEF Next, vars, SetKey, RemoveKey
<1>3. TypeOK /\ Traced => ClampsAreTraced
  <2> SUFFICES ASSUME TypeOK, Traced, logged, NEW eco \in Ecosystems,
                      Cooldown(loaded, eco) # CooldownRaw(loaded, eco)
               PROVE  \E k \in {eco, "default"} : <<k, CooldownRaw(loaded, eco)>> \in reported
    BY DEF ClampsAreTraced
  <2>1. CooldownRaw(loaded, eco) < MinCooldownDays
    BY DEF Cooldown
  <2>2. CooldownRaw(loaded, eco) # DefaultCooldownDays
    BY <2>1, CooldownAssumption
  <2>3. PICK k \in {eco, "default"} : SetTo(loaded, k) /\ CooldownRaw(loaded, eco) = loaded[k]
    BY <2>2, CooldownRange DEF TypeOK
  <2>4. k \in LooseningClamps(loaded)
    BY <2>1, <2>3 DEF LooseningClamps, Keys
  <2> QED
    BY <2>3, <2>4
<1> QED
  BY <1>1, <1>2, <1>3, TypeInvariant, PTL DEF Spec
==============================================================================
