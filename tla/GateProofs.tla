------------------------------ MODULE GateProofs ------------------------------
(***************************************************************************)
(* Proofs about GatePipeline, for any number of checks, versions and edits *)
(* and any length of time.                                                 *)
(*                                                                         *)
(* The invariant Inv has two halves that need each other.  WorldOK says    *)
(* that the files are well formed and that authentic cache entries are     *)
(* true; CheckOK says of each check, at each of its steps, what the        *)
(* verdicts, rows and exit code it holds are worth.  An entry is true      *)
(* because the check that puts it there still holds the registry's answer; *)
(* a verdict from the cache is sound because the entry is true.            *)
(***************************************************************************)
EXTENDS GatePipeline, TLAPS

Decisions == {"none", "pass", "block", "override_used"}
Reasons == {"none", "override", "cache", "live", "error", "skipped", "scan"}
PCs == {"idle", "config", "overrides", "override", "cache", "drop", "resolve", "put",
        "audit1", "gate8", "audit8", "done"}

VerdictType == [gate : Decisions, by : Reasons, at : Int]
RowType == {"config", "G1", "G8"} \X (Decisions \cup {"policy_changed"})

CheckType ==
  [pc : PCs, request : Requests \cup {Latest}, days : Nat,
   key : CacheKeys \cup {FreshKey}, entries : Entries, g1at : Nat,
   g1 : VerdictType, g8 : VerdictType, found : Nat,
   rows : SUBSET RowType, exit : {"none", "allow", "block"}]

EntryType == [at : Int, expires : Int, key : CacheKeys \cup {FreshKey, "foreign"}]

\* The files, the registry and the clock.
WorldOK ==
  /\ now \in 0..MaxTime
  /\ published \in Seq(Nat) /\ Len(published) <= MaxVersion
  /\ config \in {Unreadable} \cup [readable : {TRUE}, raw : Int, key : CacheKeys]
  /\ overrides \in [parses : BOOLEAN, entries : Entries]
  /\ cache \in [Requests -> SUBSET EntryType]
  /\ CacheTellsTruth

\* What Gate 1 knows of the version it was asked about.
Mature(m) ==
  m.g1.gate = "pass" /\ m.request # Latest =>
    /\ m.request \in DOMAIN published
    /\ m.g1.at - WholeSeconds(published[m.request]) >= MinCooldownDays * Day

Found(m) ==
  m.pc = "put" /\ m.request # Latest =>
    m.request \in DOMAIN published /\ m.found = published[m.request]

\* What Gate 8 and the audit rows add, step by step.
Rows(m) ==
  /\ m.pc \in {"put", "audit1"} => m.g1.gate # "none"
  /\ m.pc \in {"gate8", "audit8"} => m.exit # "none"
  /\ m.pc \in {"gate8", "audit8", "done"} /\ m.exit = "allow" =>
       m.g1.gate \in {"pass", "override_used"} /\ <<"G1", m.g1.gate>> \in m.rows

Scanned(m) ==
  /\ m.pc \notin {"audit8", "done"} => m.g8.gate = "none"
  /\ m.pc = "audit8" =>
       \/ m.g8.gate = "block"
       \/ m.g8.gate = "pass" /\ m.g1.gate = "block"
       \/ m.g8.gate \in {"pass", "override_used"}
          /\ (m.request \in Remote => m.g8.by = "override")

Vetted(m) ==
  m.pc = "done" /\ m.exit = "allow" =>
    /\ m.g8.gate \in {"none", "pass", "override_used"}
    /\ m.g8.gate # "none" => <<"G8", m.g8.gate>> \in m.rows
    /\ m.request \in Remote /\ m.g8.gate # "none" => m.g8.by = "override"

CheckOK(m) ==
  /\ m \in CheckType
  /\ m.days >= MinCooldownDays
  /\ m.pc # "idle" => m.request \in Requests
  /\ Mature(m) /\ Found(m) /\ Rows(m) /\ Scanned(m) /\ Vetted(m)

Inv == WorldOK /\ check \in [Checks -> CheckType] /\ \A c \in Checks : CheckOK(check[c])

-----------------------------------------------------------------------------
(* Arithmetic. *)

\* Cutting to seconds never moves a time forward.
LEMMA WholeSecondsFacts ==
  ASSUME NEW t \in Int
  PROVE  WholeSeconds(t) \in Int /\ WholeSeconds(t) <= t
<1>1. Second \in Nat /\ Second > 0
  BY PipelineAssumption
<1>2. t \div Second \in Int /\ t % Second \in 0..Second-1 /\ t = Second * (t \div Second) + (t % Second)
  BY <1>1
<1> QED
  BY <1>1, <1>2 DEF WholeSeconds

LEMMA DaysMonotone ==
  ASSUME NEW d \in Nat, d >= MinCooldownDays
  PROVE  d * Day \in Nat /\ d * Day >= MinCooldownDays * Day
BY PipelineAssumption

LEMMA CooldownFacts ==
  ASSUME NEW raw \in Int
  PROVE  Cooldown(raw) \in Nat /\ Cooldown(raw) >= MinCooldownDays
BY PipelineAssumption DEF Cooldown

LEMMA KeyFacts == FreshKey \notin CacheKeys /\ "foreign" \notin CacheKeys \cup {FreshKey}
BY PipelineAssumption DEF FreshKey

\* A request with a version is for that version.
LEMMA RequestFacts ==
  ASSUME NEW r \in Requests \cup {Latest}, r # Latest
  PROVE  r \in Requests \cap Versions /\ Resolved(r) = r
BY PipelineAssumption DEF Versions, Resolved

-----------------------------------------------------------------------------
(* Steps of checks. *)

\* One check moves on, and leaves the files in order.
LEMMA WorldMoves ==
  ASSUME Inv, WorldOK', NEW c \in Checks, NEW m, CheckOK(m), Becomes(c, m),
         published' = published
  PROVE  Inv'
<1>1. check' \in [Checks -> CheckType]
  BY DEF Inv, Becomes, CheckOK
<1>2. ASSUME NEW d \in Checks PROVE CheckOK(check'[d])
  BY DEF Inv, Becomes
<1>3. ASSUME NEW d \in Checks PROVE CheckOK(check[d])'
  BY <1>2 DEF CheckOK, Mature, Found, Rows, Scanned, Vetted
<1> QED
  BY <1>1, <1>3 DEF Inv

\* One check moves on, the rest of the world stands still.
LEMMA CheckMoves ==
  ASSUME Inv, NEW c \in Checks, NEW m, CheckOK(m), Becomes(c, m),
         UNCHANGED <<now, published, config, overrides, cache>>
  PROVE  Inv'
<1>1. WorldOK'
  BY DEF Inv, WorldOK, CacheTellsTruth
<1> QED
  BY <1>1, WorldMoves

LEMMA Facts ==
  ASSUME Inv, NEW c \in Checks
  PROVE  check[c] \in CheckType /\ CheckOK(check[c]) /\ WorldOK
BY DEF Inv

LEMMA ClockFacts == ASSUME Inv PROVE now \in Nat
BY PipelineAssumption DEF Inv, WorldOK

\* A check that has nothing loaded: before its start, at its start, after its exit.
LEMMA IdleFacts ==
  /\ Idle \in CheckType
  /\ Idle.days >= MinCooldownDays
  /\ Idle.pc = "idle" /\ Idle.request = Latest /\ Idle.exit = "none"
  /\ Idle.g1.gate = "none" /\ Idle.g8.gate = "none"
<1>1. NoVerdict \in VerdictType /\ NoVerdict.gate = "none"
  BY DEF NoVerdict, VerdictType, Decisions, Reasons
<1>2. {} \in Entries
  BY DEF Entries
<1>3. {} \in SUBSET RowType
  OBVIOUS
<1>4. DefaultCooldownDays \in Nat /\ DefaultCooldownDays >= MinCooldownDays
  BY PipelineAssumption
<1> HIDE DEF NoVerdict, Entries
<1>5. Idle \in CheckType
  BY <1>1, <1>2, <1>3, <1>4 DEF Idle, CheckType, PCs
<1> QED
  BY <1>1, <1>4, <1>5 DEF Idle

LEMMA InitInv == Init => Inv
<1> SUFFICES ASSUME Init PROVE Inv
  OBVIOUS
<1>1. CheckOK(Idle)
  BY IdleFacts DEF CheckOK, Mature, Found, Rows, Scanned, Vetted
<1>2. WorldOK
  <2>1. config \in [readable : {TRUE}, raw : Int, key : CacheKeys]
    BY PipelineAssumption DEF Init, Readable
  <2>2. overrides \in [parses : BOOLEAN, entries : Entries]
    BY DEF Init, Store, Entries
  <2>3. published \in Seq(Nat) /\ Len(published) <= MaxVersion
    BY PipelineAssumption DEF Init
  <2>4. cache \in [Requests -> SUBSET EntryType]
    BY DEF Init
  <2>5. CacheTellsTruth
    BY DEF Init, CacheTellsTruth
  <2>6. now \in 0..MaxTime
    BY PipelineAssumption DEF Init
  <2> QED
    BY <2>1, <2>2, <2>3, <2>4, <2>5, <2>6 DEF WorldOK
<1> QED
  BY <1>1, <1>2, IdleFacts DEF Inv, Init

LEMMA StartInv ==
  ASSUME Inv, NEW c \in Checks, NEW r \in Requests, Start(c, r) PROVE Inv'
<1> DEFINE m == [Idle EXCEPT !.pc = "config", !.request = r]
<1>1. m \in CheckType
  BY IdleFacts DEF CheckType, PCs
<1>2. m.pc = "config" /\ m.exit = "none" /\ m.g1.gate = "none" /\ m.g8.gate = "none"
      /\ m.days >= MinCooldownDays
  BY IdleFacts DEF CheckType
<1>3. m.request = r
  BY IdleFacts DEF CheckType
<1> HIDE DEF m
<1>4. CheckOK(m)
  BY <1>1, <1>2, <1>3 DEF CheckOK, Mature, Found, Rows, Scanned, Vetted
<1>5. Becomes(c, m)
  BY DEF Start, m
<1> QED
  BY <1>4, <1>5, CheckMoves DEF Start

\* A check ends: its exit code lets the install go on only after what the gates
\* and their rows allow.
LEMMA ExitsInv ==
  ASSUME Inv, NEW c \in Checks, NEW n \in CheckType, NEW code \in {"allow", "block"},
         n.request \in Requests, Mature(n),
         code = "allow" =>
           /\ n.g1.gate \in {"pass", "override_used"} /\ <<"G1", n.g1.gate>> \in n.rows
           /\ n.g8.gate \in {"none", "pass", "override_used"}
           /\ n.g8.gate # "none" => <<"G8", n.g8.gate>> \in n.rows
           /\ n.request \in Remote /\ n.g8.gate # "none" => n.g8.by = "override",
         Exits(c, n, code),
         UNCHANGED <<now, published, config, overrides, cache>>
  PROVE  Inv'
<1> DEFINE m == [Idle EXCEPT !.pc = "done", !.request = n.request, !.g1 = n.g1,
                             !.g8 = n.g8, !.rows = n.rows, !.exit = code]
<1>1. m \in CheckType
  BY IdleFacts DEF CheckType, PCs
<1>2. m.pc = "done" /\ m.request = n.request /\ m.g1 = n.g1 /\ m.g8 = n.g8
      /\ m.rows = n.rows /\ m.exit = code /\ m.days >= MinCooldownDays
  BY IdleFacts DEF CheckType
<1>3. Becomes(c, m)
  BY DEF Exits
<1> HIDE DEF m
<1>4. CheckOK(m)
  BY <1>1, <1>2 DEF CheckOK, Mature, Found, Rows, Scanned, Vetted
<1> QED
  BY <1>3, <1>4, CheckMoves

LEMMA LoadConfigInv ==
  ASSUME Inv, NEW c \in Checks, LoadConfig(c) PROVE Inv'
<1> DEFINE me  == check[c]
           raw == IF config.readable THEN config.raw ELSE DefaultCooldownDays
           key == IF config.readable THEN config.key ELSE FreshKey
<1>0. me \in CheckType /\ CheckOK(me) /\ WorldOK
  BY Facts
<1>1. raw \in Int /\ key \in CacheKeys \cup {FreshKey}
  <2>1. CASE config = Unreadable
    BY <2>1, PipelineAssumption DEF Unreadable
  <2>2. CASE config \in [readable : {TRUE}, raw : Int, key : CacheKeys]
    BY <2>2
  <2> QED
    BY <1>0, <2>1, <2>2 DEF WorldOK
<1>2. PICK rows \in SUBSET {<<"config", "policy_changed">>} :
        Becomes(c, [me EXCEPT !.pc = "overrides", !.days = Cooldown(raw), !.key = key,
                              !.rows = rows])
  BY DEF LoadConfig
<1> DEFINE m == [me EXCEPT !.pc = "overrides", !.days = Cooldown(raw), !.key = key,
                           !.rows = rows]
<1>3. Cooldown(raw) \in Nat /\ Cooldown(raw) >= MinCooldownDays
  BY <1>1, CooldownFacts
<1>4. me.pc = "config"
  BY DEF LoadConfig, At
<1> HIDE DEF raw, key
<1>5. m \in CheckType
  <2>1. rows \in SUBSET RowType
    BY <1>2 DEF RowType
  <2> QED
    BY <1>0, <1>1, <1>3, <2>1 DEF CheckType, PCs
<1>6. CheckOK(m)
  BY <1>0, <1>3, <1>4, <1>5 DEF CheckOK, CheckType, Mature, Found, Rows, Scanned, Vetted
<1> HIDE DEF m
<1>7. Becomes(c, m)
  BY <1>2 DEF m
<1> QED
  BY <1>6, <1>7, CheckMoves DEF LoadConfig

LEMMA LoadOverridesInv ==
  ASSUME Inv, NEW c \in Checks, LoadOverrides(c) PROVE Inv'
<1> DEFINE me == check[c]
<1>0. me \in CheckType /\ CheckOK(me) /\ WorldOK /\ me.pc = "overrides"
  BY Facts DEF LoadOverrides, At
<1>1. CASE overrides.parses
  <2> DEFINE m == [me EXCEPT !.pc = "override", !.entries = overrides.entries]
  <2>1. m \in CheckType
    BY <1>0 DEF CheckType, PCs, WorldOK
  <2>2. CheckOK(m)
    BY <1>0, <2>1 DEF CheckOK, CheckType, Mature, Found, Rows, Scanned, Vetted
  <2> HIDE DEF m
  <2>3. Becomes(c, m)
    BY <1>1 DEF LoadOverrides, m
  <2> QED
    BY <2>2, <2>3, CheckMoves DEF LoadOverrides
<1>2. CASE ~overrides.parses
  <2>1. PICK rows \in {me.rows, me.rows \cup {<<"G1", "block">>}} :
          Exits(c, [me EXCEPT !.rows = rows], "block")
    BY <1>2 DEF LoadOverrides
  <2> DEFINE n == [me EXCEPT !.rows = rows]
  <2>2. rows \in SUBSET RowType
    BY <1>0, <2>1 DEF CheckType, RowType, Decisions
  <2>3. n \in CheckType /\ n.request \in Requests /\ Mature(n)
    BY <1>0, <2>2 DEF CheckOK, CheckType, Mature
  <2> HIDE DEF n
  <2>4. Exits(c, n, "block")
    BY <2>1 DEF n
  <2> QED
    BY <2>3, <2>4, ExitsInv DEF LoadOverrides
<1> QED
  BY <1>1, <1>2

LEMMA G1OverrideInv ==
  ASSUME Inv, NEW c \in Checks, G1Override(c) PROVE Inv'
<1> DEFINE me == check[c]
<1>0. me \in CheckType /\ CheckOK(me) /\ me.pc = "override"
  BY Facts DEF G1Override, At
<1> now \in Nat
  BY ClockFacts
<1>1. CASE AppliesTo(me.entries, me.request, now)
  <2> DEFINE v == Verdict("override_used", "override", now)
             m == [me EXCEPT !.pc = "audit1", !.g1at = now, !.g1 = v]
  <2>1. v \in VerdictType /\ v.gate = "override_used"
    BY <1>0 DEF Verdict, VerdictType, Decisions, Reasons
  <2> HIDE DEF v
  <2>2. m \in CheckType
    BY <1>0, <2>1 DEF CheckType, PCs
  <2>3. CheckOK(m)
    BY <1>0, <2>1, <2>2 DEF CheckOK, CheckType, Mature, Found, Rows, Scanned, Vetted
  <2> HIDE DEF m
  <2>4. Becomes(c, m)
    BY <1>1 DEF G1Override, m, v
  <2> QED
    BY <2>3, <2>4, CheckMoves DEF G1Override
<1>2. CASE ~AppliesTo(me.entries, me.request, now)
  <2> DEFINE m == [me EXCEPT !.pc = "cache", !.g1at = now]
  <2>1. m \in CheckType
    BY <1>0 DEF CheckType, PCs
  <2>2. CheckOK(m)
    BY <1>0, <2>1 DEF CheckOK, CheckType, Mature, Found, Rows, Scanned, Vetted
  <2> HIDE DEF m
  <2>3. Becomes(c, m)
    BY <1>2 DEF G1Override, m
  <2> QED
    BY <2>2, <2>3, CheckMoves DEF G1Override
<1> QED
  BY <1>1, <1>2

\* A verdict over a time that is no later than the publication's second passes
\* only what is at least the floor old.
LEMMA AgeVerdictFacts ==
  ASSUME NEW m \in CheckType, NEW at \in Int, NEW by \in Reasons,
         m.days >= MinCooldownDays
  PROVE  /\ AgeVerdict(m, at, by) \in VerdictType
         /\ AgeVerdict(m, at, by).gate \in {"pass", "block"}
         /\ AgeVerdict(m, at, by).gate = "pass" =>
              AgeVerdict(m, at, by).at - at >= MinCooldownDays * Day
<1>1. m.g1at \in Int /\ m.days \in Nat
  BY DEF CheckType
<1>2. m.days * Day \in Nat /\ m.days * Day >= MinCooldownDays * Day
  BY <1>1, DaysMonotone
<1>3. MinCooldownDays * Day \in Nat
  BY PipelineAssumption
<1>4. AgeVerdict(m, at, by) =
        [gate |-> IF m.g1at - at >= m.days * Day THEN "pass" ELSE "block",
         by |-> by, at |-> m.g1at]
  BY DEF AgeVerdict, Verdict
<1>5. CASE m.g1at - at >= m.days * Day
  <2>1. AgeVerdict(m, at, by) = [gate |-> "pass", by |-> by, at |-> m.g1at]
    BY <1>4, <1>5
  <2>2. m.g1at - at >= MinCooldownDays * Day
    BY <1>1, <1>2, <1>3, <1>5
  <2> QED
    BY <1>1, <2>1, <2>2 DEF VerdictType, Decisions
<1>6. CASE ~(m.g1at - at >= m.days * Day)
  <2>1. AgeVerdict(m, at, by) = [gate |-> "block", by |-> by, at |-> m.g1at]
    BY <1>4, <1>6
  <2> QED
    BY <1>1, <2>1 DEF VerdictType, Decisions
<1> QED
  BY <1>5, <1>6

LEMMA CacheHitInv ==
  ASSUME Inv, NEW c \in Checks, CacheHit(c) PROVE Inv'
<1> DEFINE me == check[c]
<1>0. me \in CheckType /\ CheckOK(me) /\ WorldOK /\ me.pc = "cache"
  BY Facts DEF CacheHit, At
<1>1. PICK entry \in cache[me.request] :
        /\ Live(me, entry)
        /\ Becomes(c, [me EXCEPT !.pc = "audit1", !.g1 = AgeVerdict(me, entry.at, "cache")])
  BY DEF CacheHit
<1> DEFINE v == AgeVerdict(me, entry.at, "cache")
           m == [me EXCEPT !.pc = "audit1", !.g1 = v]
<1>2. me.request \in Requests /\ entry \in EntryType
  BY <1>0, <1>1 DEF CheckOK, WorldOK
<1>3. entry.at \in Int /\ entry.key \in CacheKeys
  BY <1>0, <1>1, <1>2 DEF EntryType, CheckType, Live
<1>4. /\ v \in VerdictType /\ v.gate \in {"pass", "block"}
      /\ v.gate = "pass" => v.at - entry.at >= MinCooldownDays * Day
  BY <1>0, <1>3, AgeVerdictFacts DEF CheckOK, Reasons
<1>5. me.request # Latest =>
        me.request \in DOMAIN published /\ entry.at = WholeSeconds(published[me.request])
  <2> SUFFICES ASSUME me.request # Latest
               PROVE  me.request \in DOMAIN published
                      /\ entry.at = WholeSeconds(published[me.request])
    OBVIOUS
  <2>1. me.request \in Requests \cap Versions
    BY <1>2, RequestFacts
  <2>2. Authentic(entry)
    BY <1>3, KeyFacts DEF Authentic
  <2> QED
    BY <1>0, <1>1, <2>1, <2>2 DEF WorldOK, CacheTellsTruth
<1> HIDE DEF v
<1>6. m \in CheckType
  BY <1>0, <1>4 DEF CheckType, PCs
<1>7. CheckOK(m)
  BY <1>0, <1>4, <1>5, <1>6 DEF CheckOK, CheckType, Mature, Found, Rows, Scanned, Vetted
<1> HIDE DEF m
<1>8. Becomes(c, m)
  BY <1>1 DEF m, v
<1> QED
  BY <1>7, <1>8, CheckMoves DEF CacheHit

LEMMA CacheMissInv ==
  ASSUME Inv, NEW c \in Checks, CacheMiss(c) PROVE Inv'
<1> DEFINE me == check[c]
<1>0. me \in CheckType /\ CheckOK(me) /\ me.pc = "cache"
  BY Facts DEF CacheMiss, At
<1>1. PICK pc \in {"drop", "resolve"} : Becomes(c, [me EXCEPT !.pc = pc])
  BY DEF CacheMiss
<1> DEFINE m == [me EXCEPT !.pc = pc]
<1>2. m \in CheckType
  BY <1>0, <1>1 DEF CheckType, PCs
<1>3. CheckOK(m)
  BY <1>0, <1>1, <1>2 DEF CheckOK, CheckType, Mature, Found, Rows, Scanned, Vetted
<1> HIDE DEF m
<1>4. Becomes(c, m)
  BY <1>1 DEF m
<1> QED
  BY <1>3, <1>4, CheckMoves DEF CacheMiss

LEMMA DropEntryInv ==
  ASSUME Inv, NEW c \in Checks, DropEntry(c) PROVE Inv'
<1> DEFINE me == check[c]
           m == [me EXCEPT !.pc = "resolve"]
<1>0. me \in CheckType /\ CheckOK(me) /\ WorldOK /\ me.pc = "drop"
  BY Facts DEF DropEntry, At
<1>1. m \in CheckType
  BY <1>0 DEF CheckType, PCs
<1>2. CheckOK(m)
  BY <1>0, <1>1 DEF CheckOK, CheckType, Mature, Found, Rows, Scanned, Vetted
<1> HIDE DEF m
<1>3. Becomes(c, m)
  BY DEF DropEntry, m
<1>4. WorldOK'
  BY <1>0 DEF WorldOK, CacheTellsTruth, DropEntry
<1> QED
  BY <1>2, <1>3, <1>4, WorldMoves DEF DropEntry

LEMMA ResolveInv ==
  ASSUME Inv, NEW c \in Checks, Resolve(c) PROVE Inv'
<1> DEFINE me == check[c]
           at == published[Resolved(me.request)]
           v  == AgeVerdict(me, at, "live")
           m  == [me EXCEPT !.pc = "put", !.found = at, !.g1 = v]
<1>0. me \in CheckType /\ CheckOK(me) /\ WorldOK /\ me.pc = "resolve"
  BY Facts DEF Resolve, At
<1>1. Becomes(c, m)
  BY DEF Resolve
<1>2. at \in Nat
  BY <1>0 DEF Resolve, Known, WorldOK
<1>3. /\ v \in VerdictType /\ v.gate \in {"pass", "block"}
      /\ v.gate = "pass" => v.at - at >= MinCooldownDays * Day
  BY <1>0, <1>2, AgeVerdictFacts DEF CheckOK, Reasons
<1>4. me.request # Latest =>
        me.request \in DOMAIN published /\ at = published[me.request]
  BY <1>0, RequestFacts DEF CheckType, Resolve, Known
<1>5. WholeSeconds(at) \in Int /\ WholeSeconds(at) <= at
  BY <1>2, WholeSecondsFacts
<1>6. v.gate = "pass" => v.at - WholeSeconds(at) >= MinCooldownDays * Day
  BY <1>2, <1>3, <1>5, PipelineAssumption DEF VerdictType
<1> HIDE DEF at, v
<1>7. m \in CheckType
  BY <1>0, <1>2, <1>3 DEF CheckType, PCs
<1>8. m.pc = "put" /\ m.request = me.request /\ m.found = at /\ m.g1 = v
      /\ m.g8 = me.g8 /\ m.exit = me.exit /\ m.days = me.days
  BY <1>0 DEF CheckType
<1> HIDE DEF m
<1>9. CheckOK(m)
  BY <1>0, <1>3, <1>4, <1>6, <1>7, <1>8
     DEF CheckOK, Mature, Found, Rows, Scanned, Vetted
<1> QED
  BY <1>1, <1>9, CheckMoves DEF Resolve

LEMMA ResolveFailsInv ==
  ASSUME Inv, NEW c \in Checks, ResolveFails(c) PROVE Inv'
<1> DEFINE me == check[c]
           v == Verdict("block", "error", me.g1at)
           m == [me EXCEPT !.pc = "audit1", !.g1 = v]
<1>0. me \in CheckType /\ CheckOK(me) /\ me.pc = "resolve"
  BY Facts DEF ResolveFails, At
<1>1. Becomes(c, m)
  BY DEF ResolveFails
<1>2. v \in VerdictType /\ v.gate = "block"
  BY <1>0 DEF CheckType, Verdict, VerdictType, Decisions, Reasons
<1> HIDE DEF v
<1>3. m \in CheckType
  BY <1>0, <1>2 DEF CheckType, PCs
<1>4. CheckOK(m)
  BY <1>0, <1>2, <1>3 DEF CheckOK, CheckType, Mature, Found, Rows, Scanned, Vetted
<1> QED
  BY <1>1, <1>4, CheckMoves DEF ResolveFails

LEMMA PutInv ==
  ASSUME Inv, NEW c \in Checks, Put(c) PROVE Inv'
<1> DEFINE me == check[c]
           m == [me EXCEPT !.pc = "audit1"]
           entry == CacheEntry(WholeSeconds(me.found), WholeSeconds(Expiry(me)), me.key)
<1>0. me \in CheckType /\ CheckOK(me) /\ WorldOK /\ me.pc = "put"
  BY Facts DEF Put, At
<1>1. Becomes(c, m)
  BY DEF Put
<1>2. m \in CheckType
  BY <1>0 DEF CheckType, PCs
<1>3. CheckOK(m)
  BY <1>0, <1>2 DEF CheckOK, CheckType, Mature, Found, Rows, Scanned, Vetted
<1>4. Expiry(me) \in Int
  <2>1. me.found \in Int /\ me.g1at \in Int /\ me.days * Day \in Int
    BY <1>0, DaysMonotone DEF CheckType, CheckOK
  <2> QED
    BY <2>1, PipelineAssumption DEF Expiry
<1>5. entry \in EntryType /\ entry.at = WholeSeconds(me.found)
  <2>1. WholeSeconds(me.found) \in Int /\ WholeSeconds(Expiry(me)) \in Int
    BY <1>0, <1>4, WholeSecondsFacts DEF CheckType
  <2> QED
    BY <1>0, <2>1 DEF CacheEntry, EntryType, CheckType
<1> HIDE DEF entry, m
<1>6. CASE cache' = [cache EXCEPT ![me.request] = {entry}]
  <2>1. cache' \in [Requests -> SUBSET EntryType]
    BY <1>0, <1>5, <1>6 DEF WorldOK
  <2>2. CacheTellsTruth'
    <3> SUFFICES ASSUME NEW r \in Requests \cap Versions, NEW e \in cache'[r], Authentic(e)
                 PROVE  r \in DOMAIN published' /\ e.at = WholeSeconds(published'[r])
      BY DEF CacheTellsTruth, Authentic
    <3>1. published' = published
      BY DEF Put
    <3>2. CASE r = me.request
      <4>1. e = entry
        BY <1>0, <1>6, <3>2 DEF WorldOK
      <4>2. r # Latest
        BY PipelineAssumption DEF Versions
      <4> QED
        BY <1>0, <1>5, <3>1, <3>2, <4>1, <4>2 DEF CheckOK, Found
    <3>3. CASE r # me.request
      <4>1. e \in cache[r]
        BY <1>0, <1>6, <3>3 DEF WorldOK
      <4> QED
        BY <1>0, <3>1, <4>1 DEF WorldOK, CacheTellsTruth
    <3> QED
      BY <3>2, <3>3
  <2>3. WorldOK'
    BY <1>0, <2>1, <2>2 DEF WorldOK, Put
  <2> QED
    BY <1>1, <1>3, <2>3, WorldMoves DEF Put
<1>7. CASE cache' = cache
  BY <1>1, <1>3, <1>7, CheckMoves DEF Put
<1> QED
  BY <1>6, <1>7 DEF Put, entry

LEMMA Audit1Inv ==
  ASSUME Inv, NEW c \in Checks, Audit1(c) PROVE Inv'
<1> DEFINE me == check[c]
<1>0. me \in CheckType /\ CheckOK(me) /\ me.pc = "audit1" /\ me.g1 \in VerdictType
  BY Facts DEF Audit1, At, CheckOK, CheckType
<1>1. PICK rows \in {me.rows, me.rows \cup {<<"G1", me.g1.gate>>}}, code \in {"allow", "block"} :
        /\ Becomes(c, [me EXCEPT !.pc = "gate8", !.rows = rows, !.exit = code])
        /\ code = "allow" => me.g1.gate # "block" /\ <<"G1", me.g1.gate>> \in rows
  <2> DEFINE audited == me.rows \cup {<<"G1", me.g1.gate>>}
             code == IF me.g1.gate = "block" THEN "block" ELSE "allow"
  <2>1. CASE Becomes(c, [me EXCEPT !.pc = "gate8", !.rows = @ \cup {<<"G1", me.g1.gate>>},
                                   !.exit = code])
    <3>1. Becomes(c, [me EXCEPT !.pc = "gate8", !.rows = audited, !.exit = code])
      BY <2>1
    <3>2. code \in {"allow", "block"} /\ (code = "allow" => me.g1.gate # "block")
      OBVIOUS
    <3> QED
      BY <3>1, <3>2
  <2>2. CASE Becomes(c, [me EXCEPT !.pc = "gate8", !.exit = "block"])
    <3>1. [me EXCEPT !.pc = "gate8", !.exit = "block"]
            = [me EXCEPT !.pc = "gate8", !.rows = me.rows, !.exit = "block"]
      BY <1>0 DEF CheckType
    <3> QED
      BY <2>2, <3>1
  <2> QED
    BY <2>1, <2>2 DEF Audit1
<1> DEFINE m == [me EXCEPT !.pc = "gate8", !.rows = rows, !.exit = code]
<1>2. rows \in SUBSET RowType
  BY <1>0, <1>1 DEF CheckType, RowType, VerdictType
<1>3. m \in CheckType
  BY <1>0, <1>2 DEF CheckType, PCs
<1>4. m.pc = "gate8" /\ m.request = me.request /\ m.g1 = me.g1 /\ m.g8 = me.g8
      /\ m.rows = rows /\ m.exit = code /\ m.days = me.days
  BY <1>0 DEF CheckType
<1>5. Becomes(c, m)
  BY <1>1
<1> HIDE DEF m
<1>6. CheckOK(m)
  BY <1>0, <1>1, <1>3, <1>4
     DEF CheckOK, VerdictType, Decisions, Mature, Found, Rows, Scanned, Vetted
<1> QED
  BY <1>5, <1>6, CheckMoves DEF Audit1

LEMMA GateEightInv ==
  ASSUME Inv, NEW c \in Checks, GateEight(c) PROVE Inv'
<1> DEFINE me == check[c]
<1>0. me \in CheckType /\ CheckOK(me) /\ me.pc = "gate8"
  BY Facts DEF GateEight, At
<1>1. now \in Nat
  BY ClockFacts
<1>2. PICK decision \in {"pass", "block", "override_used"}, reason \in {"skipped", "override", "scan"} :
        /\ Becomes(c, [me EXCEPT !.pc = "audit8", !.g8 = Verdict(decision, reason, now)])
        /\ \/ decision = "block"
           \/ decision = "pass" /\ me.g1.gate = "block"
           \/ me.request \in Remote => reason = "override"
  <2>1. CASE me.g1.gate = "block"
    BY <2>1 DEF GateEight
  <2>2. CASE me.g1.gate # "block" /\ AppliesTo(me.entries, me.request, now)
    BY <2>2 DEF GateEight
  <2>3. CASE me.g1.gate # "block" /\ ~AppliesTo(me.entries, me.request, now)
    <3>1. CASE Becomes(c, [me EXCEPT !.pc = "audit8", !.g8 = Verdict("block", "scan", now)])
      BY <3>1
    <3>2. CASE /\ Known(me.request) /\ Resolved(me.request) \notin Remote
               /\ Becomes(c, [me EXCEPT !.pc = "audit8", !.g8 = Verdict("pass", "scan", now)])
      <4>1. me.request \notin Remote
        BY <3>2, PipelineAssumption DEF Resolved
      <4> QED
        BY <3>2, <4>1
    <3> QED
      BY <2>3, <3>1, <3>2 DEF GateEight
  <2> QED
    BY <2>1, <2>2, <2>3
<1> DEFINE v == Verdict(decision, reason, now)
           m == [me EXCEPT !.pc = "audit8", !.g8 = v]
<1>3. v \in VerdictType /\ v.gate = decision /\ v.by = reason
  BY <1>1 DEF Verdict, VerdictType, Decisions, Reasons
<1>4. Becomes(c, m)
  BY <1>2
<1> HIDE DEF v
<1>5. m \in CheckType
  BY <1>0, <1>3 DEF CheckType, PCs
<1>6. m.pc = "audit8" /\ m.request = me.request /\ m.g1 = me.g1 /\ m.g8 = v
      /\ m.rows = me.rows /\ m.exit = me.exit /\ m.days = me.days
  BY <1>0 DEF CheckType
<1> HIDE DEF m
<1>7. CheckOK(m)
  BY <1>0, <1>2, <1>3, <1>5, <1>6 DEF CheckOK, Mature, Found, Rows, Scanned, Vetted
<1> QED
  BY <1>4, <1>7, CheckMoves DEF GateEight

LEMMA GateEightOffInv ==
  ASSUME Inv, NEW c \in Checks, GateEightOff(c) PROVE Inv'
<1> DEFINE me == check[c]
<1>1. me \in CheckType /\ CheckOK(me) /\ me.pc = "gate8"
  BY Facts DEF GateEightOff, At
<1>2. me.exit \in {"allow", "block"} /\ me.request \in Requests
  BY <1>1 DEF CheckOK, CheckType, Rows
<1>3. Exits(c, me, me.exit)
  BY DEF GateEightOff
<1> HIDE DEF me
<1> QED
  BY <1>1, <1>2, <1>3, ExitsInv DEF GateEightOff, CheckOK, Rows, Scanned

LEMMA Audit8Inv ==
  ASSUME Inv, NEW c \in Checks, Audit8(c) PROVE Inv'
<1> DEFINE me == check[c]
           n == [me EXCEPT !.rows = @ \cup {<<"G8", me.g8.gate>>}]
           code == IF me.exit = "block" \/ me.g8.gate = "block" THEN "block" ELSE "allow"
<1>1. me \in CheckType /\ CheckOK(me) /\ me.pc = "audit8" /\ me.request \in Requests
      /\ me.g8 \in VerdictType
  BY Facts DEF Audit8, At, CheckOK, CheckType
<1>2. CASE Exits(c, n, code)
  <2>1. <<"G8", me.g8.gate>> \in RowType
    BY <1>1 DEF VerdictType, RowType
  <2>2. n \in CheckType
    BY <1>1, <2>1 DEF CheckType
  <2>3. n.request = me.request /\ n.g1 = me.g1 /\ n.g8 = me.g8
        /\ n.rows = me.rows \cup {<<"G8", me.g8.gate>>}
    BY <1>1 DEF CheckType
  <2>4. code \in {"allow", "block"}
        /\ (code = "allow" => me.exit # "block" /\ me.g8.gate # "block")
    OBVIOUS
  <2>5. Mature(n)
    BY <1>1, <2>3 DEF CheckOK, Mature
  <2>6. code = "allow" => me.exit = "allow"
    BY <1>1, <2>4 DEF CheckOK, CheckType, Rows
  <2> HIDE DEF n, code
  <2>7. code = "allow" =>
          /\ n.g1.gate \in {"pass", "override_used"} /\ <<"G1", n.g1.gate>> \in n.rows
          /\ n.g8.gate \in {"none", "pass", "override_used"}
          /\ n.g8.gate # "none" => <<"G8", n.g8.gate>> \in n.rows
          /\ n.request \in Remote /\ n.g8.gate # "none" => n.g8.by = "override"
    BY <1>1, <2>3, <2>4, <2>6 DEF CheckOK, Rows, Scanned
  <2> QED
    BY <1>1, <1>2, <2>2, <2>3, <2>4, <2>5, <2>7, ExitsInv DEF Audit8
<1>3. CASE Exits(c, me, "block")
  BY <1>1, <1>3, ExitsInv DEF Audit8, CheckOK
<1> QED
  BY <1>2, <1>3 DEF Audit8

LEMMA StepInv ==
  ASSUME Inv, NEW c \in Checks, Step(c) PROVE Inv'
BY LoadConfigInv, LoadOverridesInv, G1OverrideInv, CacheHitInv, CacheMissInv,
   DropEntryInv, ResolveInv, ResolveFailsInv, PutInv, Audit1Inv, GateEightInv,
   GateEightOffInv, Audit8Inv DEF Step

-----------------------------------------------------------------------------
(* Steps of the world. *)

\* What a check knows stays true while the registry publishes: it only adds.
LEMMA PublishInv ==
  ASSUME Inv, Publish PROVE Inv'
<1>0. WorldOK /\ now \in Nat /\ check' = check
  BY ClockFacts DEF Inv, Publish
<1>1. /\ published' \in Seq(Nat) /\ Len(published') <= MaxVersion
      /\ \A v \in DOMAIN published : v \in DOMAIN published' /\ published'[v] = published[v]
  BY <1>0, PipelineAssumption DEF WorldOK, Publish
<1>2. WorldOK'
  BY <1>0, <1>1 DEF WorldOK, CacheTellsTruth, Authentic, Publish
<1>3. ASSUME NEW d \in Checks PROVE CheckOK(check[d])'
  BY <1>0, <1>1 DEF Inv, CheckOK, Mature, Found, Rows, Scanned, Vetted
<1> QED
  BY <1>0, <1>2, <1>3 DEF Inv

\* The clock, the files and stuttering leave the checks and the registry alone.
LEMMA ChecksStay ==
  ASSUME Inv, WorldOK', UNCHANGED <<published, check>> PROVE Inv'
<1>1. ASSUME NEW d \in Checks PROVE CheckOK(check[d])'
  BY DEF Inv, CheckOK, Mature, Found, Rows, Scanned, Vetted
<1> QED
  BY <1>1 DEF Inv

LEMMA TickInv ==
  ASSUME Inv, Tick PROVE Inv'
<1>1. now' \in 0..MaxTime
  BY PipelineAssumption DEF Inv, WorldOK, Tick
<1>2. WorldOK'
  BY <1>1 DEF Inv, WorldOK, CacheTellsTruth, Tick
<1> QED
  BY <1>2, ChecksStay DEF Tick

LEMMA EditConfigInv ==
  ASSUME Inv, EditConfig PROVE Inv'
<1>1. config' \in {Unreadable} \cup [readable : {TRUE}, raw : Int, key : CacheKeys]
  <2>1. ASSUME NEW raw \in RawCooldowns, NEW key \in CacheKeys
        PROVE  Readable(raw, key) \in [readable : {TRUE}, raw : Int, key : CacheKeys]
    BY PipelineAssumption DEF Readable
  <2>2. config' = Unreadable
        \/ \E raw \in RawCooldowns, key \in CacheKeys : config' = Readable(raw, key)
    BY DEF EditConfig
  <2> QED
    BY <2>1, <2>2
<1>2. WorldOK'
  BY <1>1 DEF Inv, WorldOK, CacheTellsTruth, EditConfig
<1> QED
  BY <1>2, ChecksStay DEF EditConfig

LEMMA OverridesInv ==
  ASSUME Inv, AddOverride \/ EditOverrides PROVE Inv'
<1>1. CASE AddOverride
  <2>1. WholeSeconds(now + OverrideTTL) \in Int
    BY ClockFacts, PipelineAssumption, WholeSecondsFacts
  <2>2. PICK v \in Requests \cup {Latest} :
          overrides' = Store({[version |-> v, expires |-> WholeSeconds(now + OverrideTTL)]})
    BY <1>1 DEF AddOverride
  <2>3. overrides' \in [parses : BOOLEAN, entries : Entries]
    BY <2>1, <2>2 DEF Store, Entries
  <2>4. WorldOK'
    BY <1>1, <2>3 DEF Inv, WorldOK, CacheTellsTruth, AddOverride
  <2> QED
    BY <1>1, <2>4, ChecksStay DEF AddOverride
<1>2. CASE EditOverrides
  <2>1. overrides' \in [parses : BOOLEAN, entries : Entries]
    <3>1. Store({}) \in [parses : BOOLEAN, entries : Entries]
      BY DEF Store, Entries
    <3>2. Corrupt \in [parses : BOOLEAN, entries : Entries]
      BY DEF Corrupt, Entries
    <3> QED
      BY <1>2, <3>1, <3>2 DEF EditOverrides
  <2>2. WorldOK'
    BY <1>2, <2>1 DEF Inv, WorldOK, CacheTellsTruth, EditOverrides
  <2> QED
    BY <1>2, <2>2, ChecksStay DEF EditOverrides
<1> QED
  BY <1>1, <1>2

LEMMA DamageCacheInv ==
  ASSUME Inv, NEW r \in Requests, DamageCache(r) PROVE Inv'
<1> DEFINE torn == CacheEntry(0 - MaxTime, 2 * MaxTime, "foreign")
<1>1. torn \in EntryType /\ ~Authentic(torn)
  BY PipelineAssumption DEF CacheEntry, EntryType, Authentic
<1> HIDE DEF torn
<1>2. cache' = [cache EXCEPT ![r] = {torn}]
  BY DEF DamageCache, torn
<1>3. cache' \in [Requests -> SUBSET EntryType]
  BY <1>1, <1>2 DEF Inv, WorldOK
<1>4. CacheTellsTruth'
  <2> SUFFICES ASSUME NEW q \in Requests \cap Versions, NEW e \in cache'[q], Authentic(e)
               PROVE  q \in DOMAIN published' /\ e.at = WholeSeconds(published'[q])
    BY DEF CacheTellsTruth, Authentic
  <2>1. q # r
    BY <1>1, <1>2 DEF Inv, WorldOK
  <2>2. e \in cache[q] /\ published' = published
    BY <1>2, <2>1 DEF Inv, WorldOK, DamageCache
  <2> QED
    BY <2>2 DEF Inv, WorldOK, CacheTellsTruth
<1>5. WorldOK'
  BY <1>3, <1>4 DEF Inv, WorldOK, DamageCache
<1> QED
  BY <1>5, ChecksStay DEF DamageCache

LEMMA NextInv == Inv /\ [Next]_vars => Inv'
<1> SUFFICES ASSUME Inv, [Next]_vars PROVE Inv'
  OBVIOUS
<1>1. ASSUME NEW c \in Checks, NEW r \in Requests, Start(c, r) PROVE Inv'
  BY <1>1, StartInv
<1>2. ASSUME NEW c \in Checks, Step(c) PROVE Inv'
  BY <1>2, StepInv
<1>3. ASSUME Publish PROVE Inv'
  BY <1>3, PublishInv
<1>4. ASSUME Tick PROVE Inv'
  BY <1>4, TickInv
<1>5. ASSUME EditConfig PROVE Inv'
  BY <1>5, EditConfigInv
<1>6. ASSUME AddOverride \/ EditOverrides PROVE Inv'
  BY <1>6, OverridesInv
<1>7. ASSUME NEW r \in Requests, DamageCache(r) PROVE Inv'
  BY <1>7, DamageCacheInv
<1>8. ASSUME UNCHANGED vars PROVE Inv'
  <2>1. WorldOK'
    BY <1>8 DEF vars, Inv, WorldOK, CacheTellsTruth
  <2> QED
    BY <1>8, <2>1, ChecksStay DEF vars
<1> QED
  BY <1>1, <1>2, <1>3, <1>4, <1>5, <1>6, <1>7, <1>8 DEF Next

-----------------------------------------------------------------------------
(* The theorems. *)

\* However many checks, editors and publications interleave, the pipeline's state
\* has the form its properties take for granted.
THEOREM PipelineInvariant == Spec => []Inv
BY InitInv, NextInv, PTL DEF Spec

\* Types: the clock, the registry, the files and what each check has loaded.
THEOREM PipelineTypes == Spec => []TypeOK
<1>1. Inv => TypeOK
  <2> SUFFICES ASSUME Inv PROVE TypeOK
    OBVIOUS
  <2>1. config = Unreadable \/ (config.raw \in Int /\ config.key \in CacheKeys)
    BY DEF Inv, WorldOK
  <2>2. overrides.entries \in Entries
    BY DEF Inv, WorldOK
  <2>3. \A r \in Requests : \A e \in cache[r] : e.at \in Int /\ e.expires \in Int
    BY DEF Inv, WorldOK, EntryType
  <2>4. ASSUME NEW c \in Checks
        PROVE  /\ check[c].request \in Requests \cup {Latest}
               /\ check[c].days \in Nat
               /\ check[c].entries \in Entries
               /\ check[c].g1.gate \in {"none", "pass", "block", "override_used"}
               /\ check[c].g8.gate \in {"none", "pass", "block", "override_used"}
               /\ check[c].exit \in {"none", "allow", "block"}
    BY Facts DEF CheckType, VerdictType, Decisions
  <2> QED
    BY <2>1, <2>2, <2>3, <2>4 DEF TypeOK, Inv, WorldOK
<1> QED
  BY <1>1, PipelineInvariant, PTL

\* Gate 1 (CheckGate1, checkCached, ageVerdict): a version that passes is at
\* least the floor old, through the cache or without it, whatever happens to the
\* cache and to config.json meanwhile.
THEOREM GateOneIsSound == Spec => []PassIsMature
<1>1. Inv => PassIsMature
  BY DEF Inv, CheckOK, Mature, PassIsMature
<1> QED
  BY <1>1, PipelineInvariant, PTL

\* The cache (Cache.Put, Cache.Get): an authentic entry about a version holds the
\* time the registry published that version.
THEOREM CacheIsTruthful == Spec => []CacheTellsTruth
<1>1. Inv => CacheTellsTruth
  BY DEF Inv, WorldOK
<1> QED
  BY <1>1, PipelineInvariant, PTL

\* runCheck and auditAndExit: an exit code that lets the install go on was earned
\* at every gate that ran, and each of them left its row in the audit log.
THEOREM AllowIsEarned == Spec => []AllowIsVetted
<1>1. Inv => AllowIsVetted
  BY DEF Inv, CheckOK, Rows, Vetted, AllowIsVetted
<1> QED
  BY <1>1, PipelineInvariant, PTL
==============================================================================
