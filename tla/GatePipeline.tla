----------------------------- MODULE GatePipeline -----------------------------
(***************************************************************************)
(* "penrush check" from its start to its exit code: runCheck               *)
(* (internal/cli/check.go), the gate engine CheckGate1 (internal/gate/     *)
(* gate.go), Gate 8 (internal/gate/gate8.go), the verdict cache            *)
(* (internal/cache/cache.go) and what the run reads of config.json and     *)
(* overrides.json.  Several checks run at once on one ~/.penrush, while    *)
(* the registry publishes, people edit the files, and time passes.         *)
(*                                                                         *)
(* One artifact is gated, of an ecosystem with install scripts; a request  *)
(* names one of its versions, or none (Latest).  Time is in ticks, several *)
(* to the second, because the cache stores its timestamps as RFC 3339, in  *)
(* whole seconds.                                                          *)
(***************************************************************************)
EXTENDS Integers, Sequences, FiniteSets

CONSTANTS
  Checks,            \* processes that run "penrush check"
  Requests,          \* what they may ask for: versions, Latest
  Latest,            \* a request without a version
  Remote,            \* the versions whose install script fetches and runs code
  Second,            \* ticks in a second
  Day,               \* ticks in a day of cool-down, whole seconds
  MinCooldownDays,
  DefaultCooldownDays,
  RawCooldowns,      \* the cool-downs people write in config.json, in days
  CacheKeys,         \* the cache keys config.json has had; "none" if it had no valid one
  PassTTL,           \* ticks a passing verdict is cached
  OverrideTTL,       \* ticks an override lasts
  Disturbances,      \* what else happens, beside checks and time
  MaxVersion,        \* bound: the versions that get published
  MaxEdits,          \* bound: how often people and crashes change the files
  MaxTime            \* bound: the clock stops there

ASSUME PipelineAssumption ==
  /\ MaxVersion \in Nat /\ MaxTime \in Nat
  /\ PassTTL \in Nat /\ OverrideTTL \in Nat
  /\ Latest \notin 1..MaxVersion
  /\ Requests \subseteq (1..MaxVersion) \cup {Latest}
  /\ Remote \subseteq 1..MaxVersion
  /\ Second \in Nat \ {0}
  /\ Day \in Nat \ {0} /\ Day % Second = 0
  /\ MinCooldownDays \in Nat \ {0}
  /\ DefaultCooldownDays \in Nat /\ DefaultCooldownDays >= MinCooldownDays
  /\ RawCooldowns \subseteq Int
  /\ {"fresh", "foreign"} \cap CacheKeys = {}

VARIABLES
  now,        \* the clock
  published,  \* published[v] is when version v appeared in the registry
  config,     \* config.json: its cool-down and cache key, or unreadable
  overrides,  \* overrides.json: at most one override of the artifact, or corrupt
  cache,      \* ~/.penrush/cache: an entry per request
  edits,      \* how often the files were changed by others
  check       \* the running checks

vars == <<now, published, config, overrides, cache, edits, check>>

-----------------------------------------------------------------------------
\* config.json, read by config.Load.
Unreadable == [readable |-> FALSE]
Readable(raw, key) == [readable |-> TRUE, raw |-> raw, key |-> key]

\* Variants named Bug... are mistakes on purpose: each replaces the definition
\* after it in one run that shows a property to fail.
BugNegativeDays(raw) == IF raw = 0 THEN MinCooldownDays ELSE raw

\* Config.Cooldown with the single key "default": CooldownConfig has them all.
Cooldown(raw) ==
  IF raw < 0 THEN DefaultCooldownDays
  ELSE IF raw < MinCooldownDays THEN MinCooldownDays ELSE raw

\* overrides.json, read by override.Load: the overrides of the artifact, as a
\* set of at most one; a store that does not parse is "corrupt".
Corrupt == [parses |-> FALSE, entries |-> {}]
Store(entries) == [parses |-> TRUE, entries |-> entries]

\* An override of version Latest is version-blind.
AppliesTo(entries, r, t) ==
  \E o \in entries : o.expires > t /\ o.version \in {Latest, r}

BugFieldsSwapped(at, expires, key) == [at |-> expires, expires |-> at, key |-> key]

\* A cache file: the entry's content, and the key its MAC was made with.  A file
\* that is torn or was written under another key has the key "foreign".
CacheEntry(at, expires, key) == [at |-> at, expires |-> expires, key |-> key]

\* RFC 3339 drops what is below the second.
WholeSeconds(t) == (t \div Second) * Second

\* The key of a config made up by config.Default is random: two of them differ, and
\* no file that is read was written under it.
FreshKey == "fresh"

\* A config.json whose cache_hmac_key is missing or not hexadecimal: cache.New
\* fails, and the check runs without a cache.
NoKey == "none"

\* The version a registry resolves the request to, if it has it.
Resolved(r) == IF r = Latest THEN Len(published) ELSE r
Known(r) == Resolved(r) \in DOMAIN published

-----------------------------------------------------------------------------
(* The state of one check. *)

NoVerdict == [gate |-> "none", by |-> "none", at |-> 0]
Verdict(decision, by, at) == [gate |-> decision, by |-> by, at |-> at]

Idle == [pc |-> "idle", request |-> Latest, days |-> DefaultCooldownDays,
         key |-> FreshKey, entries |-> {}, g1at |-> 0, g1 |-> NoVerdict,
         g8 |-> NoVerdict, found |-> 0, rows |-> {}, exit |-> "none"]

Init ==
  /\ now = 0
  /\ published = <<>>
  /\ \E key \in CacheKeys : config = Readable(DefaultCooldownDays, key)
  /\ overrides = Store({})
  /\ cache = [r \in Requests |-> {}]
  /\ edits = 0
  /\ check = [c \in Checks |-> Idle]

At(c, pc) == check[c].pc = pc

Becomes(c, new) == check' = [check EXCEPT ![c] = new]

\* The process ends with an exit code; what it had loaded is gone.
Exits(c, me, code) ==
  Becomes(c, [Idle EXCEPT !.pc = "done", !.request = me.request, !.g1 = me.g1,
                          !.g8 = me.g8, !.rows = me.rows, !.exit = code])

\* A new invocation by the same shell or cron job.
Start(c, r) ==
  /\ At(c, "idle") \/ At(c, "done")
  /\ Becomes(c, [Idle EXCEPT !.pc = "config", !.request = r])
  /\ UNCHANGED <<now, published, config, overrides, cache, edits>>

\* config.Load, or config.Default with a key of its own; then auditCooldownClamps,
\* whose row may fail to be written.
LoadConfig(c) ==
  LET me  == check[c]
      raw == IF config.readable THEN config.raw ELSE DefaultCooldownDays
      key == IF config.readable THEN config.key ELSE FreshKey IN
  /\ At(c, "config")
  /\ \E rows \in SUBSET (IF raw \in 0..MinCooldownDays-1 THEN {<<"config", "policy_changed">>} ELSE {}) :
       Becomes(c, [me EXCEPT !.pc = "overrides", !.days = Cooldown(raw), !.key = key,
                             !.rows = rows])
  /\ UNCHANGED <<now, published, config, overrides, cache, edits>>

\* override.Load; a corrupt store blocks, and only Gate 1's row is written.
LoadOverrides(c) ==
  LET me == check[c] IN
  /\ At(c, "overrides")
  /\ IF overrides.parses
     THEN Becomes(c, [me EXCEPT !.pc = "override", !.entries = overrides.entries])
     ELSE \E rows \in {me.rows, me.rows \cup {<<"G1", "block">>}} :
            Exits(c, [me EXCEPT !.rows = rows], "block")
  /\ UNCHANGED <<now, published, config, overrides, cache, edits>>

\* CheckGate1 reads the clock once, then looks for an override that applies.
G1Override(c) ==
  LET me == check[c] IN
  /\ At(c, "override")
  /\ Becomes(c, IF AppliesTo(me.entries, me.request, now)
                THEN [me EXCEPT !.pc = "audit1", !.g1at = now,
                                !.g1 = Verdict("override_used", "override", now)]
                ELSE [me EXCEPT !.pc = "cache", !.g1at = now])
  /\ UNCHANGED <<now, published, config, overrides, cache, edits>>

BugStrictAge(me, at, by) ==
  Verdict(IF me.g1at - at > me.days * Day THEN "pass" ELSE "block", by, me.g1at)

\* ageVerdict
AgeVerdict(me, at, by) ==
  Verdict(IF me.g1at - at >= me.days * Day THEN "pass" ELSE "block", by, me.g1at)

Caching(me) == me.key # NoKey

BugMACUnchecked(me, entry) == Caching(me) /\ entry.expires > me.g1at

Live(me, entry) ==
  /\ Caching(me) /\ me.key # FreshKey
  /\ entry.key = me.key
  /\ entry.expires > me.g1at

\* Cache.Get finds a live entry: its published time is judged with the cool-down
\* and the clock of this run.
CacheHit(c) ==
  LET me == check[c] IN
  /\ At(c, "cache")
  /\ \E entry \in cache[me.request] :
       /\ Live(me, entry)
       /\ Becomes(c, [me EXCEPT !.pc = "audit1", !.g1 = AgeVerdict(me, entry.at, "cache")])
  /\ UNCHANGED <<now, published, config, overrides, cache, edits>>

\* There is no cache, or Cache.Get finds no live entry: what it read is to be removed.
CacheMiss(c) ==
  LET me == check[c] IN
  /\ At(c, "cache")
  /\ \A entry \in cache[me.request] : ~Live(me, entry)
  /\ Becomes(c, [me EXCEPT !.pc = IF Caching(me) /\ cache[me.request] # {}
                                  THEN "drop" ELSE "resolve"])
  /\ UNCHANGED <<now, published, config, overrides, cache, edits>>

\* os.Remove takes whatever is there now, another check's fresh entry included.
DropEntry(c) ==
  LET me == check[c] IN
  /\ At(c, "drop")
  /\ cache' = [cache EXCEPT ![me.request] = {}]
  /\ Becomes(c, [me EXCEPT !.pc = "resolve"])
  /\ UNCHANGED <<now, published, config, overrides, edits>>

\* The registry answers.
Resolve(c) ==
  LET me == check[c] IN
  /\ At(c, "resolve")
  /\ Known(me.request)
  /\ LET at == published[Resolved(me.request)] IN
     Becomes(c, [me EXCEPT !.pc = "put", !.found = at, !.g1 = AgeVerdict(me, at, "live")])
  /\ UNCHANGED <<now, published, config, overrides, cache, edits>>

BugCachesFailures(c) ==
  LET me == check[c] IN
  /\ At(c, "resolve")
  /\ ~Known(me.request) \/ "outage" \in Disturbances
  /\ Becomes(c, [me EXCEPT !.pc = "put", !.g1 = Verdict("block", "error", me.g1at)])
  /\ UNCHANGED <<now, published, config, overrides, cache, edits>>

\* Not found, unreachable, malformed: block, and nothing is cached.
ResolveFails(c) ==
  LET me == check[c] IN
  /\ At(c, "resolve")
  /\ ~Known(me.request) \/ "outage" \in Disturbances
  /\ Becomes(c, [me EXCEPT !.pc = "audit1", !.g1 = Verdict("block", "error", me.g1at)])
  /\ UNCHANGED <<now, published, config, overrides, cache, edits>>

Expiry(me) ==
  IF me.g1.gate = "pass" THEN me.g1at + PassTTL ELSE me.found + me.days * Day

\* Cache.Put, best effort.
Put(c) ==
  LET me == check[c] IN
  /\ At(c, "put")
  /\ \/ /\ Caching(me)
        /\ cache' = [cache EXCEPT ![me.request] =
                    {CacheEntry(WholeSeconds(me.found), WholeSeconds(Expiry(me)), me.key)}]
     \/ /\ ~Caching(me) \/ "cachefull" \in Disturbances
        /\ UNCHANGED cache
  /\ Becomes(c, [me EXCEPT !.pc = "audit1"])
  /\ UNCHANGED <<now, published, config, overrides, edits>>

BugUnauditedAllow(c) ==
  LET me == check[c] IN
  /\ At(c, "audit1")
  /\ \E written \in {TRUE, "auditfails" \notin Disturbances} :
       Becomes(c, [me EXCEPT !.pc = "gate8",
                             !.rows = IF written THEN @ \cup {<<"G1", me.g1.gate>>} ELSE @,
                             !.exit = IF me.g1.gate = "block" THEN "block" ELSE "allow"])
  /\ UNCHANGED <<now, published, config, overrides, cache, edits>>

\* auditAndExit after Gate 1: if the row cannot be written the exit is a block,
\* and Gate 8 runs all the same.
Audit1(c) ==
  LET me == check[c] IN
  /\ At(c, "audit1")
  /\ \/ Becomes(c, [me EXCEPT !.pc = "gate8", !.rows = @ \cup {<<"G1", me.g1.gate>>},
                              !.exit = IF me.g1.gate = "block" THEN "block" ELSE "allow"])
     \/ /\ "auditfails" \in Disturbances
        /\ Becomes(c, [me EXCEPT !.pc = "gate8", !.exit = "block"])
  /\ UNCHANGED <<now, published, config, overrides, cache, edits>>

\* Gate8.Check: skipped behind a block, waived by an override that applies now,
\* else the payload of the version the registry serves now is scanned.
GateEight(c) ==
  LET me == check[c]
      scanned == Known(me.request) /\ Resolved(me.request) \notin Remote IN
  /\ At(c, "gate8")
  /\ \/ /\ me.g1.gate = "block"
        /\ Becomes(c, [me EXCEPT !.pc = "audit8", !.g8 = Verdict("pass", "skipped", now)])
     \/ /\ me.g1.gate # "block" /\ AppliesTo(me.entries, me.request, now)
        /\ Becomes(c, [me EXCEPT !.pc = "audit8", !.g8 = Verdict("override_used", "override", now)])
     \/ /\ me.g1.gate # "block" /\ ~AppliesTo(me.entries, me.request, now)
        /\ \/ scanned /\ Becomes(c, [me EXCEPT !.pc = "audit8", !.g8 = Verdict("pass", "scan", now)])
           \/ /\ ~scanned \/ "outage" \in Disturbances
              /\ Becomes(c, [me EXCEPT !.pc = "audit8", !.g8 = Verdict("block", "scan", now)])
  /\ UNCHANGED <<now, published, config, overrides, cache, edits>>

\* Gate 8 is not built: "gate8_enabled": false in the config that was loaded.
GateEightOff(c) ==
  /\ "gate8off" \in Disturbances
  /\ At(c, "gate8")
  /\ check[c].key # FreshKey
  /\ Exits(c, check[c], check[c].exit)
  /\ UNCHANGED <<now, published, config, overrides, cache, edits>>

\* auditAndExit after Gate 8, and the exit code of both gates together.
Audit8(c) ==
  LET me == check[c] IN
  /\ At(c, "audit8")
  /\ \/ Exits(c, [me EXCEPT !.rows = @ \cup {<<"G8", me.g8.gate>>}],
              IF me.exit = "block" \/ me.g8.gate = "block" THEN "block" ELSE "allow")
     \/ "auditfails" \in Disturbances /\ Exits(c, me, "block")
  /\ UNCHANGED <<now, published, config, overrides, cache, edits>>

-----------------------------------------------------------------------------
(* The registry, the people and the clock. *)

Publish ==
  /\ Len(published) < MaxVersion
  /\ published' = Append(published, now)
  /\ UNCHANGED <<now, config, overrides, cache, edits, check>>

Tick ==
  /\ now < MaxTime
  /\ now' = now + 1
  /\ UNCHANGED <<published, config, overrides, cache, edits, check>>

\* A change of the files by something other than a check.
Edit(kind) ==
  /\ kind \in Disturbances
  /\ edits < MaxEdits
  /\ edits' = edits + 1

\* config.json is edited, or made unreadable, or removed and made anew by
\* "penrush init" with another cache key.
EditConfig ==
  /\ Edit("config")
  /\ config' \in {Readable(raw, key) : raw \in RawCooldowns, key \in CacheKeys}
                 \cup {Unreadable}
  /\ UNCHANGED <<now, published, overrides, cache, check>>

\* "penrush override add" of the artifact, for one version or for any.
AddOverride ==
  /\ Edit("override")
  /\ overrides.parses
  /\ \E v \in Requests \cup {Latest} :
       overrides' = Store({[version |-> v, expires |-> WholeSeconds(now + OverrideTTL)]})
  /\ UNCHANGED <<now, published, config, cache, check>>

\* The store is edited: emptied or damaged.
EditOverrides ==
  /\ Edit("override")
  /\ overrides' \in {Store({}), Corrupt}
  /\ UNCHANGED <<now, published, config, cache, check>>

\* A cache file is torn by a crash or copied from another installation.
DamageCache(r) ==
  /\ Edit("cachefile")
  /\ cache' = [cache EXCEPT ![r] = {CacheEntry(0 - MaxTime, 2 * MaxTime, "foreign")}]
  /\ UNCHANGED <<now, published, config, overrides, check>>

Step(c) ==
  \/ LoadConfig(c) \/ LoadOverrides(c) \/ G1Override(c) \/ CacheHit(c) \/ CacheMiss(c)
  \/ DropEntry(c) \/ Resolve(c) \/ ResolveFails(c) \/ Put(c) \/ Audit1(c)
  \/ GateEight(c) \/ GateEightOff(c) \/ Audit8(c)

Next ==
  \/ \E c \in Checks : (\E r \in Requests : Start(c, r)) \/ Step(c)
  \/ Publish \/ Tick \/ EditConfig \/ AddOverride \/ EditOverrides
  \/ \E r \in Requests : DamageCache(r)

Spec == Init /\ [][Next]_vars

\* A check that was started runs to its exit, the clock does not stop, and each
\* request is asked again and again by some check.
FairSpec ==
  /\ Spec
  /\ WF_vars(Tick)
  /\ \A c \in Checks : WF_vars(Step(c))
  /\ \A c \in Checks, r \in Requests : SF_vars(Start(c, r))

-----------------------------------------------------------------------------
Versions == 1..MaxVersion
Entries  == SUBSET [version : Requests \cup {Latest}, expires : Int]

TypeOK ==
  /\ now \in 0..MaxTime
  /\ published \in Seq(Nat) /\ Len(published) <= MaxVersion
  /\ config = Unreadable \/ (config.raw \in Int /\ config.key \in CacheKeys)
  /\ overrides.entries \in Entries
  /\ \A r \in Requests : \A e \in cache[r] : e.at \in Int /\ e.expires \in Int
  /\ \A c \in Checks :
       /\ check[c].request \in Requests \cup {Latest}
       /\ check[c].days \in Nat
       /\ check[c].entries \in Entries
       /\ check[c].g1.gate \in {"none", "pass", "block", "override_used"}
       /\ check[c].g8.gate \in {"none", "pass", "block", "override_used"}
       /\ check[c].exit \in {"none", "allow", "block"}

\* A version that passes Gate 1 is in the registry and at least the floor old, to
\* the second, at the time the check read the clock: whether the verdict came
\* from the registry or from the cache, whoever filled, damaged or removed the
\* cache file meanwhile, whatever config.json said then and says now.
PassIsMature ==
  \A c \in Checks :
    check[c].g1.gate = "pass" /\ check[c].request # Latest =>
      /\ check[c].request \in DOMAIN published
      /\ check[c].g1.at - WholeSeconds(published[check[c].request]) >= MinCooldownDays * Day

\* An exit code that lets the install go on means that no gate blocked, that each
\* gate that ran left its row in the audit log, and that a version whose install
\* script fetches and runs code got past Gate 8 by an override alone.
AllowIsVetted ==
  \A c \in Checks :
    check[c].pc = "done" /\ check[c].exit = "allow" =>
      /\ check[c].g1.gate \in {"pass", "override_used"}
      /\ check[c].g8.gate \in {"none", "pass", "override_used"}
      /\ <<"G1", check[c].g1.gate>> \in check[c].rows
      /\ check[c].g8.gate # "none" => <<"G8", check[c].g8.gate>> \in check[c].rows
      /\ check[c].request \in Remote /\ check[c].g8.gate # "none" => check[c].g8.by = "override"

\* Every authentic cache file about a version holds the time the registry
\* published that version: no failed resolve and no other version's answer is
\* ever cached for it (FR-003).
Authentic(entry) == entry.key # "foreign"

CacheTellsTruth ==
  \A r \in Requests \cap Versions : \A e \in cache[r] :
    Authentic(e) => r \in DOMAIN published /\ e.at = WholeSeconds(published[r])

\* A block is not for ever: a version that stays in the registry for the
\* cool-down is in the end passed by Gate 1, also if it was blocked and the block was
\* cached before, whatever overrides come and go; only a corrupt store blocks for good.
Passed(v) ==
  \E c \in Checks : check[c].request = v /\ check[c].g1.gate \in {"pass", "override_used"}
ClearsBy(v) == published[v] + DefaultCooldownDays * Day

BlockedVersionsClear ==
  \A v \in Requests \cap Versions :
    (v \in DOMAIN published /\ ClearsBy(v) <= MaxTime) ~> (Passed(v) \/ ~overrides.parses)

\* cache.go: "PASS verdict (age >= cooldown): 30 days - a published timestamp only
\* gets older; passing artifacts cannot regress to failing on age".  Checked of
\* the entry for a request without a version: while it is live and passes, so
\* does what the registry would answer.
CachedPassHolds ==
  \A e \in cache[Latest] :
    Authentic(e) /\ e.expires > now /\ now - e.at >= DefaultCooldownDays * Day =>
      now - WholeSeconds(published[Resolved(Latest)]) >= DefaultCooldownDays * Day
==============================================================================
