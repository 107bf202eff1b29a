# A TLA+ model of PenRUSH

PenRUSH is a gate in front of package managers. `penrush check npm left-pad@1.3.0`
and the Claude Code hook `penrush hook claude-code` decide whether an install may
go on: an artifact must be older than a cool-down (Gate 1), its install scripts must
not fetch and run code (Gate 8), and a person may override both for one artifact.
Every decision goes into a hash-chained audit log. All state is files under
`~/.penrush`; every command is a process of its own, several may run at once, and
none of them takes a lock. That is where most of the hard behaviour is; the rest is in
what a check asks of registries, hosts and forums, which may fail in many ways.

This directory holds TLA+ modules of that state and of the processes that change it,
TLC configurations that check them on small instances, and TLAPS proofs for all
instances. `PROJECT.json` lists runs, properties, theorems, hazards, the source lines
each definition stands for, and for each property a variant of the code that breaks it.

## The system

| component | source | state | operations | status |
|---|---|---|---|---|
| audit log | `internal/audit` | `audit.jsonl` | `Append`, `tail`, `Verify`, `ReadAll` | modelled: AuditFormat, AuditLog, AuditTrail, AuditEdits |
| configuration | `internal/config`, `auditCooldownClamps` | `config.json` | `Load`, `Default`, `Save`, `Cooldown`, `LooseningClamps` | modelled: CooldownConfig, ConfigEdits, GatePipeline; `Save` in OverrideStore |
| gate engine, check command | `internal/gate`, `internal/cli/check.go` | one run's variables | `runCheck`, `CheckGate1`, `Gate8.Check`, `auditAndExit` | modelled: GatePipeline |
| verdict cache | `internal/cache` | `cache/*.json` | `Get`, `Put` | modelled: GatePipeline |
| override store | `internal/override`, `internal/cli/override.go` | `overrides.json`, its `.tmp` | `Load`, `AddWithVersion`, `save`, `AppliesTo` | modelled: OverrideStore, GatePipeline |
| init, home directory | `internal/cli/init.go`, `internal/penrushdir` | all three files | `runInit` | modelled: OverrideStore |
| hook adapter, plugin shim | `internal/cli/hook.go`, `penrush-plugin/` | a run's variables, `.activated` | `runHookClaudeCode`, `emitDeny`, `failClosed` | modelled: HookAdapter |
| command parser | `internal/cli/parse.go` | none | `ParseInstallCommands`, `classifySegment` | modelled: CommandParser, from segments that are taken apart |
| rate limiter | `internal/registry/ratelimit.go` | tokens, `last` | `Wait` | modelled: TokenBucket |
| registry client | `internal/registry/client.go` | a call's attempts | `GetJSON` | modelled: RegistryClient |
| registry resolvers | `internal/registry/*.go` | none | `Resolve` of eight registries | modelled: Inspection |
| payload fetch and archive scan | `internal/payload` | a scan's budgets | `Scan`, `Locate`, `Fetch`, `ReadArchive` | modelled: Inspection, ArchiveScan |
| install-script scan | `internal/installscan` | none | `Locate`, `Detect` | partly: InstallScan; what the sinks match is text |
| forum scan | `internal/forumscan` | a scan's results | `RunScan`, `aggregate` | modelled: ForumScan |
| stats, audit command | `internal/cli/stats.go`, `audit.go` | none | read the log | their `Verify` and `ReadAll` are in AuditFormat |
| redaction, rendering, dispatch, site, build | `internal/redact`, `cmd`, `site`, ... | none | | not modelled: text, I/O or no part of the program |

How they meet: a check or a hook call loads `config.json` (or makes up defaults with a
new cache key), appends a `policy_changed` row for every cool-down under the floor,
loads `overrides.json` (an unreadable one blocks), asks Gate 1 (override, then cache,
then registry), appends a row, asks Gate 8 (skipped behind a block, waived by an
override, else fetch and scan), appends another row, and exits. `override add` loads,
changes and saves `overrides.json` and then appends a row. `init` creates what is
missing. People edit `config.json` and `overrides.json` with an editor. The processes
share nothing but these files.

Within a process Gate 1 takes a token (crates.io and RubyGems), calls `GetJSON` once or
twice, and reads a publication time from the answer. Gate 8 calls `GetJSON` again to
locate the package, fetches it, and walks the archive. `check --forums` ends with the
five forums. All of this is one goroutine that asks and waits; what is concurrent is the
registry, which may publish between two questions.

What makes each part correct, and what is hard about it:

* **Audit log.** Entries are chained, each acknowledged entry stays, a log that
  verifies is what penrush wrote. Hard: `Append` reads the tail and writes later
  without a lock; a write may stop anywhere in its line; edits may be combined.
* **Configuration.** A file may raise the cool-down and never lower it under the
  floor, and an attempt leaves a row. Hard: the order in which negative, zero and
  missing keys fall through, and the width of `time.Duration`.
* **Gates and cache.** Nothing younger than the floor passes; a verdict from the cache
  is one the registry's answer would have given; no exit code of 0 without both gates'
  rows; a block ends when the cool-down does. Hard: the cache is shared between checks
  with different configurations, read and removed in two steps, and cut to seconds;
  the clock, the registry and the override store are each read more than once.
* **Override store.** An override that was added stays until it expires, and each has
  a row. Hard: load, change and save without a lock, through one shared `.tmp`; a
  crash or an error at any step.
* **Hook and shim.** A command goes on only if every install in it was approved, and each
  approval has its row; a gate that worked does not vanish silently. Hard: several segments
  and two gates may each pass, block, fail or panic; the answer is an exit code and a line
  on standard output together, and every other exit code lets the command go on.
* **Parser.** What is judged is what is fetched. Hard: options, words, `--` and redirections
  in any order, for tools that each read them differently.
* **Rate limiter, client, resolvers.** Grants keep to a registry's ceiling; each call ends
  in time; the time that Gate 1 takes for the publication is one the registry gave. Hard:
  a deficit is counted in the tokens and in the clock; attempts, waits and deadlines
  together; several answers are decoded into one value.
* **Scan.** What is kept and streamed is bounded, and every hook that unpacking leaves is
  judged. Hard: nested archives, repeated paths, limits that are reached in the middle.
* **Forums.** CLEAN only if all answered and nothing was found. Hard: a forum of several
  queries that fails after one of them had a hit.

## Modules

**AuditFormat** is `audit.jsonl` as a value: a line is an entry or does not parse. SHA-256
is symbolic and injective: a hash is the sequence of contents hashed into it. `LogTail`
is what `tail()` chains from, `LineFault` the first check of `Verify` that a line
fails, in the order of the code, `BadField` what `Verify` reports.

**AuditLog** is `Append` by concurrent processes. `ReadTail` and `Write` are its two
halves; `TailError` its early return; `WriteFails`, `WritePartial` and `WriteNoNewline`
are the places where a write may stop (nothing, part of the line, all but the newline).
`ended` says whether the file ends with a newline, because the next write would
otherwise continue the last line. A process killed inside `Append` looks like one of the
three failures. With `Overlap = FALSE` one call runs at a time.

**AuditTrail** is what callers want of the log, without hashes, files or tails: records
appended one by one, acknowledged only if recorded. `AuditLog!KeepsTrail` is the
refinement: the trail is the data of the lines before the first corrupt one.

**AuditEdits** takes a log that `Append` wrote and lets something else edit it: a field
takes another value or another line's hash, lines are deleted, swapped, copied,
re-encoded, dropped from the end, and empty lines are added. An edit does not compute SHA-256; the
package says that it does not detect an author who does.

**CooldownConfig** is `cooldown_days` as a partial function from keys to days, with
`Cooldown`, `LooseningClamps` and the multiplication into a `Duration` that wraps.
**ConfigEdits** is the file being edited key by key, and the load of an invocation with
its best-effort rows.

**GatePipeline** is `penrush check`, a process per member of `Checks`, a step per read
or write of something shared: `LoadConfig`, `LoadOverrides`, `G1Override` (which also
reads the clock), `CacheHit` or `CacheMiss` and `DropEntry` (`Get` reads, and removes
later), `Resolve` or `ResolveFails`, `Put`, `Audit1`, `GateEight` or `GateEightOff`,
`Audit8`. Beside them the registry publishes, the clock ticks, people edit both files,
and cache files get damaged. One artifact is gated; a request names a version or none
(`Latest`). A tick is less than a second, because the cache cuts its timestamps to
seconds. A payload has one bit: whether its install script would block Gate 8.

**OverrideStore** is `overrides.json` at the level of open, write and rename, with
inodes, because all writers share one `.tmp`: a writer may go on writing to a file that
another has renamed into place. `LoadAndAdd`, `InitStat` and `InitLoad` are the two
commands up to `save`; `OpenTmp`, `WriteTmp` and `Rename` are `save`; `AuditAdd` is the
row after it; `Crash` and `WriteFails` may come at any step.

**HookAdapter** is a tool call of the agent from the shim to the agent's decision.
`Locate`, `Mark`, `Exec` and `Absent` are the shim; `ReadPayload` classifies the command
and answers what needs no gate; `LoadConfig` and `LoadOverrides` read the home; `GateOne`,
`AuditOne`, `GateEight` and `AuditEight` are the loop over the segments, `NextSegment` its
end; `Decide` answers. `Panic` and `Killed` may come in between. A command is what
CommandParser makes of its segments, twice if it has characters without width. `why`
records how a call ended, so that the properties can tell a vetted command from one that
got past: a notice before activation (`"notice"`), a notice because the home directory cannot be
searched and `[ -f marker ]` is false (`"unseen"`), a vanished binary, a killed process, a
lost answer, or a panic under `"on_internal_error": "allow"`. `RunsOnlyVetted` leaves these ways
open (`WaysPast`): nothing in the code closes them, and some of its comments say otherwise.

**CommandParser** is `classifySegment`: a segment has a tool and verb, then arguments that
are flags, words, `--` or a redirection. A word has a name, what stands before its version,
and what it looks like (a path, a GitHub URL, owner/repo). `ExecArgs` is npx and its like, of which
`Roles` goes through the arguments from the first to the last as `execArgs` does,
`NpmAdd`, `PipInstall`, `GoGet`, `GitClone` the tools with rules of their own, `SafeFrozen`
the forms that restore a lockfile. `Chosen` is the reading of a command that is kept of two.
The last section is no translation. It says what the tools do: which options take a value
(`TakesValue`), which words are left to be names then (`Names`), which of these are
fetched (`Fetched`), and which of them the gates could judge (`Installs`). `ReadRight` compares
the parser with that: what is ignored or taken for a lockfile's installs nothing, and what is
judged is one of the names that are fetched, of the tool's ecosystem, in the version named.
The parser does not do this for every segment, and `KnownMisread` lists where it errs:

* the value of an option stands in front of what is fetched (`pip install -i URL b`);
* what is fetched stands behind a redirection, or behind the `--` of npx, and nothing in front;
* a `-p` behind npx's package, which is the package's own option;
* `cargo install --locked` of a crate that is named;
* crates and gems with a version, which are judged without it;
* `git clone` with an option as its first argument, and `gh repo clone` without an owner.

The proof and the run show that the list is complete for the arguments of the model.
`Sensible` says what an argument can be: only words have a version or a place, and a word
follows an option that takes a value.

**TokenBucket** is the rate limiter, in units of which a token takes `Period` to come, so
that nothing is divided. `grants` is the history of when each `Wait` returned.

**RegistryClient** is `GetJSON`. `AttemptFails`, `AttemptCut`, `AttemptMistyped` and
`AttemptAnswers` are what one attempt may come to (a broken answer may have been decoded
in part), `Failed` says which failures are tried again, `BackOff` is the wait. `Decode` is
encoding/json on a value that may already hold an answer: it leaves what a document does not
name, and replaces lists. A document (`Documents`) has two tags and, for each version, the dates given to it, some
of which may not parse.

**Inspection** composes them: one process and its artifacts, one after the other. A registry
is a document per ecosystem: two tags that may name the default version, and the dates of
each version (or of each dated field of a repository or an image). `ResolveUnasked`,
`TakeToken`, `AskRegistry`, `Fetching` and `ResolveEnds` are `Resolve`; `FollowUp` is its
second question, `Candidates` and `Counts` what it looks for. `Judged` is the rest of Gate 1.
`StartScan`, `LocateEnds`, `Fetch`, `FetchFails`, `Scanning` and `ScanEnds` are Gate 8, and
`RegistryChanges` is somebody publishing. `me.seen` is the history of what the registry held
when it answered.

**ArchiveScan** is `ReadArchive`: each action takes one header of the archive. `levels` is
what each open stream may still deliver, `inside` which streams these are. `out` is what the
scan keeps: one map for the outer archive and all nested ones, by cleaned path, in which a
backslash is a slash. `left` is what unpacking leaves at the hook paths, of each stream by
itself and of each spelling of a path, because that is what package managers unpack: of a gem
only data.tar.gz, and on Linux a backslash as a character. **InstallScan** has the paths and the precedence of findings.
**ForumScan** is `RunScan`, a step per query.

Operators named `Bug...` are not part of the model: each is a plausible mistake in the
definition after it, and shows that a property would notice it.

AuditLog and AuditEdits extend AuditFormat, AuditLog instantiates AuditTrail,
ConfigEdits extends CooldownConfig. GatePipeline has `Cooldown` for the one key its
artifact is judged by, and one audit row per gate that is written or not; what the rows
look like under concurrency is AuditLog's subject. It takes an override store that
changes atomically; what concurrent adds do to the file is OverrideStore's. HookAdapter
extends CommandParser and takes any verdicts of the gates; what they are worth is
GatePipeline's. GatePipeline takes a resolver for an answer or a failure, and a scan for an
outcome; how they come about is Inspection's, which extends RegistryClient (and with it
TokenBucket), ArchiveScan (InstallScan) and ForumScan.

## Runs

| run | instance | what it shows |
|---|---|---|
| `audit_overlap` | 3 processes, 1 kind of data, 4 lines, all write faults | `RacesLookLikeRaces`: `Verify` of a log nobody edited reports only `seq` or `parse`, so a hash fault always means an edit. `AckedKept`: an acknowledged entry is lost only with a torn line. `TornLineIsFinal`: after a torn line nothing is appended again |
| `audit_trail` | 2 processes one at a time, 2 kinds of data, 4 lines, failed and torn writes | `KeepsTrail`: AuditLog implements AuditTrail. `SerialChain`: every line before the first corrupt one verifies |
| `audit_edits` | logs of up to 3 entries, 2 kinds of data, 3 edits of any kind | `VerifiedLinesAreOriginal`: each line `Verify` gets past is, in place and byte for byte, the one penrush wrote |
| `config_floor` | 3 keys, values from -1 to beyond the floor, scaled `Duration` | `FloorHolds`, `ClampsAreTraced` |
| `config_overflow` | the same with a value that does not fit | violated, see below |
| `gate_files` | 2 checks of 1 version, 1 edit of a file, 4 ticks | `PassIsMature`: what passes Gate 1 was published at least the floor before the check read the clock. `CacheTellsTruth`: a cache file of this installation holds the registry's answer |
| `gate_vetting` | 1 check at a time, a version and `Latest`, 1 override edit, 5 ticks, failing rows, fairness | `AllowIsVetted`: an exit that lets the install go on means both gates agreed, both rows are written, and a harmful payload got through by override only. `BlockedVersionsClear`: a version blocked, and cached as blocked, is passed in the end, unless the override store is corrupt |
| `gate_latest` | 1 check of `Latest`, 2 versions | violated, see below |
| `override_races` | 3 writers, 2 keys, crashes, full disks, lost rows | `TornOnlyByOverlap`, `UndisturbedAddsStay`: an add that met no other writer is never lost to later ones. `UnloggedIsExplained`. `ConfigIsKept`: a second init or a crash never takes the first one's key away, unless both found no `config.json` |
| `hook_calls` | 2 tool calls, 5 commands of up to 3 segments, 2 configurations, 2 edits | `RunsOnlyVetted`: a command goes on only if no segment of either reading is blocked by its form, every gated segment of the reading that was chosen was approved with its rows, and the other has none besides unless both are equally strict, or through a named way past the gates. `DecisionsAreComplete`: also a denied command has the rows of all its segments. `NoNoticeOnceActive`: a gate that worked is not replaced by a notice, as long as the shim can look for its marker. `SegmentsAreReadRight`: every segment of up to three arguments, for 17 commands, is judged as something it fetches, in the version named, or fetches nothing that the gates judge, but for the listed misreadings |
| `hook_readings` | 1 tool call, 1 command of two readings | violated, see below |
| `lookups` | 1 process, 8 registries, 3 attempts, 1 change of the registry, archives of 4 entries in 3 levels, paths in 2 spellings, 5 forums, fairness | `GrantsKeepCeiling`: any run of grants keeps to one per period and the burst. `AgedAsPublished`: the date Gate 1 judges is one the registry gave, during this resolve, for the version in question; if nobody named a version, a tag of this resolve did (of a gem in the answer with the date; npm and crates.io may name a version in an answer that breaks off and date it in the next attempt's). `ScannedIsAged`: Gate 8 scans the version Gate 1 dated, unless the registry changed. `InTime`, `InBudget`: no call outlives its attempts, waits and deadline. `ScanIsBounded`: the scan stays in its limits. `ScanJudgesWhatStays`: it judges every hook that unpacking any one of the archives leaves, unless another archive or spelling in the package has a file of the same cleaned path. `VerdictIsEarned`: CLEAN only if all five forums answered without a hit. `LookupEnds`: every check ends |

Why the bounds are enough. In the audit log the third process is the first that can
chain from a fork another two made, and four lines allow a fork, a torn line and what
follows; the verdict on a line depends on that line and the one before it, so longer
logs repeat the cases (the proofs cover them). Three edits are the first number that can
move a line, change it and fit its neighbour. The cool-down is two days of two ticks or
one day, its floor, so versions are under, at and over each in four ticks (five in `gate_vetting`, so that one published inside a
second clears), and a second
is two ticks, so cutting to seconds matters at each of these edges; two checks are what
the race between one's `Get` and the other's `Put` needs. Three writers of the override
store are the first number where one can refill a file a second has renamed while a
third loads it. Two segments are the first number where one may block and the other
pass, in either order; two calls, one to activate the gate and one to miss it, with two
edits between them. Three arguments are the first number where an option, its value and
another word can stand in any order; every tool that takes an option with a value has one or
more of them in the model (`TakesValue`), the others would add nothing that the parser
tells apart. In `lookups` an attempt takes nothing or the whole timeout, two retries are the code's own
number, and the budget of a scan is cut by the second of its attempts, so deadlines fall
into attempts and into waits; three artifacts of one ecosystem are the first that can be
charged for a deficit and come after it. Four entries in three levels allow a path that is replaced inside a nested archive, in the archive
around it or in another spelling, and limits that are reached on either side of it; a total of
five lets a nested archive have less than its outer one. Only the archives of some packages,
fetched at once, are that long (`Length`): what a scan does depends neither on the time nor on
what went before it. `MaxLines`, `MaxEdits`, `MaxVersion`, `MaxTime`, `Jobs`, `Contents`,
 `Durations`, `Sizes`, `Length`, `Spellings`, `Files` and `Segments` are bounds of the model;
`MaxRetries`, `MaxTotal`, `MaxEntries`, `MaxPerEntry` and `MaxDepth` are limits of the code,
made small. A version of a registry may come to have a date; that a document gives two
versions of one list the same name is not modelled.

Deadlock is not checked in the audit and override runs: there everything comes to rest when no
command runs; in `lookups` the process ends. In GatePipeline and HookAdapter something new
can always start, and deadlock is checked.

Fairness is assumed by two runs. `lookups` assumes that the process is scheduled: each
attempt has the timeout of the HTTP client, each wait is finite, each entry of an archive is
read or refused (`WF_vars(Step)`). In `gate_vetting` the clock goes on, a check that was started
is scheduled until it exits (each of its calls ends: the registry client has an overall
timeout), and somebody asks for the version again and again (strong fairness of
`Start`). The registry answers in this run; nothing promises progress during an outage.

## Where code and documentation disagree

* **A large cool-down is no cool-down** (`config_overflow`). From 106752 days on
  `time.Duration(days) * 24 * time.Hour` wraps, and config.json loosens the gate below
  the floor without a row.
* **A cached pass can regress** (`gate_latest`). The cache key of a request without a
  version does not change when the latest version does; the comment in `cache.go` argues
  from an artifact whose publication time stands still.
* **Installs of a reading that is dropped** (`hook_readings`). parse.go says that the two readings of a
  command with zero-width characters are united, so that it never under-blocks. Only a reading
  of a higher rank replaces the other one; if each has installs to gate, those that only the
  spaced one has are never judged.

Seen, but not runs of their own:

* Two appends at once read the same tail and write the same `seq`. `penrush audit verify`
  then says that the log "has been edited, reordered, or truncated". `RacesLookLikeRaces`
  says what such a log can be recognised by.
* client.go promises a "total budget 10s per gate check". The ten seconds are the timeout of
  one attempt; `InTime` has the bound that holds.
* cargo.go and rubygems.go speak of one request per second. Retries take no token, and each
  process has a bucket of its own; `GrantsKeepCeiling` is about one process's first attempts.
* The "exact deficit" of ratelimit.go is charged twice, in the tokens and in the clock: a
  caller after a deficit waits longer than the rate asks for, never less.
* A path given to a tool other than npx, dlx and go is judged as if it were a name
  (`KnowsPaths`), which no registry will know.
* A segment of several packages is judged by the first of them only. `ReadRight` asks for one of
  what is fetched.
* "A command that matches an install VERB but whose spec cannot be extracted FAILS CLOSED", says parse.go.
  `git clone -b dir https://github.com/c/d` is ignored all the same, because git clone is
  recognised by its first argument; `cargo install --locked` of a named crate, `gh repo clone`
  without an owner, and names that all stand behind a redirection or npx's `--` are silent too.
  The others in `KnownMisread` are judged under a wrong name or version, which the registry will
  mostly not know.
* A gate that worked and vanished is to block, says penrush-hook. `[ -f marker ]` is also false
  when the directory cannot be searched, and then the shim answers with the notice and exit
  code 0 (`"unseen"` in HookAdapter).
* hook.go says that "a denial is never allowed to degrade into a non-blocking exit". Only a failure
  to encode it falls back to exit code 2; a failed write to standard output is not looked at, and
  exit code 0 without JSON lets the command go on (`"unheard"`).
* penrush-hook "only ever exits" 0 or 2, unless the binary goes away between `command -v` and
  `exec`: 127 blocks nothing (`"vanished"`).
* The inner files of a gem are to be judged, says locate.go. All archives of a package share one map
  by cleaned path: an entry of the outer tar behind data.tar.gz replaces the inner file, which
  alone is installed. `ScanJudgesWhatStays` exempts such files.
* archive.go wants one budget shared with nested archives. What is skipped inside one is not
  charged to the next (`ScanIsBounded` has the bound that holds: one allowance per stream).
* `uv pip install` is judged as pip install is.
* Two `override add` at once share one `.tmp`: the second may refill the file that the
  first renames into place and then fail to rename, so that an override is in force whose
  command failed and left no row. `UnloggedIsExplained` says when this can be.

SECURITY.md says that truncation breaks `audit verify`; lines
missing at the end of a log are not noticed (`VerifiedLinesAreOriginal` promises a
beginning of what was written, and no more). Empty lines and white space around a line
are not noticed either.

## Proofs

Every invariant that a passing run checks has a theorem. TLAPS proves it for every value of the
constants, from the assumptions stated in the modules, which say what the code fixes (limits are
numbers, a burst and a period are positive, a wait before each retry is finite) or what the
environment can present: `JobsAssumption` the ecosystems and that registries answer with
documents, `SegmentsAssumption` that arguments are of the forms above, `EditBoundsAssumption` only
that two bounds are numbers. TLC evaluates each of them on the instances it checks.

`DataInduction` holds what several proofs need and the library has only as theorems about an
operator: induction over numbers and over finite sets, from the least counterexample
(`NumberInduction`, `SetInduction`), and the sum of a function (`SumFunction` of the community
modules) when a value is added, changed or taken away.

* `AuditLogProofs!TypeCorrect`, `RacesAreRecognisable`, `AcknowledgedStays`,
  `SerialLogVerifies`. None of the three properties is inductive alone. That a fork
  can only show as a wrong `seq` needs to know where every line came from. `RaceInv`
  says that the hash of each line that parses is computed from its own fields
  (`SelfHashed`); that its `prev` is the hash stored in the line before, as long as the
  sequence numbers up to it are in order (`Linked`); and that what a process holds
  between tail and write is, while they are in order, either the present tail or has a
  `seq` too small to look right (`TailOrStale`). `SerialInv` adds that while `Overlap` is
  FALSE the one process inside `Append` holds the present tail.
* `AuditLogProofs!TornLineStops`: a step of an action that would change anything needs a tail, and
  `tail()` has none to give while a line is torn.
* `AuditLogProofs!SerialAppendKeepsTrail`, the refinement of AuditTrail: the initial states map to
  the initial state, and each action to a step of the trail or to none. It assumes `Serial`,
  that calls do not overlap and that no write stops between its line and the newline. Both are
  needed: the next `Append` continues a line that has no newline, and what it wrote there is
  acknowledged and cannot be read (`AckedKept` says what is left then). The invariant `TrailInv`
  is that of `SerialAppendLinks` (the process past `tail()` holds the last entry's hash) with
  `AckedKept` and three facts: only the last line can be corrupt, a file without its newline ends
  in a line `tail()` refuses, and finitely many entries are acknowledged. What a process writes
  then extends the readable part by one.
* `AuditEditsProofs!VerifiedIsOriginal`, for logs of any length and any number of edits. Edits copy
  hashes and make none (`EditInv`: every hash in the file is one that was written), and a
  hash holds its entry's content and sequence number, so that a line that carries its own hash and
  the right number is the one written there. The check of `prev_hash` is not needed for this.
* `ConfigProofs!TypeInvariant`, `FloorAlwaysHolds`, `ClampsAlwaysTraced`. The invariant ties the rows of
  the last load to what it loaded; the rest is arithmetic on `Cooldown` and `Wrapped`.
* `GateProofs!PipelineInvariant`, `PipelineTypes`, `GateOneIsSound`, `CacheIsTruthful`,
  `AllowIsEarned`. `PassIsMature` and `CacheTellsTruth` need each other: a verdict from
  the cache is sound because the entry is true, and an entry is true because the check
  that wrote it still held the registry's answer (`Found`). The invariant `Inv` also says
  of each check at each step what its rows and its preliminary exit code prove
  (`Rows`), what Gate 8 may have said (`Scanned`) and that its cool-down is no less than
  the floor. The proof has one lemma per action; that publishing only adds and that
  cutting a time to seconds never moves it forward are the facts that carry it.
* `OverrideProofs!OverrideTypes`, `ConfigAlwaysKept`, `NeverTornAlone`, `AddsAlwaysStay`,
  `UnloggedAlwaysExplained`, for any number of writers. A writer that met no other one had the
  `.tmp` to itself from its load to its rename (`Alone`, `OwnFile`), so that its override is
  in no file and no other memory before it is in place (`FilesExplained`,
  `ViewsExplained`), and whoever saves afterwards loaded what it left (`Passed`). Of two
  inits, the later one to look finds config.json unless they looked at the same time
  (`ConfigInv`).
* `HookProofs!HookTypes`, `OnlyVettedCommandsRun`, `DecisionsAlwaysComplete`,
  `NoticeOnlyBeforeActivation`, for any commands and any number of calls. Calls share only
  the installation, so the invariant is one of each call (`CallInv`): every segment before
  the one in hand has its rows, a row of a block is remembered in `blocked`, and a call that
  is past the parser has no blocked segment in either reading. The last comes from
  `BlocksAreSeen`: a block has the highest rank, so the more restrictive reading has one if
  any does, and by the same argument it has all the installs, unless the other one is as strict.
  Nothing is proved of the installs that only the dropped one of two equals has:
  `hook_readings` shows that they go unjudged. A notice because no marker is there (`"notice"`) cannot
  follow an activation because `marker` is never removed; one because it cannot be seen can.
* `HookProofs!SegmentsAlwaysReadRight`, for segments of any length (`ReadsRight`): each is read as
  the tool takes it, or in one of the ways of `KnownMisread`. The two sides are defined apart, one
  from parse.go and one from the options of the tools, so the proof relates them: what stands in
  front of everything that is fetched is the value of an option or nothing; of npx, what `Roles`
  calls a package or a command is what stands behind `-p` or `-c` (`RolesAre`). Then there is one lemma
  per kind of tool.
* `InspectionProofs!GrantsAlwaysKeepCeiling`, `AlwaysInBudget`, `VerdictAlwaysEarned`. A bucket
  remembers neither its grants nor the rate; what makes the ceiling inductive is `Accounted`: the
  tokens left and the grants since any one of them fit in a full bucket and what came
  since. A budget is kept because whoever has a call in hand waits for it, and while Gate 8
  locates, the call's deadline is the scan's (`BudgetInv`). The forums' verdict is earned
  because a hit that was read is in hand, in a result, or its forum counts as unchecked
  (`HitIsKept`).

* `InspectionProofs!ScanAlwaysBounded`, `ScanAlwaysJudges`. The files that are kept are part of what
  was read, a file that is replaced only lowers their sum; each stream has delivered what its
  allowance lost, so all of them together stay within one allowance per stream (`LimitInv`,
  `ScanOK`). At each cleaned path of interest the scan keeps what one of the streams leaves there, in one
  of the spellings, so what it keeps is the only one's if one alone has the path (`ReadAsLeft`); the paths
  that are looked at for hooks are among these. If several have it, the theorem says nothing of
  the file that was replaced.
* `InspectionProofs!CallsAlwaysInTime`. What a call in attempt n has taken is at most n timeouts, the n
  waits before it and, if it returned, one more timeout (`Timely`); fewer waits add up to less
  (`FewerIsShorter`).
* `InspectionProofs!AlwaysAgedAsPublished`, `AlwaysScannedIsAged`. A document that several answers were
  decoded into has, for each version, either no dates or those that one of the answers gave it,
  and each tag of it is one that an answer gave (`Informed`, `FromAnswers`): decoding again keeps
  this, since it takes or leaves the dates of a version as a whole. For the lists of RubyGems the
  dates and the tags come from one and the same answer. `KnownInv` carries this to the second question
  and to what Gate 1 found; while nobody publishes, all answers come from one registry, which is why
  Gate 8 finds the same version.
* `InspectionProofs!TypesAlwaysOK`.

Only model-checked: the liveness properties `LookupEnds` and `BlockedVersionsClear`, because fairness
and ENABLED are out of the prover's reach, and the three properties that are violated. What is
proved of `KeepsTrail` is proved for calls one at a time, as the run checks it. No module declares
a RECURSIVE operator.

## Left out, and why

* JSON, RFC 3339 text, regular expressions, colours and messages: formatting. What a
  conversion loses is modelled where a property depends on it (seconds in the cache and
  in overrides, bytes against parsed entries in `Verify`).
* Lines longer than the 4 MiB that `tail()` can scan, which have the effect of a corrupt
  line.
* Power failures: nothing calls fsync. A line lost from the end of the log is the
  `Truncate` of AuditEdits; a renamed file that is empty after a power failure is not modelled.
* A third person who knows the cache key or recomputes hashes: outside what the code
  claims.
* The race of two `Put`s on one `.tmp` of the cache: it can only leave a file that `Get`
  takes for a miss.

* The text of commands: quoting, separators, command substitution, and splitting a line into
  segments. CommandParser begins where a segment is taken apart. `TakesValue` has an option
  or two per tool, of the many that take values.
* Host names, addresses, redirects and the bytes of tar, gzip and zip: each refusal is one
  way for a fetch or a walk to fail (`FetchFails`, `ScanFails`).
* The regular expressions of the sinks, of the forums' red flags and of redaction. A text is
  what they find in it.
* The live fetch of images for Gate 8, which the code refuses (`StartScan`).
* Argument dispatch, the site and the build.

## Plan

Every component with state of its own is modelled, and every invariant that is checked is proved.
What is left: `BlockedVersionsClear` and `LookupEnds` rest on steps of which the safety part (a
measure that every step lowers) could be proved; that GatePipeline may take an answer or a
failure for what Inspection does in many steps is an argument in this text, and could be a
refinement; and lines too long for `tail()` to read.
