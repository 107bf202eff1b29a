------------------------------ MODULE Inspection ------------------------------
(***************************************************************************)
(* What one penrush process asks of the network.  For each artifact of a   *)
(* check or a hook call Gate 1 resolves a publication time (the Resolve    *)
(* methods of internal/registry) and Gate 8 locates, fetches and scans the *)
(* package (internal/payload/scanner.go and locator.go); "check --forums"  *)
(* ends with the forums.  The process does one thing at a time, while the  *)
(* registry may publish.  Verdicts, overrides and the cache are            *)
(* GatePipeline's: here an artifact passes Gate 1 or not once it is dated. *)
(***************************************************************************)
EXTENDS RegistryClient, ArchiveScan, ForumScan

CONSTANTS
  Jobs,          \* bound: what a process may be asked, and how often the registry changes
  Length(_, _),  \* bound: how many entries an archive has that a job fetches at a time
  Contents,      \* bound: what the registry of an ecosystem may hold
  Budget,        \* DefaultBudget of a scan
  EnrichTimeout  \* the timeout of the MCP lookup

ASSUME InspectionAssumption == Budget \in Nat /\ EnrichTimeout \in Nat

\* What one can be asked, and what registries may answer: their documents date versions,
\* repositories and images by these fields.
ASSUME JobsAssumption ==
  /\ {"published_at", "pushed_at", "created_at", "tag_last_pushed", "last_updated"} \subseteq Versions
  /\ \A j \in Jobs :
       /\ j.eco \in {"npm", "pypi", "cargo", "gem", "go", "github", "docker", "mcp"}
       /\ \/ j.version \in Versions \cup {None}
          \/ j.eco = "docker" /\ j.version \in {"tag", "digest", "elsewhere"}
       /\ j.segments \in Nat \ {0} /\ j.changes \in Nat
       /\ Contents[j.eco] \subseteq Documents

VARIABLES
  job,     \* ecosystem, version, how many artifacts of the kind, Gate 8, forums
  me,      \* the artifact in hand
  changes  \* how often the registry changed

vars == <<now, bucketvars, registry, get, scan, forums, job, me, changes>>

\* at: the artifact's number; wanted: the version asked for; key and date: what Gate 1
\* found; located: the version Gate 8 scans; began: when its scan did.  History: seen, the
\* registry as it was when it answered Gate 1; moved, it changed since.
Fresh(n) == [pc |-> "resolve", at |-> n, wanted |-> None, key |-> None, date |-> 0,
             located |-> None, began |-> 0, seen |-> {}, moved |-> FALSE]

Init ==
  /\ BucketInit
  /\ job \in Jobs /\ registry \in Contents[job.eco] /\ changes = 0
  /\ get = NoGet /\ scan = NoScan /\ forums = NoForums
  /\ me = Fresh(1)

-----------------------------------------------------------------------------
(* What the registries' answers hold. *)

Governed == {"cargo", "gem"}      \* a token bucket
Scripted == {"npm", "pypi", "cargo", "gem", "docker"}   \* gate8Ecosystems

\* The dates that an endpoint gives, by the version asked for.
DatesAt(url, version) ==
  CASE url = "versions" -> Versions
    [] url = "release"  -> {version}
    [] url = "latest"   -> {"published_at"}
    [] url = "repo"     -> {"pushed_at", "created_at"}
    [] url = "tag"      -> {"tag_last_pushed", "last_updated"}
    [] OTHER            -> {}

Served ==
  [tags  |-> IF get.url \in {"versions", "project"} THEN registry.tags ELSE EmptyDoc.tags,
   dates |-> [v \in Versions |-> IF v \in DatesAt(get.url, me.wanted)
                                 THEN registry.dates[v] ELSE {}]]

\* What of a document is a list, and not merged into what was there.
Lists ==
  CASE job.eco = "cargo" -> {"dates"} [] job.eco = "pypi" -> {"dates"}
    [] job.eco = "gem" -> {"tags", "dates"} [] OTHER -> {}

\* The tag that names the version to take: npm's latest, cargo's max_version or else its
\* newest_version, a gem's first release or else its first version.
Default(doc) ==
  IF doc.tags[1] # None \/ job.eco \notin Governed THEN doc.tags[1] ELSE doc.tags[2]

\* The version that was named is ignored.
BugTarget(doc) == Default(doc)

Target(doc) == IF me.wanted # None THEN me.wanted ELSE Default(doc)

\* It has dates, of one file or several, that all parse.
Dated(doc, key) == doc.dates[key] # {} /\ Bad \notin doc.dates[key]

-----------------------------------------------------------------------------
(* The artifact's way through the gates. *)

\* One artifact too many.
BugOneMore ==
  /\ me' = IF me.at <= job.segments THEN Fresh(me.at + 1)
           ELSE [Fresh(me.at) EXCEPT !.pc = IF job.forums THEN "forums" ELSE "done"]
  /\ get' = NoGet /\ scan' = NoScan

\* An artifact is decided: the next one, the forums, or the end.
Decided ==
  /\ me' = IF me.at < job.segments THEN Fresh(me.at + 1)
           ELSE [Fresh(me.at) EXCEPT !.pc = IF job.forums THEN "forums" ELSE "done"]
  /\ get' = NoGet /\ scan' = NoScan

FirstUrl ==
  LET urls == [npm |-> "versions", cargo |-> "versions", gem |-> "versions", go |-> "release",
               pypi |-> IF job.version = None THEN "project" ELSE "release",
               github |-> "latest", docker |-> "tag", mcp |-> "servers"] IN
  urls[job.eco]

\* What is refused or passed without a question: a Go module without a version, an image
\* of another registry by its tag; an image by its digest.
Refused == (job.eco = "go" /\ job.version = None) \/ (job.eco = "docker" /\ job.version = "elsewhere")
Pinned == job.eco = "docker" /\ job.version = "digest"

Resolved(key, date, seen) ==
  /\ me' = [me EXCEPT !.pc = "dated", !.wanted = job.version, !.key = key, !.date = date,
                      !.seen = seen]
  /\ get' = NoGet /\ UNCHANGED scan

\* Gate 1 has a date: the artifact is too young, or Gate 8 has its turn, if it is on and
\* the ecosystem runs scripts.
Judged ==
  /\ me.pc = "dated"
  /\ \/ Decided
     \/ job.gate8 /\ job.eco \in Scripted /\ me' = [me EXCEPT !.pc = "locate"] /\ UNCHANGED <<get, scan>>
  /\ UNCHANGED <<now, bucketvars, forums, registry, job, changes>>

ResolveUnasked ==
  /\ me.pc = "resolve"
  /\ (Refused /\ Decided) \/ (Pinned /\ Resolved(None, 0, {}))
  /\ UNCHANGED <<now, bucketvars, forums, registry, job, changes>>

\* Each resolve of a governed ecosystem takes a token; its retries take none.
TakeToken ==
  /\ me.pc = "resolve" /\ job.eco \in Governed
  /\ Wait
  /\ me' = [me EXCEPT !.pc = "governed"]
  /\ UNCHANGED <<get, scan, forums, registry, job, changes>>

AskRegistry ==
  /\ me.pc = IF job.eco \in Governed THEN "governed" ELSE "resolve"
  /\ ~Refused /\ ~Pinned
  /\ Call(FirstUrl, IF job.eco = "mcp" THEN {now + EnrichTimeout} ELSE {})
  /\ me' = [me EXCEPT !.pc = "resolving", !.wanted = job.version]
  /\ UNCHANGED <<now, bucketvars, scan, forums, registry, job, changes>>

\* A call of GetJSON, for either gate.
Fetching ==
  /\ AttemptFails \/ AttemptCut \/ BackOff
     \/ AttemptMistyped(Served, Lists) \/ AttemptAnswers(Served, Lists)
  /\ UNCHANGED <<bucketvars, scan, forums, me, registry, job, changes>>

Answered == get.pc = "done" /\ get.err = "none"

\* Any failure of the first question is taken for a repository without releases.
BugMaskOutage ==
  IF get.url = "project" /\ Answered /\ get.doc.tags[1] # None THEN "release"
  ELSE IF get.url = "latest" /\ ~(Answered /\ Dated(get.doc, "published_at")) THEN "repo"
  ELSE "none"

\* A second question.  PyPI's project page only names the version, whose own page has
\* the dates.  A GitHub repository without a dated release is dated by its last push; an
\* outage is not taken for that.
FollowUp ==
  IF get.url = "project" /\ Answered /\ get.doc.tags[1] # None THEN "release"
  ELSE IF get.url = "latest" /\ (get.err = "notfound" \/ (Answered /\ ~Dated(get.doc, "published_at")))
  THEN "repo"
  ELSE "none"

\* A 404 is as good as an answer without dates.
Seen == me.seen \cup get.at \cup (IF get.err = "notfound" THEN {EmptyDoc} ELSE {})

AskAgain(deadline) ==
  /\ Call(FollowUp, deadline)
  /\ me' = [me EXCEPT !.seen = Seen, !.wanted = IF FollowUp = "release" THEN get.doc.tags[1] ELSE @]
  /\ UNCHANGED scan

\* The keys an answer is searched for, in this order; the first that is there counts
\* (for a repository, the first that is dated).
Candidates ==
  CASE get.url = "latest" -> <<"published_at">>
    [] get.url = "repo"   -> <<"pushed_at", "created_at">>
    [] get.url = "tag"    -> <<"tag_last_pushed", "last_updated">>
    [] OTHER              -> <<Target(get.doc)>>

Counts(key) ==
  key # None /\ IF get.url = "repo" THEN Dated(get.doc, key) ELSE get.doc.dates[key] # {}

Key ==
  LET found == {i \in DOMAIN Candidates : Counts(Candidates[i])} IN
  IF found = {} THEN None ELSE Candidates[Min(found)]

\* An MCP server is not resolved, whatever its registry answered.
Resolvable == Answered /\ job.eco # "mcp" /\ Key # None /\ Dated(get.doc, Key)

\* Whatever failed, the gate blocks.
ResolveEnds ==
  /\ me.pc = "resolving" /\ get.pc = "done"
  /\ IF FollowUp # "none" THEN AskAgain({})
     ELSE IF Resolvable THEN Resolved(Key, Max(get.doc.dates[Key]), Seen)
     ELSE Decided
  /\ UNCHANGED <<now, bucketvars, forums, registry, job, changes>>

-----------------------------------------------------------------------------
(* Gate 8. *)

Deadline == me.began + Budget

\* Scan: Docker is not implemented, npm and PyPI tell where the package is, for the
\* others it is known (and for no version it is nowhere).
StartScan ==
  /\ me.pc = "locate"
  /\ IF job.eco = "docker" THEN Decided
     ELSE /\ IF job.eco \in Governed
             THEN me' = [me EXCEPT !.pc = "fetch", !.began = now, !.located = job.version]
                  /\ UNCHANGED get
             ELSE me' = [me EXCEPT !.pc = "locating", !.began = now]
                  /\ Call(FirstUrl, {now + Budget})
          /\ UNCHANGED scan
  /\ UNCHANGED <<now, bucketvars, forums, registry, job, changes>>

Locatable == Answered /\ Target(get.doc) # None /\ get.doc.dates[Target(get.doc)] # {}

LocateEnds ==
  /\ me.pc = "locating" /\ get.pc = "done"
  /\ IF FollowUp # "none" THEN AskAgain({Deadline})
     ELSE IF Locatable
          THEN me' = [me EXCEPT !.pc = "fetch", !.located = Target(get.doc)]
               /\ get' = NoGet /\ UNCHANGED scan
     ELSE Decided
  /\ UNCHANGED <<now, bucketvars, forums, registry, job, changes>>

\* A URL that is not https, has credentials or another host than the ecosystem's, an
\* address that is private, a status, the size, a format nobody knows, or the deadline.
FetchFails ==
  /\ me.pc = "fetch"
  /\ \E d \in Durations : now' = IF now + d <= Deadline THEN now + d ELSE Deadline
  /\ Decided
  /\ UNCHANGED <<bucketvars, forums, registry, job, changes>>

\* What the artifact was dated by is not needed any more.
Fetch ==
  /\ me.pc = "fetch" /\ me.located # None /\ registry.dates[me.located] # {}
  /\ \E d \in Durations : now + d <= Deadline /\ Elapse(d)
  /\ \E zip \in {FALSE} \cup {job.eco = "pypi"} : Open(job.eco, zip)
  /\ me' = [Fresh(me.at) EXCEPT !.pc = "scan"]
  /\ UNCHANGED <<bucketvars, forums, registry, job, changes, get>>

Scanning ==
  /\ WalkArchive /\ scan'.entries <= Length(job, now)
  /\ UNCHANGED <<now, bucketvars, forums, registry, job, changes, get, me>>

\* Gate 8 passes what was read, or blocks: by a finding or because the scan failed.
ScanEnds ==
  /\ me.pc = "scan" /\ scan.pc \in {"done", "failed"}
  /\ Decided
  /\ UNCHANGED <<now, bucketvars, forums, registry, job, changes>>

-----------------------------------------------------------------------------
Foruming ==
  /\ me.pc = "forums"
  /\ \/ forums.pc = "idle" /\ AskForums /\ UNCHANGED me
     \/ ForumStep /\ UNCHANGED me
     \/ forums.pc = "done" /\ me' = [me EXCEPT !.pc = "done"] /\ UNCHANGED forums
  /\ UNCHANGED <<now, bucketvars, registry, get, scan, job, changes>>

\* Somebody publishes, or withdraws; only calls of GetJSON and Fetch would notice.
RegistryChanges ==
  /\ changes < job.changes /\ me.pc \in {"resolving", "locate", "locating", "fetch"}
  /\ registry' \in Contents[job.eco] \ {registry}
  /\ changes' = changes + 1
  /\ me' = [me EXCEPT !.moved = TRUE]
  /\ UNCHANGED <<now, bucketvars, get, scan, forums, job>>

Step ==
  \/ ResolveUnasked \/ TakeToken \/ AskRegistry \/ Fetching \/ ResolveEnds \/ Judged
  \/ StartScan \/ LocateEnds \/ FetchFails \/ Fetch \/ Scanning \/ ScanEnds \/ Foruming

Next == Step \/ RegistryChanges

Spec == Init /\ [][Next]_vars

\* The process is scheduled; each attempt, wait and read ends.
FairSpec == Spec /\ WF_vars(Step)

-----------------------------------------------------------------------------
TypeOK ==
  /\ now \in Nat /\ tokens \in Int /\ last \in 0..now /\ grants \in Seq(Nat)
  /\ job \in Jobs /\ registry \in Contents[job.eco] /\ changes \in 0..job.changes
  /\ get.pc \in {"idle", "send", "backoff", "done"} /\ get.attempt \in 0..MaxRetries
  /\ me.at \in 1..job.segments
  /\ {me.key, me.located, me.wanted} \subseteq Versions \cup {None, "digest", "tag", "elsewhere"}
  /\ scan.pc \in {"idle", "walk", "done", "failed"} /\ forums.at \in 1..Len(Forums) + 1

\* What Gate 1 takes for the publication time is what the registry said, at one moment
\* of this resolve, of the version it is about, although several answers are decoded into
\* one value, some of them broken; a version nobody named is one a tag named in this
\* resolve, at the same moment if it is a gem (npm, crates.io and PyPI may name it in one
\* answer and date it in another); and a repository is dated by its last push only if it
\* had no dated release then.
AgedAsPublished ==
  LET AgedAt(m) == Dated(m, me.key) /\ Max(m.dates[me.key]) = me.date
      TaggedAt(m) == job.version # None \/ me.key \in {m.tags[1], m.tags[2]} IN
  me.key # None =>
    CASE job.eco = "gem" -> \E m \in me.seen : AgedAt(m) /\ TaggedAt(m)
      [] job.eco \in {"npm", "cargo", "pypi"} ->
           (\E m \in me.seen : AgedAt(m)) /\ (\E m \in me.seen : TaggedAt(m))
      [] job.eco = "github" ->
           /\ \E m \in me.seen : AgedAt(m)
           /\ me.key # "published_at" => \E m \in me.seen : ~Dated(m, "published_at")
      [] OTHER -> \E m \in me.seen : AgedAt(m)

\* Gate 8 scans the version that Gate 1 dated, although it asks again, unless the registry
\* changed in between.
ScannedIsAged ==
  me.pc = "fetch" /\ me.located # None => me.located = me.key \/ me.moved

\* No call of GetJSON takes longer than its attempts and backoffs (client.go:5 promises
\* "total budget 10s per gate check", which is the limit of one attempt).
LongestWait == SumFunction([n \in 1..MaxRetries |-> Max(Backoff[n])])

InTime == get.pc # "idle" => now - get.began <= (MaxRetries + 1) * Timeout + LongestWait

\* Gate 8 keeps its budget and the MCP lookup its timeout, whatever is retried, waited
\* for or asked a second time within it.
InBudget ==
  /\ get.pc # "idle" => \A t \in get.deadline : now <= t
  /\ me.pc \in {"locating", "fetch"} => now <= Deadline

\* Every check and every hook call comes to an end, whatever the registries, hosts and
\* forums answer, and whatever the archives are made of.
LookupEnds == <>(me.pc = "done")
==============================================================================
