----------------------------- MODULE MCInspection -----------------------------
(* TLC instance of Inspection. *)
EXTENDS Inspection

Doc(tag, other, dates) ==
  [tags |-> <<tag, other>>, dates |-> [v \in Versions |-> IF v \in DOMAIN dates THEN dates[v] ELSE {}]]

Old == [v \in {"v1"} |-> {1}]
Both == [v \in {"v1", "v2"} |-> IF v = "v1" THEN {1} ELSE {3}]
Broken == [v \in {"v1"} |-> {1, Bad}]
Untagged == Doc(None, None, [v \in {"v1"} |-> {2}])
Tagged == {Doc("v1", None, Old), Doc("v2", "v1", Both), Doc(None, "v1", Broken)}

\* Of a repository, and of a tag on Docker Hub.
Release == [v \in {"published_at", "pushed_at"} |-> IF v = "pushed_at" THEN {3} ELSE {1}]
NoRelease == [v \in {"published_at", "pushed_at", "created_at"} |->
                IF v = "created_at" THEN {1} ELSE {Bad}]
Pushed == [v \in {"tag_last_pushed", "last_updated"} |-> {IF v = "last_updated" THEN 3 ELSE 2}]
Updated == [v \in {"last_updated"} |-> {3}]
Dates(set) == {Doc(None, None, d) : d \in set}

MCContents ==
  [npm |-> Tagged \cup {Untagged}, pypi |-> Tagged, cargo |-> Tagged, gem |-> Tagged \cup {Untagged},
   go |-> Dates({Old, Broken}), github |-> Dates({Release, NoRelease}),
   docker |-> Dates({Pushed, Updated}), mcp |-> Dates({Old})]

Job(eco, version, segments, gate8, asks) ==
  [eco |-> eco, version |-> version, segments |-> segments, gate8 |-> gate8, forums |-> asks,
   changes |-> IF segments = 1 THEN 1 ELSE 0]

\* Every registry, with a version and without; a command of three segments for the
\* bucket; and a check that goes on to the forums.
MCJobs ==
  {Job(eco, None, 1, TRUE, FALSE) : eco \in {"npm", "pypi"}}
  \cup {Job(eco, "v1", 1, TRUE, FALSE) : eco \in {"cargo", "gem"}}
  \cup {Job(eco, "v1", 1, FALSE, FALSE) : eco \in {"npm", "pypi"}}
  \cup {Job(eco, None, 1, FALSE, FALSE) : eco \in {"cargo", "gem"}}
  \cup {Job("docker", v, 1, TRUE, FALSE) : v \in {"tag", "digest", "elsewhere"}}
  \cup {Job("go", "v1", 1, TRUE, FALSE), Job("github", None, 1, TRUE, FALSE),
        Job("cargo", "v1", 3, FALSE, FALSE),
        Job("mcp", None, 1, TRUE, FALSE), Job("go", None, 1, FALSE, TRUE)}

\* A package of each ecosystem whose archives are scanned, of a version that one document
\* has; its archive is as long as a scan allows if it is fetched at once, since what a scan
\* does depends neither on the time nor on what went before.
MCPackages ==
  {[Job(eco, "v2", 1, TRUE, FALSE) EXCEPT !.changes = 0] : eco \in {"npm", "pypi", "cargo", "gem"}}
MCAllJobs == MCJobs \cup MCPackages
MCLength(j, time) == IF j \in MCPackages /\ time = 0 THEN MaxEntries ELSE 1

\* Jitter lengthens the second wait or does not.
MCBackoff == [n \in 1..2 |-> IF n = 1 THEN {1} ELSE {1, 2}]

\* A file that does nothing bad, one that fetches and executes, the two apart, code that
\* is hidden, and one that does not parse.
File(hooks) == [parses |-> TRUE, hooks |-> hooks]
MCFiles ==
  {File({{"fetch"}}), File({{"fetch", "exec"}}), File({{"fetch"}, {"exec"}}),
   File({{"exec", "obfuscated"}}), [parses |-> FALSE, hooks |-> {{}}]}
==============================================================================
