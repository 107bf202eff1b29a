---------------------------- MODULE CommandParser -----------------------------
(***************************************************************************)
(* internal/cli/parse.go: what a shell command means to the gates.  Each   *)
(* shell segment is classified by itself: ignored, allowed by its form,    *)
(* blocked by its form, or an artifact for the gates to judge.             *)
(*                                                                         *)
(* A segment is taken apart already: its command, a tool and a verb, at    *)
(* the beginning, and its arguments.  Quoting, separators and characters   *)
(* without width are text.  The last section is not the parser's: it says  *)
(* what the tools do with such a segment, and where the parser errs.       *)
(***************************************************************************)
EXTENDS Integers, Sequences, FiniteSets, SequencesExt

CONSTANT Segments   \* bound: the segments whose reading is checked

Kinds == { "ignore",   \* no install
           "frozen",   \* an install from a lockfile
           "gate",     \* an install of an artifact that the gates are to judge
           "block" }   \* an install that is blocked by its form

-----------------------------------------------------------------------------
(* Arguments.  A word names something: how tells what stands before the    *)
(* version, place what the word looks like.                                *)

NoVersion == ""

Flag(name) == [kind |-> "flag", name |-> name, version |-> NoVersion, how |-> "none", place |-> "none"]
Word(name, how, version, place) ==
  [kind |-> "word", name |-> name, version |-> version, how |-> how, place |-> place]
Redirect == [Flag(">") EXCEPT !.kind = "redirect"]
Separator == [Flag("--") EXCEPT !.kind = "separator"]

\* The options that take a value (some of them).
TakesValue(verb) ==
  CASE verb = "npx" -> {"-p", "-c", "--registry"}
    [] verb \in {"npm install", "pnpm add", "yarn add"} -> {"--registry"}
    [] verb = "pip install" -> {"-r", "-i"} [] verb = "uv add" -> {"--index"}
    [] verb = "docker run" -> {"-e"} [] verb = "git clone" -> {"-b"}
    [] verb = "gh repo clone" -> {"-u"} [] verb = "claude mcp add" -> {"-t"}
    [] verb = "cargo install" -> {"--version"} [] verb = "gem install" -> {"-v"}
    [] verb = "go get" -> {"-C"} [] OTHER -> {}

Arguments ==
  [kind : {"flag", "word", "redirect", "separator"}, name : STRING, version : STRING,
   how : {"none", "@", "==", "bound", ":"}, place : {"none", "registry", "local", "owner/repo", "github"}]

\* What stands before a version, for each tool.
Separators(verb) ==
  CASE verb \in {"npm install", "pnpm add", "yarn add", "npx", "go get", "cargo install"} -> {"@"}
    [] verb \in {"pip install", "uv add"} -> {"==", "bound"}
    [] verb = "docker run" -> {"@", ":"} [] verb = "gem install" -> {":"} [] OTHER -> {}

\* Only words have a version or a place; a bound (">=") is no version.
WellFormed(t) ==
  /\ t.kind # "word" => t \in {Redirect, Separator, Flag(t.name)}
  /\ t.how \in {"none", "bound"} => t.version = NoVersion

\* Of a path, go takes no version, and nobody knows it from a repository.
Understood(verb, t) ==
  /\ t.how # "none" => t.how \in Separators(verb)
  /\ verb = "go get" /\ t.place = "local" => t.how # "@"
  /\ verb \in {"git clone", "gh repo clone"} => t.place # "local"

\* The value of an option and the target of a redirection are words.
Sensible(seg) ==
  /\ seg.args \in Seq(Arguments)
  /\ \A i \in DOMAIN seg.args :
       /\ WellFormed(seg.args[i]) /\ Understood(seg.verb, seg.args[i])
       /\ i > 1 /\ seg.args[i - 1] \in {Redirect} \cup {Flag(f) : f \in TakesValue(seg.verb)}
            => seg.args[i].kind = "word"

ASSUME SegmentsAssumption == \A seg \in Segments : Sensible(seg)

Has(seg, flag) == \E i \in DOMAIN seg.args : seg.args[i] = Flag(flag)

\* Arguments are taken by their places in the segment.
First(S) == CHOOSE i \in S : \A j \in S : i <= j

\* Those in front of a redirection.
Before(seg) == {i \in DOMAIN seg.args : \A j \in 1..i : seg.args[j].kind # "redirect"}

\* The words among them ("--" is skipped like a flag).
PositionalArgs(seg) == {i \in Before(seg) : seg.args[i].kind = "word"}

\* Those in front of "--" as well, unless it comes first.
OwnArgs(seg) == {i \in Before(seg) : \A j \in 2..i : seg.args[j].kind # "separator"}

\* What an argument of npx and its like (npm exec, pnpm dlx, bunx) looks like, and what it is
\* taken for, from the first to the last: -p and -c take whatever follows them.
LooksLike(t) ==
  IF t \in {Flag("-p"), Flag("-c")} THEN t.name ELSE IF t.kind = "word" THEN "bare" ELSE "none"

Roles(seg) ==
  LET role[i \in 0..Len(seg.args)] == IF i = 0 THEN "none"
                                      ELSE IF role[i - 1] = "-p" THEN "package"
                                      ELSE IF role[i - 1] = "-c" THEN "command"
                                      ELSE LooksLike(seg.args[i])
  IN role

\* The first bare word hides what -p names.
BugBareFirst(seg) == PositionalArgs(seg)

\* The packages that they run: those that -p names, or else the first bare word; what
\* follows -c is a shell command, what follows "--" is the package's.
ExecArgs(seg) ==
  LET explicit == {i \in OwnArgs(seg) : Roles(seg)[i] = "package"}
      bare     == {i \in OwnArgs(seg) : Roles(seg)[i] = "bare"} IN
  IF explicit # {} \/ bare = {} THEN explicit ELSE {First(bare)}

NotLocal(seg, S) == {i \in S : seg.args[i].place # "local"}

-----------------------------------------------------------------------------
(* The classification of a segment. *)

Result(action) == [action |-> action, eco |-> "none", name |-> "", version |-> NoVersion]
Ignore == Result("ignore")
Block == Result("block")

\* A name that came out empty blocks.
GateResult(eco, name, version) ==
  IF name = "" THEN Block
  ELSE [action |-> "gate", eco |-> eco, name |-> name, version |-> version]

\* "poetry install --no-lock" is no restore, if --no-lock comes first.
SafeFrozen(seg) ==
  \/ seg.verb = "npm ci"
  \/ seg.verb \in {"pnpm install", "yarn install"} /\ Has(seg, "--frozen-lockfile")
  \/ seg.verb \in {"uv sync", "bundle install"} /\ Has(seg, "--frozen")
  \/ seg.verb = "pip install" /\ Has(seg, "--require-hashes")
  \/ seg.verb \in {"cargo install", "cargo build"} /\ Has(seg, "--locked")
  \/ seg.verb = "poetry install" /\ (seg.args # <<>> => Head(seg.args) # Flag("--no-lock"))

\* npm pins what it saves; pnpm and yarn only have the name judged.
NpmAdd(seg, word) ==
  IF seg.verb = "npm install" /\ ~Has(seg, "-E") THEN Block
  ELSE GateResult("npm", word.name, word.version)

\* Only "==" gives a version, and pip insists on it ("uv pip install" as well).
PipInstall(seg, word) ==
  IF seg.verb = "pip install" /\ word.how # "==" THEN Block
  ELSE GateResult("pypi", word.name, IF word.how = "==" THEN word.version ELSE NoVersion)

\* The URL is looked for in the first argument of git clone, and in every one of gh repo
\* clone, which knows owner/repo as well.
GitClone(seg) ==
  IF seg.args # <<>> /\ seg.args[1].place = "github"
  THEN GateResult("github", seg.args[1].name, NoVersion) ELSE Ignore

GhRepoClone(seg) ==
  LET repos == {i \in PositionalArgs(seg) : seg.args[i].place \in {"github", "owner/repo"}} IN
  IF repos = {} THEN Ignore ELSE GateResult("github", seg.args[First(repos)].name, NoVersion)

\* The first argument with a version that is not latest; a module without one blocks,
\* unless all is the module at hand.
GoGet(seg) ==
  IF seg.args # <<>> /\ seg.args[1].how = "@"
  THEN IF seg.args[1].version = "latest" THEN Block
       ELSE GateResult("go", seg.args[1].name, seg.args[1].version)
  ELSE IF NotLocal(seg, PositionalArgs(seg)) # {} THEN Block ELSE Ignore

Npx(seg) ==
  LET specs == NotLocal(seg, ExecArgs(seg)) IN
  IF specs = {} THEN Ignore
  ELSE GateResult("npm", seg.args[First(specs)].name, seg.args[First(specs)].version)

\* Crates and gems are judged without the version they are named with.
ClassifySegment(seg) ==
  LET words == PositionalArgs(seg)
      word  == seg.args[First(words)]
      Named(result) == IF words = {} THEN Ignore ELSE result IN
  IF SafeFrozen(seg) THEN Result("frozen")
  ELSE CASE seg.verb \in {"npm install", "pnpm add", "yarn add"} -> Named(NpmAdd(seg, word))
         [] seg.verb = "pip install"     ->
              IF Has(seg, "-r") THEN Block ELSE Named(PipInstall(seg, word))
         [] seg.verb = "uv add"          -> Named(PipInstall(seg, word))
         [] seg.verb = "npx"          -> Npx(seg)
         [] seg.verb = "docker run"      -> Named(GateResult("docker", word.name, word.version))
         [] seg.verb = "git clone"       -> GitClone(seg)
         [] seg.verb = "gh repo clone"   -> GhRepoClone(seg)
         [] seg.verb = "claude mcp add"  ->
              IF words = {} THEN Block ELSE GateResult("mcp", word.name, NoVersion)
         [] seg.verb \in {"winget install", "brew install", "apt install"} -> Block
         [] seg.verb = "cargo install"   -> Named(GateResult("cargo", word.name, NoVersion))
         [] seg.verb = "gem install"     -> Named(GateResult("gem", word.name, NoVersion))
         [] seg.verb = "go get"          -> GoGet(seg)
         [] OTHER                        -> Ignore

ClassifyAll(segs) == [i \in DOMAIN segs |-> ClassifySegment(segs[i])]

-----------------------------------------------------------------------------
(* The classification of a command: one result for each segment, twice if  *)
(* it has characters without width, which are dropped or read as spaces.   *)

Results == [action : Kinds, eco : STRING, name : STRING, version : STRING]
CommandType == [bash : BOOLEAN, dropped : Seq(Results), spaced : Seq(Results)]

Rank(kind) ==
  CASE kind = "ignore" -> 0 [] kind = "frozen" -> 1 [] kind = "gate" -> 2 [] kind = "block" -> 3

MostRestrictive(results) ==
  Max({0} \cup {Rank(results[i].action) : i \in DOMAIN results})

\* The reading that is more restrictive as a whole; of equals, the one that drops.
Chosen(cmd) ==
  IF MostRestrictive(cmd.spaced) > MostRestrictive(cmd.dropped) THEN cmd.spaced ELSE cmd.dropped

\* Its segments of each kind; the ignored ones are dropped.
ParseInstallCommands(cmd) ==
  [kind \in Kinds \ {"ignore"} |-> {i \in DOMAIN Chosen(cmd) : Chosen(cmd)[i].action = kind}]

-----------------------------------------------------------------------------
(* What the tools do. *)

Ecosystem(verb) ==
  CASE verb \in {"npm install", "pnpm add", "yarn add", "npx"} -> "npm"
    [] verb \in {"pip install", "uv add"} -> "pypi"
    [] verb = "cargo install" -> "cargo" [] verb = "gem install" -> "gem" [] verb = "go get" -> "go"
    [] verb = "docker run" -> "docker" [] verb \in {"git clone", "gh repo clone"} -> "github"
    [] verb = "claude mcp add" -> "mcp" [] OTHER -> "none"

Follows(seg, i, flag) == i > 1 /\ seg.args[i - 1] = Flag(flag)
IsValue(seg, i) == \E f \in TakesValue(seg.verb) : Follows(seg, i, f)

\* The shell keeps a redirection and its target to itself; a tool takes the values of its
\* options, and has these words left.
Names(seg) ==
  {i \in DOMAIN seg.args : /\ seg.args[i].kind = "word" /\ ~IsValue(seg, i)
                           /\ i > 1 => seg.args[i - 1] # Redirect}

Least(S) == {i \in S : \A j \in S : i <= j}

\* The arguments that name what a tool fetches: all words; only the first of an image, a
\* server or a repository; what -p names in front of the first word of npx, or else that
\* word.  pip with --require-hashes takes no names from the command line.
Fetched(seg) ==
  CASE seg.verb = "npx" ->
         LET packages == {i \in DOMAIN seg.args : /\ Follows(seg, i, "-p")
                                                  /\ \A j \in Names(seg) : i < j} IN
         IF packages # {} THEN packages ELSE Least(Names(seg))
    [] seg.verb \in {"docker run", "claude mcp add", "git clone", "gh repo clone"} -> Least(Names(seg))
    [] seg.verb = "pip install" /\ Has(seg, "--require-hashes") -> {}
    [] OTHER -> Names(seg)

\* Of other hosts than GitHub git is not judged; a path is no name of anything.
Installs(seg) ==
  {i \in Fetched(seg) : /\ seg.args[i].place # "local" /\ Ecosystem(seg.verb) # "none"
                        /\ seg.verb = "git clone" => seg.args[i].place = "github"}

\* Of these tools the parser knows that they take paths; it judges one of another like a name.
KnowsPaths == {"npx", "go get"}

\* Nothing is installed that the gates do not hear of.
NotSilent(seg) == ClassifySegment(seg).action \in {"ignore", "frozen"} => Installs(seg) = {}

\* What is judged is fetched, of the tool's ecosystem and in the version that is named, if
\* things of that kind have one.
ReadRight(seg) ==
  LET read == ClassifySegment(seg) IN
  /\ NotSilent(seg)
  /\ read.action = "gate" =>
       /\ read.eco = Ecosystem(seg.verb)
       /\ \E i \in IF seg.verb \in KnowsPaths THEN Installs(seg) ELSE Fetched(seg) :
            /\ read.name = seg.args[i].name
            /\ read.version = IF read.eco \in {"github", "mcp"} THEN NoVersion
                              ELSE seg.args[i].version

(* Where the parser errs. *)

\* The value of an option stands in front of what is fetched (but go blocks it, and gh takes
\* it for a repository only if it looks like one).
ValueFirst(seg) ==
  /\ seg.verb # "go get"
  /\ \E i \in DOMAIN seg.args :
       /\ IsValue(seg, i) /\ (seg.verb = "npx" => Follows(seg, i, "--registry"))
       /\ \A j \in Fetched(seg) : i < j
       /\ seg.verb = "gh repo clone" => seg.args[i].place \in {"github", "owner/repo"}

\* All that is fetched stands behind a redirection, or behind the "--" of npx.
OutOfSight(seg) ==
  /\ Installs(seg) # {}
  /\ Installs(seg) \cap (IF seg.verb = "npx" THEN OwnArgs(seg) ELSE Before(seg)) = {}

\* There is a -p of the package's own behind npx's package; a crate with --locked; a crate
\* or gem with a version; a clone whose first argument is an option; one of a repository
\* without an owner.
KnownMisread(seg) ==
  \/ ValueFirst(seg) \/ OutOfSight(seg)
  \/ /\ seg.verb = "npx"
     /\ \E i \in DOMAIN seg.args : Follows(seg, i, "-p") /\ \E j \in Names(seg) : j < i
  \/ seg.verb = "cargo install" /\ Has(seg, "--locked") /\ Installs(seg) # {}
  \/ /\ seg.verb \in {"cargo install", "gem install"}
     /\ \E i \in Least(Fetched(seg)) : seg.args[i].version # NoVersion
  \/ seg.verb = "git clone" /\ Installs(seg) # {} /\ seg.args[1].kind # "word"
  \/ /\ seg.verb = "gh repo clone"
     /\ \E i \in Fetched(seg) : seg.args[i].place \notin {"github", "owner/repo"}
==============================================================================
