---------------------------- MODULE MCHookAdapter -----------------------------
(* TLC instances of HookAdapter and CommandParser. *)
EXTENDS HookAdapter

Symmetry == Permutations(Calls)

\* Every segment of up to three of the arguments that matter to its tool.
Name(n, place) == Word(n, "none", NoVersion, place)
ArgumentsOf ==
  [v \in {"npm install", "pnpm add"} |->
     {Flag("-E"), Flag("--registry"), Redirect, Name("a", "registry"), Word("b", "@", "1", "registry"),
      Name("./c", "local")}]
  @@ [v \in {"pip install", "uv add"} |->
     {Flag("-r"), Flag("-i"), Flag("--index"), Flag("--require-hashes"), Name("a", "registry"),
      Word("b", "==", "1", "registry"), Word("c", "bound", NoVersion, "registry"), Word("", "==", "1", "registry")}]
  @@ [v \in {"npx"} |->
     {Flag("-p"), Flag("-c"), Flag("-y"), Flag("--registry"), Separator, Redirect, Name("./a", "local"),
      Name("a", "registry"), Word("b", "@", "1", "registry")}]
  @@ [v \in {"docker run"} |->
     {Flag("-d"), Flag("-e"), Name("a", "registry"), Word("b", ":", "1", "registry"),
      Word("b", "@", "sha256", "registry")}]
  @@ [v \in {"git clone", "gh repo clone"} |->
     {Flag("-b"), Flag("-u"), Separator, Redirect, Name("dir", "none"), Name("a/b", "owner/repo"),
      Name("c/d", "github")}]
  @@ [v \in {"claude mcp add", "winget install"} |-> {Flag("-t"), Flag("-x"), Name("a", "registry")}]
  @@ [v \in {"cargo install", "gem install"} |->
     {Flag("--locked"), Flag("--version"), Flag("-v"), Redirect, Name("a", "registry"), Name("1", "none"),
      Word("b", "@", "1", "registry"), Word("b", ":", "1", "registry")}]
  @@ [v \in {"go get"} |->
     {Flag("-u"), Flag("-C"), Name("./...", "local"), Name("a", "registry"),
      Word("b", "@", "1", "registry"), Word("b", "@", "latest", "registry")}]
  @@ [v \in {"npm ci", "poetry install", "ls"} |-> {Flag("--no-lock"), Name("a", "registry")}]

Segment(verb, args) == [verb |-> verb, args |-> args]
MCSegments ==
  {seg \in UNION {{Segment(v, args) : args \in UNION {[1..n -> ArgumentsOf[v]] : n \in 0..3}}
                  : v \in DOMAIN ArgumentsOf} : Sensible(seg)}

\* A command of these segments, and in its second reading of those (of which \o makes
\* sequences that TLC's workers need not evaluate).
Command(dropped, spaced) ==
  [bash |-> TRUE, dropped |-> ClassifyAll(dropped) \o <<>>, spaced |-> ClassifyAll(spaced) \o <<>>]
Plain(segs) == Command(segs, segs)

Ls == Segment("ls", <<>>)
Frozen == Segment("npm ci", <<>>)
Crate == Segment("cargo install", <<Name("a", "registry")>>)
Gem == Segment("gem install", <<Name("a", "registry")>>)
Wheel == Segment("pip install", <<Word("b", "==", "1", "registry")>>)
Loose == Segment("pip install", <<Name("b", "registry")>>)

TwoInstalls == Command(<<Frozen, Crate, Wheel>>, <<Gem>>)

MCConfigs == {[mode |-> "allow", gate8 |-> FALSE]}

\* No shell command; an install from a lockfile; two installs behind one, and another in
\* the second reading, which is as strict; and two commands whose second reading is the
\* stricter.
MCCommands ==
  { [Plain(<<Crate>>) EXCEPT !.bash = FALSE],
    Plain(<<Frozen>>), TwoInstalls,
    Command(<<Ls>>, <<Ls, Wheel>>), Command(<<Wheel>>, <<Wheel, Loose>>) }

MCTwoReadings == {TwoInstalls}
==============================================================================
