----------------------------- MODULE InstallScan ------------------------------
(***************************************************************************)
(* internal/installscan: which files of a package hold code that runs when *)
(* it is installed, and how severe what they do is.  A hook's text is the  *)
(* set of traits that the sinks' regular expressions find in it; a file is *)
(* the hooks declared in it, or JSON that does not parse.                  *)
(***************************************************************************)

Traits == {"fetch", "exec", "obfuscated"}

\* The paths of each ecosystem that can hold hooks, by the class of their names:
\* interestingFor of the payload package decides which entries are read ...
InterestingFor ==
  [npm |-> {"package.json"}, pypi |-> {"setup.py", "pyproject.toml", "build_hook.py"},
   cargo |-> {"build.rs"}, gem |-> {"extconf.rb", "ext/ext.c"}]

\* ... and Locate which of those read it looks at.
LocatedIn ==
  [npm |-> {"package.json"}, pypi |-> {"setup.py", "pyproject.toml", "build_hook.py"},
   cargo |-> {"build.rs"}, gem |-> {"extconf.rb", "ext/ext.c"}]

\* The hooks of a file.  Each lifecycle script of a package.json is one of its own, and
\* one that does not parse is taken for hidden code; any other file is one hook.
HooksOf(eco, file) ==
  IF eco # "npm" THEN {UNION file.hooks}
  ELSE IF ~file.parses THEN {{"exec", "obfuscated"}} ELSE file.hooks

\* files: what was read, by path.
Locate(eco, files) ==
  UNION {HooksOf(eco, files[p]) : p \in DOMAIN files \cap LocatedIn[eco]}

High(hook) == {"fetch", "exec"} \subseteq hook
Hidden(hook) == {"exec", "obfuscated"} \subseteq hook

\* The most severe finding.
Detect(hooks) ==
  IF hooks = {} THEN "none"
  ELSE IF \E h \in hooks : High(h) THEN "high"
  ELSE IF \E h \in hooks : Hidden(h) THEN "failclosed"
  ELSE "medium"

Blocks(level) == level \in {"high", "failclosed"}
==============================================================================
