----------------------------- MODULE HookAdapter ------------------------------
(***************************************************************************)
(* What stands between an agent and its shell: the plugin's shim           *)
(* (penrush-plugin/bin/penrush-hook), "penrush hook claude-code"           *)
(* (internal/cli/hook.go) and the merge of what the command parser found   *)
(* (ParseInstallCommands, internal/cli/parse.go).  Several tool calls run  *)
(* at once, while people install and remove penrush and edit its files.    *)
(*                                                                         *)
(* The text of a command is abstracted to what its shell segments are      *)
(* classified as, what the gates say of a segment to any answer: a pass    *)
(* stands for an override as well.  How they come to it is GatePipeline's. *)
(* The agent lets a tool call go on unless the hook exits with 2, or with  *)
(* 0 and a line of JSON that denies.                                       *)
(***************************************************************************)
EXTENDS CommandParser

CONSTANTS
  Calls,        \* tool calls of the agent, each with a hook process
  Commands,     \* the commands the agent wants to run
  Configs,      \* what config.json may say: fail mode and Gate 8
  Disturbances, \* what else happens, beside the calls
  MaxEdits      \* bound: how often people change the installation

ASSUME HookAssumption ==
  /\ Commands \subseteq CommandType
  /\ Configs \subseteq [mode : {"block", "allow"}, gate8 : BOOLEAN]

VARIABLES
  installed,  \* the penrush binary is on the PATH
  home,       \* ~/.penrush can be used
  marker,     \* ~/.penrush/.activated is there
  config,     \* config.json: on_internal_error and gate8_enabled; {} if not readable
  overrides,  \* overrides.json parses
  edits,      \* how often people changed one of these
  call        \* the running tool calls

vars == <<installed, home, marker, config, overrides, edits, call>>
world == <<installed, home, config, overrides, edits>>

-----------------------------------------------------------------------------
\* How many segments the gates are to judge.
Gates(cmd) == Cardinality(ParseInstallCommands(cmd)["gate"])

-----------------------------------------------------------------------------
(* The hook process of one call. *)

NoVerdict == "none"

\* config.Default
Default == [mode |-> "block", gate8 |-> TRUE]

NoCommand == [bash |-> FALSE, dropped |-> <<>>, spaced |-> <<>>]

\* active: the gates had worked before the call; usable: the shim could record its
\* activation; gates: how many segments are to be gated, at: which of them is;
\* rows: the audit rows written, by segment; why: how it ended.
Idle == [pc |-> "idle", cmd |-> NoCommand, active |-> FALSE,
         usable |-> FALSE, cfg |-> Default, gates |-> 0, at |-> 1, v1 |-> NoVerdict, v8 |-> NoVerdict,
         blocked |-> FALSE, rows |-> {}, why |-> "none", goesOn |-> FALSE]

Init ==
  /\ installed \in BOOLEAN
  /\ home = TRUE
  /\ marker = FALSE
  /\ config = {Default}
  /\ overrides = TRUE
  /\ edits = 0
  /\ call = [c \in Calls |-> Idle]

At(c, pc) == call[c].pc = pc
Becomes(c, new) == call' = [call EXCEPT ![c] = new]

\* The process is gone, and what it had in hand; the agent goes on with the command
\* or does not.
Ends(c, me, why, goesOn) ==
  Becomes(c, [Idle EXCEPT !.pc = "done", !.cmd = me.cmd, !.active = me.active,
                          !.usable = me.usable, !.cfg = me.cfg, !.rows = me.rows,
                          !.why = why, !.goesOn = goesOn])

\* failClosed: exit code 2.
FailClosed(c, me) == Ends(c, me, "failclosed", FALSE)

\* emitDecision and emitDeny: a line of JSON and exit code 0.  Nobody looks whether
\* the line could be written; without it, the agent goes on.
EmitAllow(c, me) == Ends(c, me, "allow", TRUE)
EmitDeny(c, me) ==
  \/ Ends(c, me, "deny", FALSE)
  \/ "stdout" \in Disturbances /\ Ends(c, me, "unheard", TRUE)

\* The agent is about to run a command.
Ask(c, cmd) ==
  /\ At(c, "idle") \/ At(c, "done")
  /\ Becomes(c, [Idle EXCEPT !.pc = "locate", !.cmd = cmd,
                            !.active = \E d \in Calls : call[d].usable /\ call[d].rows # {}])
  /\ UNCHANGED <<world, marker>>

\* The shim: command -v penrush.
Locate(c) ==
  /\ At(c, "locate")
  /\ Becomes(c, [call[c] EXCEPT !.pc = IF installed THEN "mark" ELSE "absent"])
  /\ UNCHANGED <<world, marker>>

BugLateMarker(c) ==
  /\ At(c, "mark")
  /\ Becomes(c, [call[c] EXCEPT !.pc = "exec", !.usable = home])
  /\ UNCHANGED <<world, marker>>

\* The shim records the activation, if it can.
Mark(c) ==
  /\ At(c, "mark")
  /\ marker' = (marker \/ home)
  /\ Becomes(c, [call[c] EXCEPT !.pc = "exec", !.usable = home])
  /\ UNCHANGED world

\* exec.  A binary that went away since it was located leaves the shell to exit
\* with 127, which blocks nothing.
Exec(c) ==
  /\ At(c, "exec")
  /\ IF installed THEN Becomes(c, [call[c] EXCEPT !.pc = "read"])
                  ELSE Ends(c, call[c], "vanished", TRUE)
  /\ UNCHANGED <<world, marker>>

\* The shim without a binary: an incident if it was active before, else a notice.  In a home
\* that cannot be used the marker may not be seen (unseen: the notice because of that).
Absent(c) ==
  /\ At(c, "absent")
  /\ \/ marker /\ Ends(c, call[c], "failclosed", FALSE)
     \/ marker /\ ~home /\ Ends(c, call[c], "unseen", TRUE)
     \/ ~marker /\ Ends(c, call[c], "notice", TRUE)
  /\ UNCHANGED <<world, marker>>

\* The payload is read and its command classified.
ReadPayload(c) ==
  LET me == call[c]
      found == ParseInstallCommands(me.cmd) IN
  /\ At(c, "read")
  /\ \/ "payload" \in Disturbances /\ FailClosed(c, me)
     \/ ~me.cmd.bash /\ EmitAllow(c, me)
     \/ me.cmd.bash /\ found["block"] # {} /\ EmitDeny(c, me)
     \/ /\ me.cmd.bash /\ found["block"] = {} /\ found["gate"] = {}
        /\ EmitAllow(c, me)
     \/ /\ me.cmd.bash /\ found["block"] = {} /\ found["gate"] # {}
        /\ Becomes(c, [me EXCEPT !.pc = "config", !.gates = Gates(me.cmd)])
  /\ UNCHANGED <<world, marker>>

\* The home directory is made if need be; config.json is loaded, or defaults made up.
LoadConfig(c) ==
  LET me == call[c] IN
  /\ At(c, "config")
  /\ \/ ~home /\ FailClosed(c, me)
     \/ Becomes(c, [me EXCEPT !.pc = "overrides",
                      !.cfg = IF config = {} THEN Default ELSE CHOOSE cfg \in config : TRUE])
  /\ UNCHANGED <<world, marker>>

\* A store that does not parse blocks.
LoadOverrides(c) ==
  /\ At(c, "overrides")
  /\ IF overrides THEN Becomes(c, [call[c] EXCEPT !.pc = "gate1"])
                  ELSE FailClosed(c, call[c])
  /\ UNCHANGED <<world, marker>>

\* CheckGate1 of the next segment.
GateOne(c) ==
  /\ At(c, "gate1")
  /\ \E v \in {"pass", "block"} : Becomes(c, [call[c] EXCEPT !.pc = "audit1", !.v1 = v])
  /\ UNCHANGED <<world, marker>>

BugOneMore(me) ==
  [me EXCEPT !.pc = IF me.at > me.gates THEN "decide" ELSE "gate1",
             !.at = @ + 1, !.v1 = NoVerdict, !.v8 = NoVerdict]

BugStopsAtBlock(me) ==
  [me EXCEPT !.pc = IF me.at = me.gates \/ me.blocked THEN "decide" ELSE "gate1",
             !.at = @ + 1, !.v1 = NoVerdict, !.v8 = NoVerdict]

\* The next segment, or the end of the loop.
NextSegment(me) ==
  [me EXCEPT !.pc = IF me.at = me.gates THEN "decide" ELSE "gate1",
             !.at = @ + 1, !.v1 = NoVerdict, !.v8 = NoVerdict]

\* Its audit row, which must be written, and the block it may be.
AuditOne(c) ==
  LET me  == call[c]
      now == [me EXCEPT !.rows = @ \cup {<<me.at, "G1", me.v1>>},
                        !.blocked = @ \/ me.v1 = "block"] IN
  /\ At(c, "audit1")
  /\ \/ Becomes(c, IF me.cfg.gate8 THEN [now EXCEPT !.pc = "gate8"] ELSE NextSegment(now))
     \/ ~home /\ FailClosed(c, me)
  /\ UNCHANGED <<world, marker>>

\* Gate 8 of the segment, a pass without a look behind a block.
GateEight(c) ==
  LET me == call[c] IN
  /\ At(c, "gate8")
  /\ \E v \in {"pass"} \cup (IF me.v1 = "block" THEN {} ELSE {"block"}) :
       Becomes(c, [me EXCEPT !.pc = "audit8", !.v8 = v])
  /\ UNCHANGED <<world, marker>>

BugLastVerdict(c) ==
  LET me  == call[c]
      now == [me EXCEPT !.rows = @ \cup {<<me.at, "G8", me.v8>>},
                        !.blocked = me.v1 = "block" \/ me.v8 = "block"] IN
  /\ At(c, "audit8")
  /\ Becomes(c, NextSegment(now)) \/ (~home /\ FailClosed(c, me))
  /\ UNCHANGED <<world, marker>>

AuditEight(c) ==
  LET me  == call[c]
      now == [me EXCEPT !.rows = @ \cup {<<me.at, "G8", me.v8>>},
                        !.blocked = @ \/ me.v8 = "block"] IN
  /\ At(c, "audit8")
  /\ Becomes(c, NextSegment(now)) \/ (~home /\ FailClosed(c, me))
  /\ UNCHANGED <<world, marker>>

\* One block denies the whole command.
Decide(c) ==
  /\ At(c, "decide")
  /\ IF call[c].blocked THEN EmitDeny(c, call[c]) ELSE EmitAllow(c, call[c])
  /\ UNCHANGED <<world, marker>>

InGo == {"read", "config", "overrides", "gate1", "audit1", "gate8", "audit8", "decide"}

\* A panic anywhere is recovered; what it leads to was configured, once the
\* configuration is loaded.
Panic(c) ==
  /\ "panic" \in Disturbances
  /\ call[c].pc \in InGo
  /\ IF call[c].cfg.mode = "allow"
     THEN Ends(c, call[c], "failopen", TRUE) ELSE FailClosed(c, call[c])
  /\ UNCHANGED <<world, marker>>

\* The process is killed, by the agent's own timeout for hooks or by a person.
Killed(c) ==
  /\ "kill" \in Disturbances
  /\ call[c].pc \notin {"idle", "done"}
  /\ Ends(c, call[c], "killed", TRUE)
  /\ UNCHANGED <<world, marker>>

-----------------------------------------------------------------------------
(* People. *)

Edit ==
  /\ edits < MaxEdits
  /\ edits' = edits + 1
  /\ UNCHANGED <<marker, call>>

InstallOrRemove ==
  /\ Edit
  /\ installed' = ~installed
  /\ UNCHANGED <<home, config, overrides>>

\* The home directory becomes unusable, or usable again.
HomeChanges ==
  /\ Edit
  /\ home' = ~home
  /\ UNCHANGED <<installed, config, overrides>>

EditConfig ==
  /\ Edit
  /\ config' \in {{}} \cup {{cfg} : cfg \in Configs}
  /\ UNCHANGED <<installed, home, overrides>>

EditOverrides ==
  /\ Edit
  /\ overrides' = ~overrides
  /\ UNCHANGED <<installed, home, config>>

Step(c) ==
  \/ Locate(c) \/ Mark(c) \/ Exec(c) \/ Absent(c) \/ ReadPayload(c) \/ LoadConfig(c)
  \/ LoadOverrides(c) \/ GateOne(c) \/ AuditOne(c) \/ GateEight(c) \/ AuditEight(c)
  \/ Decide(c)

Next ==
  \/ \E c \in Calls : (\E cmd \in Commands : Ask(c, cmd)) \/ Step(c) \/ Panic(c) \/ Killed(c)
  \/ InstallOrRemove \/ HomeChanges \/ EditConfig \/ EditOverrides

Spec == Init /\ [][Next]_vars

-----------------------------------------------------------------------------
TypeOK ==
  /\ {installed, home, marker, overrides} \subseteq BOOLEAN
  /\ \A c \in Calls :
       /\ call[c].cmd \in CommandType
       /\ call[c].at \in 1..call[c].gates + 1
       /\ call[c].cfg \in [mode : {"block", "allow"}, gate8 : BOOLEAN]
       /\ call[c].rows \subseteq Nat \X {"G1", "G8"} \X {"pass", "block"}

\* A segment has been gated: by Gate 1, and by Gate 8 if it is on, with a row each.
GatedAndRecorded(me, i) ==
  \A gate \in {"G1"} \cup (IF me.cfg.gate8 THEN {"G8"} ELSE {}) :
    \E v \in {"pass", "block"} : <<i, gate, v>> \in me.rows

Refused(me) == \E row \in me.rows : row[3] = "block"

\* The ways past the gates that the code and its environment leave open.
WaysPast == {"notice", "unseen", "vanished", "failopen", "unheard", "killed"}

InEitherReading(cmd) == Range(cmd.dropped) \cup Range(cmd.spaced)
ToGate(readings) == {result \in readings : result.action = "gate"}

\* A command goes on only if neither reading of it has a segment that is blocked by its
\* form, each one to be gated of the reading that is chosen was approved with its rows to
\* show for it, and the other reading has none to be gated that is not among these, unless
\* both are equally strict (that is EitherReadingIsVetted's) - or through one of WaysPast,
\* and through a panic only if the configuration that this process had loaded says so
\* (hook.go, runHookClaudeCode; parse.go, ParseInstallCommands).
RunsOnlyVetted ==
  \A c \in Calls : LET me == call[c] IN
    me.pc = "done" /\ me.goesOn =>
      \/ me.why \in WaysPast \ {"failopen"}
      \/ me.why = "failopen" /\ me.cfg.mode = "allow"
      \/ ~me.cmd.bash
      \/ /\ \A result \in InEitherReading(me.cmd) : result.action # "block"
         /\ ToGate(InEitherReading(me.cmd)) # {} => Gates(me.cmd) > 0
         /\ \/ MostRestrictive(me.cmd.spaced) = MostRestrictive(me.cmd.dropped)
            \/ ToGate(InEitherReading(me.cmd)) \subseteq Range(Chosen(me.cmd))
         /\ \A i \in 1..Gates(me.cmd) : GatedAndRecorded(me, i)
         /\ ~Refused(me)

\* "A defense that never under-blocks" (parse.go:174-178), since "we union both result sets"
\* (parse.go:258-263): what the hook allows has been judged in both readings, so that each
\* install of either is among those of the reading that is chosen.
EitherReadingIsVetted ==
  \A c \in Calls : LET me == call[c] IN
    me.pc = "done" /\ me.why = "allow" /\ me.cmd.bash =>
      ToGate(InEitherReading(me.cmd)) \subseteq Range(Chosen(me.cmd))

\* A decision about installs is not made early: also a command that is denied for
\* one segment has the rows of all of them (hook.go, step 5: "Audit EACH gated
\* segment's decision").
DecisionsAreComplete ==
  \A c \in Calls : LET me == call[c] IN
    me.pc = "done" /\ me.why \in {"allow", "deny", "unheard"} /\ me.rows # {} =>
      \A i \in 1..Gates(me.cmd) : GatedAndRecorded(me, i)

\* A gate that worked before is not replaced by a notice (penrush-hook, state 3: "A
\* previously-working gate that vanished is an incident"), as long as the shim can look
\* for its marker: once the gates have worked on a call that could record the activation,
\* no call asked later is let through because the shim finds neither binary nor marker.
NoNoticeOnceActive ==
  \A c \in Calls : call[c].why = "notice" => ~call[c].active

\* But where the parser is known to err (KnownMisread), a segment that the gates do not hear
\* of fetches nothing that they judge, whatever the order of its options, words, "--" and
\* redirections, and one that they judge is judged as something that it fetches (one of
\* several names), of its ecosystem, in the version that is named.  The parser
\* (parse.go, classifySegment) keeps no state: this is compared once, before the first call.
SegmentsAreReadRight ==
  (\A c \in Calls : call[c] = Idle) =>
    \A seg \in Segments : ReadRight(seg) \/ KnownMisread(seg)
==============================================================================
