------------------------------ MODULE HookProofs ------------------------------
(***************************************************************************)
(* Proofs about HookAdapter, for any tool calls, commands, configurations  *)
(* and edits.  No call reads what another one has in hand, so that the     *)
(* invariant is one of each call (CallInv), beside the marker, which is    *)
(* never taken away: what has been judged of a command is the segments     *)
(* before the one in hand, each with its rows, and a row of a block is     *)
(* remembered in blocked.  That the parser's merge of two readings hides   *)
(* no block, and not all of the installs, rests on the order of the kinds. *)
(*                                                                         *)
(* The parser's reading of one segment keeps no state.  What it judges is  *)
(* the first word in sight; what a tool fetches, or the first of it, is    *)
(* the first word that is no value of an option and no target of a         *)
(* redirection.  Where the parser is not known to err these are the same.  *)
(***************************************************************************)
EXTENDS HookAdapter, DataInduction

ConfigType == [mode : {"block", "allow"}, gate8 : BOOLEAN]
Verdicts == {"pass", "block"}
RowType == Nat \X {"G1", "G8"} \X Verdicts

\* Before the gates.
Outside == {"idle", "locate", "mark", "exec", "absent"}
Pcs == InGo \cup Outside \cup {"done"}
Whys == WaysPast \cup {"none", "allow", "deny", "failclosed"}

CallType ==
  [pc : Pcs, cmd : CommandType, active : BOOLEAN, usable : BOOLEAN, cfg : ConfigType,
   gates : Nat, at : Nat, v1 : Verdicts \cup {NoVerdict}, v8 : Verdicts \cup {NoVerdict},
   blocked : BOOLEAN, rows : SUBSET RowType, why : Whys, goesOn : BOOLEAN]

\* In neither reading a segment that is blocked by its form; if there is one to gate in
\* either, there is one in the reading that is chosen, and if one is stricter, they all are.
Clear(cmd) ==
  /\ \A result \in InEitherReading(cmd) : result.action # "block"
  /\ ToGate(InEitherReading(cmd)) # {} => Gates(cmd) > 0
  /\ \/ MostRestrictive(cmd.spaced) = MostRestrictive(cmd.dropped)
     \/ ToGate(InEitherReading(cmd)) \subseteq Range(Chosen(cmd))

AllGated(me) == \A i \in 1..Gates(me.cmd) : GatedAndRecorded(me, i)

-----------------------------------------------------------------------------
(* The parser's merge. *)

\* Some segment of a reading is of this kind.
Some(results, kind) == \E result \in Range(results) : result.action = kind

LEMMA Restrictive ==
  ASSUME NEW results \in Seq(Results)
  PROVE  /\ MostRestrictive(results) \in 0..3
         /\ MostRestrictive(results) = 3 <=> Some(results, "block")
         /\ MostRestrictive(results) >= 2 <=> Some(results, "block") \/ Some(results, "gate")
<1> DEFINE ranks == {0} \cup {Rank(results[i].action) : i \in DOMAIN results}
<1>1. \A kind \in Kinds : /\ Rank(kind) \in 0..3
                          /\ Rank(kind) = 3 <=> kind = "block"
                          /\ Rank(kind) = 2 <=> kind = "gate"
  BY DEF Kinds, Rank
<1>2. \A i \in DOMAIN results : results[i].action \in Kinds
  <2>1. \A i \in DOMAIN results : results[i] \in Results
    OBVIOUS
  <2>2. \A result \in Results : result.action \in Kinds
    BY DEF Results
  <2> QED BY <2>1, <2>2
<1>3. ranks \subseteq 0..3 /\ 0 \in ranks
  BY <1>1, <1>2
<1>4. /\ 3 \in ranks <=> Some(results, "block")
      /\ 2 \in ranks <=> Some(results, "gate")
  BY <1>1, <1>2 DEF Range, Some
<1> HIDE DEF ranks
<1>5. \E x \in ranks : \A y \in ranks : x >= y
  <2>1. CASE 3 \in ranks
    BY <1>3, <2>1
  <2>2. CASE 3 \notin ranks /\ 2 \in ranks
    BY <1>3, <2>2
  <2>3. CASE 3 \notin ranks /\ 2 \notin ranks /\ 1 \in ranks
    BY <1>3, <2>3
  <2>4. CASE 3 \notin ranks /\ 2 \notin ranks /\ 1 \notin ranks
    BY <1>3, <2>4
  <2> QED BY <2>1, <2>2, <2>3, <2>4
<1>6. Max(ranks) \in ranks /\ \A y \in ranks : Max(ranks) >= y
  BY <1>5 DEF Max
<1>7. MostRestrictive(results) = Max(ranks)
  BY DEF MostRestrictive, ranks
<1>8. /\ Max(ranks) \in 0..3 /\ (Max(ranks) = 3 <=> 3 \in ranks)
      /\ Max(ranks) >= 2 <=> 3 \in ranks \/ 2 \in ranks
  <2> DEFINE max == Max(ranks)
  <2>1. max \in ranks /\ \A y \in ranks : max >= y
    BY <1>6
  <2> HIDE DEF max
  <2>2. max \in 0..3 /\ (max = 3 <=> 3 \in ranks) /\ (max >= 2 <=> 3 \in ranks \/ 2 \in ranks)
    BY <1>3, <2>1
  <2> QED BY <2>2 DEF max
<1> QED BY ONLY <1>4, <1>7, <1>8, Zenon

\* The gates have a number of segments to judge, none only if there are none.
LEMMA GatesAreCounted ==
  ASSUME NEW cmd \in CommandType
  PROVE  /\ Gates(cmd) \in Nat /\ (Gates(cmd) = 0 <=> ParseInstallCommands(cmd)["gate"] = {})
         /\ ParseInstallCommands(cmd)["gate"] = {} => ~Some(Chosen(cmd), "gate")
<1> DEFINE read == Chosen(cmd)
           gates == {i \in DOMAIN read : read[i].action = "gate"}
<1>1. read \in Seq(Results) /\ Len(read) \in Nat /\ DOMAIN read = 1..Len(read)
  BY DEF CommandType, Chosen
<1>2. ParseInstallCommands(cmd)["gate"] = gates
  BY DEF ParseInstallCommands, Kinds
<1>3. gates = {} => ~Some(read, "gate")
  BY DEF Some, Range
<1> HIDE DEF read
<1>4. IsFiniteSet(1..Len(read)) /\ gates \in SUBSET (1..Len(read))
  BY <1>1, FS_Interval
<1>5. IsFiniteSet(gates)
  BY <1>4, FS_Subset
<1> QED BY <1>2, <1>3, <1>5, FS_CardinalityType, FS_EmptySet DEF Gates, read

\* A block in either reading is one that the hook is told of, and so is one install of
\* those to gate in either.
LEMMA BlocksAreSeen ==
  ASSUME NEW cmd \in CommandType, ParseInstallCommands(cmd)["block"] = {}
  PROVE  Clear(cmd)
<1> DEFINE read == Chosen(cmd)
<1>1. /\ cmd.dropped \in Seq(Results) /\ cmd.spaced \in Seq(Results)
      /\ read = IF MostRestrictive(cmd.spaced) > MostRestrictive(cmd.dropped)
                THEN cmd.spaced ELSE cmd.dropped
  BY DEF CommandType, Chosen
<1>2. {i \in DOMAIN read : read[i].action = "block"} = {}
  BY DEF ParseInstallCommands, Kinds
<1>3. ~Some(read, "block")
  BY <1>2 DEF Range, Some
<1> HIDE DEF read
<1>4. ~Some(cmd.dropped, "block") /\ ~Some(cmd.spaced, "block")
  BY <1>1, <1>3, Restrictive
<1>5. Some(cmd.dropped, "gate") \/ Some(cmd.spaced, "gate") => Some(read, "gate")
  BY <1>1, <1>3, Restrictive
<1>6. \A result \in InEitherReading(cmd) : result.action # "block"
  BY <1>4 DEF InEitherReading, Some
<1>7. ToGate(InEitherReading(cmd)) # {} => Some(read, "gate")
  BY <1>5 DEF InEitherReading, ToGate, Some
<1>8. Some(read, "gate") => Gates(cmd) > 0
  BY GatesAreCounted DEF read
<1>9. ASSUME MostRestrictive(cmd.spaced) # MostRestrictive(cmd.dropped)
      PROVE  ToGate(InEitherReading(cmd)) \subseteq Range(read)
  <2>1. /\ read = cmd.spaced => ~Some(cmd.dropped, "gate")
        /\ read = cmd.dropped => ~Some(cmd.spaced, "gate")
    BY <1>1, <1>4, <1>9, Restrictive
  <2> QED BY <1>1, <2>1 DEF ToGate, InEitherReading, Some
<1> QED BY <1>6, <1>7, <1>8, <1>9 DEF Clear, read

-----------------------------------------------------------------------------
(* The invariant. *)

Judging == {"gate1", "audit1", "gate8", "audit8", "decide"}

\* What lets the agent go on.
Justified(me, why) ==
  \/ why \in WaysPast \ {"failopen"}
  \/ why = "failopen" /\ me.cfg.mode = "allow"
  \/ ~me.cmd.bash
  \/ Clear(me.cmd) /\ AllGated(me) /\ ~Refused(me)

Vetted(me) == me.pc = "done" /\ me.goesOn => Justified(me, me.why)

Complete(me) ==
  me.pc = "done" /\ me.why \in {"allow", "deny", "unheard"} /\ me.rows # {} => AllGated(me)

CallInv(me) ==
  /\ me \in CallType /\ me.at \in 1..me.gates + 1
  /\ me.pc \in InGo \ {"read"} => me.cmd.bash /\ Clear(me.cmd) /\ me.gates = Gates(me.cmd)
  /\ me.pc \notin Judging \cup {"done"} => me.rows = {} /\ ~me.blocked /\ me.at = 1
  /\ me.pc \in InGo \ {"read", "decide"} => me.at \in 1..me.gates
  /\ me.pc = "decide" => me.at = me.gates + 1
  /\ me.pc \in Judging => \A i \in 1..me.at - 1 : GatedAndRecorded(me, i)
  /\ me.pc \in {"audit1", "gate8", "audit8"} => me.v1 \in Verdicts
  /\ me.pc \in {"gate8", "audit8"} => <<me.at, "G1", me.v1>> \in me.rows
  /\ me.pc = "audit8" => me.v8 \in Verdicts
  /\ me.pc # "done" => me.why = "none" /\ (Refused(me) => me.blocked)
  /\ me.why = "notice" => ~me.active
  /\ Vetted(me) /\ Complete(me)

\* The marker is there as soon as a call could have made it, or was asked after one had.
Activated(me, there) == me.usable \/ me.active => there

HookInv ==
  /\ {installed, home, marker, overrides} \subseteq BOOLEAN /\ config \subseteq ConfigType
  /\ call \in [Calls -> CallType]
  /\ \A c \in Calls : CallInv(call[c]) /\ Activated(call[c], marker)

\* A step of one call.
LEMMA OneCall ==
  ASSUME HookInv, NEW c \in Calls, NEW new, CallInv(new), Activated(new, marker'),
         marker' \in BOOLEAN, marker => marker', UNCHANGED world, Becomes(c, new)
  PROVE  HookInv'
<1>1. new \in CallType /\ call \in [Calls -> CallType]
  BY DEF CallInv, HookInv
<1>2. /\ call' \in [Calls -> CallType] /\ call'[c] = new
      /\ \A d \in Calls \ {c} : call'[d] = call[d]
  BY <1>1 DEF Becomes
<1>3. ASSUME NEW d \in Calls PROVE CallInv(call'[d]) /\ Activated(call'[d], marker')
  <2>1. CASE d = c
    BY <1>2, <2>1
  <2>2. CASE d # c
    <3>1. call'[d] = call[d] /\ CallInv(call[d]) /\ Activated(call[d], marker)
      BY <1>2, <2>2 DEF HookInv
    <3> QED BY <3>1, Zenon DEF Activated
  <2> QED BY <2>1, <2>2
<1>4. /\ {installed', home', marker', overrides'} \subseteq BOOLEAN
      /\ config' \subseteq ConfigType
  BY DEF HookInv, world
<1> QED BY <1>2, <1>3, <1>4 DEF HookInv

\* How a call ends.
Final(me, why, goesOn) ==
  [Idle EXCEPT !.pc = "done", !.cmd = me.cmd, !.active = me.active,
               !.usable = me.usable, !.cfg = me.cfg, !.rows = me.rows,
               !.why = why, !.goesOn = goesOn]

LEMMA IdleIsCall == Idle \in CallType
<1>1. Default \in ConfigType
  BY DEF Default, ConfigType
<1>2. NoCommand \in CommandType
  <2>1. <<>> \in Seq(Results) /\ FALSE \in BOOLEAN
    OBVIOUS
  <2> QED BY <2>1 DEF NoCommand, CommandType
<1>3. 0 \in Nat /\ 1 \in Nat
  OBVIOUS
<1>4. /\ {} \in SUBSET RowType /\ FALSE \in BOOLEAN /\ "idle" \in Pcs /\ "none" \in Whys
      /\ NoVerdict \in Verdicts \cup {NoVerdict}
  BY Zenon DEF Pcs, Outside, Whys
<1> QED BY <1>1, <1>2, <1>3, <1>4, Zenon DEF Idle, CallType

LEMMA FinalFields ==
  ASSUME NEW me \in CallType, NEW why \in Whys, NEW goesOn \in BOOLEAN
  PROVE  LET new == Final(me, why, goesOn) IN
         /\ new \in CallType /\ new.pc = "done" /\ new.cmd = me.cmd /\ new.active = me.active
         /\ new.usable = me.usable /\ new.cfg = me.cfg /\ new.rows = me.rows
         /\ new.why = why /\ new.goesOn = goesOn /\ new.at = 1 /\ new.gates = 0
<1> DEFINE new == Final(me, why, goesOn)
<1>1. /\ me.cmd \in CommandType /\ me.active \in BOOLEAN /\ me.usable \in BOOLEAN
      /\ me.cfg \in ConfigType /\ me.rows \in SUBSET RowType
  BY DEF CallType
<1>4. Idle \in CallType
  BY IdleIsCall
<1>5. new \in CallType
  <2>1. "done" \in Pcs
    BY DEF Pcs, Outside
  <2> QED BY <1>1, <1>4, <2>1, Zenon DEF Final, CallType
<1>6. /\ new.pc = "done" /\ new.cmd = me.cmd /\ new.active = me.active
      /\ new.usable = me.usable /\ new.cfg = me.cfg /\ new.rows = me.rows
      /\ new.why = why /\ new.goesOn = goesOn
  BY <1>4 DEF Final, CallType
<1>7. new.at = 1 /\ new.gates = 0
  BY DEF Final, Idle
<1> QED BY <1>5, <1>6, <1>7

LEMMA EndsWell ==
  ASSUME HookInv, NEW c \in Calls, NEW why \in Whys, NEW goesOn \in BOOLEAN,
         goesOn => Justified(call[c], why),
         why \in {"allow", "deny", "unheard"} /\ call[c].rows # {} => AllGated(call[c]),
         why = "notice" => ~call[c].active,
         Ends(c, call[c], why, goesOn), UNCHANGED <<world, marker>>
  PROVE  HookInv'
<1> DEFINE me == call[c]
           new == Final(me, why, goesOn)
<1>1. me \in CallType /\ Activated(me, marker) /\ marker \in BOOLEAN /\ Becomes(c, new)
  BY DEF HookInv, Ends, Final
<1>2. /\ new \in CallType /\ new.pc = "done" /\ new.cmd = me.cmd /\ new.active = me.active
      /\ new.usable = me.usable /\ new.cfg = me.cfg /\ new.rows = me.rows
      /\ new.why = why /\ new.goesOn = goesOn /\ new.at = 1 /\ new.gates = 0
  BY <1>1, FinalFields
<1>3. /\ goesOn => Justified(me, why)
      /\ why \in {"allow", "deny", "unheard"} /\ me.rows # {} => AllGated(me)
      /\ why = "notice" => ~me.active
  OBVIOUS
<1> HIDE DEF me, new
<1>4. /\ AllGated(me) => AllGated(new)
      /\ Refused(me) <=> Refused(new)
  BY <1>2 DEF AllGated, GatedAndRecorded, Refused
<1>5. Vetted(new)
  BY <1>2, <1>3, <1>4, Zenon DEF Vetted, Justified
<1>6. Complete(new)
  BY <1>2, <1>3, <1>4, Zenon DEF Complete
<1>7. CallInv(new)
  BY <1>2, <1>3, <1>5, <1>6 DEF CallInv, Judging, InGo
<1>8. Activated(new, marker') /\ marker' = marker /\ UNCHANGED world
  BY <1>1, <1>2 DEF Activated
<1> QED BY <1>1, <1>7, <1>8, OneCall

LEMMA FailsClosed ==
  ASSUME HookInv, NEW c \in Calls, FailClosed(c, call[c]), UNCHANGED <<world, marker>>
  PROVE  HookInv'
<1>1. "failclosed" \in Whys /\ FALSE \in BOOLEAN
  BY DEF Whys
<1> QED BY <1>1, EndsWell DEF FailClosed

LEMMA Denies ==
  ASSUME HookInv, NEW c \in Calls, EmitDeny(c, call[c]), UNCHANGED <<world, marker>>,
         call[c].rows # {} => AllGated(call[c])
  PROVE  HookInv'
<1>1. "deny" \in Whys /\ "unheard" \in Whys /\ TRUE \in BOOLEAN /\ FALSE \in BOOLEAN
  BY DEF Whys, WaysPast
<1>2. Justified(call[c], "unheard")
  BY DEF Justified, WaysPast
<1> QED BY <1>1, <1>2, EndsWell DEF EmitDeny

LEMMA Allows ==
  ASSUME HookInv, NEW c \in Calls, EmitAllow(c, call[c]), UNCHANGED <<world, marker>>,
         Justified(call[c], "allow"), call[c].rows # {} => AllGated(call[c])
  PROVE  HookInv'
<1>1. "allow" \in Whys /\ TRUE \in BOOLEAN
  BY DEF Whys
<1> QED BY <1>1, EndsWell DEF EmitAllow

\* One of the ways past the gates that are left open, other than by a notice.
LEMMA Escapes ==
  ASSUME HookInv, NEW c \in Calls, NEW why \in {"unseen", "vanished", "killed"},
         Ends(c, call[c], why, TRUE), UNCHANGED <<world, marker>>
  PROVE  HookInv'
<1>1. why \in Whys /\ TRUE \in BOOLEAN /\ Justified(call[c], why)
  BY DEF Whys, WaysPast, Justified
<1> QED BY <1>1, EndsWell

-----------------------------------------------------------------------------
(* The loop over the segments. *)

\* A row of the segment in hand, and the block it may be.
Recorded(me, gate, v) ==
  [me EXCEPT !.rows = @ \cup {<<me.at, gate, v>>}, !.blocked = @ \/ v = "block"]

\* A call within the loop, with the segments before the one in hand behind it.
InLoop(me) ==
  /\ me \in CallType /\ me.cmd.bash /\ Clear(me.cmd) /\ me.gates = Gates(me.cmd)
  /\ me.pc # "done" /\ me.why = "none" /\ me.at \in 1..me.gates
  /\ \A i \in 1..me.at - 1 : GatedAndRecorded(me, i)
  /\ Refused(me) => me.blocked

LEMMA RowIsKept ==
  ASSUME NEW me, CallInv(me), me.pc \in {"audit1", "audit8"},
         NEW gate \in {"G1", "G8"}, NEW v \in Verdicts
  PROVE  LET new == Recorded(me, gate, v) IN
         /\ InLoop(new) /\ new.rows = me.rows \cup {<<me.at, gate, v>>}
         /\ new.at = me.at /\ new.cfg = me.cfg /\ new.v1 = me.v1 /\ new.v8 = me.v8
         /\ new.usable = me.usable /\ new.active = me.active
<1> DEFINE new == Recorded(me, gate, v)
<1>1. /\ me \in CallType /\ me.at \in Nat /\ me.at \in 1..me.gates /\ me.why = "none"
      /\ me.cmd.bash /\ Clear(me.cmd) /\ me.gates = Gates(me.cmd)
      /\ \A i \in 1..me.at - 1 : GatedAndRecorded(me, i)
      /\ Refused(me) => me.blocked
  BY DEF CallInv, CallType, InGo, Judging
<1>2. <<me.at, gate, v>> \in RowType
  BY <1>1 DEF RowType
<1>3. /\ new.pc = me.pc /\ new.cmd = me.cmd /\ new.gates = me.gates /\ new.at = me.at
      /\ new.cfg = me.cfg /\ new.v1 = me.v1 /\ new.v8 = me.v8 /\ new.why = me.why
      /\ new.usable = me.usable /\ new.active = me.active
      /\ new.rows = me.rows \cup {<<me.at, gate, v>>}
      /\ new.blocked = (me.blocked \/ v = "block")
  BY <1>1 DEF Recorded, CallType
<1>4. new \in CallType
  <2>1. me.rows \cup {<<me.at, gate, v>>} \in SUBSET RowType /\ (me.blocked \/ v = "block") \in BOOLEAN
    BY <1>1, <1>2 DEF CallType
  <2> QED BY <1>1, <2>1, Zenon DEF Recorded, CallType
<1> HIDE DEF new
<1>5. ASSUME NEW i \in 1..new.at - 1 PROVE GatedAndRecorded(new, i)
  <2>1. GatedAndRecorded(me, i)
    BY <1>1, <1>3
  <2> QED BY <1>3, <2>1 DEF GatedAndRecorded
<1>6. ASSUME Refused(new) PROVE new.blocked
  <2>1. PICK row \in new.rows : row[3] = "block"
    BY <1>6 DEF Refused
  <2>2. CASE row \in me.rows
    BY <1>1, <1>3, <2>1, <2>2, Zenon DEF Refused
  <2>3. CASE row = <<me.at, gate, v>>
    <3>1. v = "block"
      BY <2>1, <2>3
    <3> QED BY <1>3, <3>1, Zenon
  <2> QED BY <1>3, <2>2, <2>3
<1> QED BY <1>1, <1>3, <1>4, <1>5, <1>6 DEF InLoop, new

\* A segment is behind the call once every gate has its row.
LEMMA NextKeeps ==
  ASSUME NEW me, InLoop(me), GatedAndRecorded(me, me.at)
  PROVE  LET new == NextSegment(me) IN
         CallInv(new) /\ new.usable = me.usable /\ new.active = me.active
<1> DEFINE new == NextSegment(me)
<1>1. /\ me \in CallType /\ me.at \in Nat /\ me.gates \in Nat /\ me.at \in 1..me.gates
      /\ \A i \in 1..me.at - 1 : GatedAndRecorded(me, i)
  BY DEF InLoop, CallType
<1>2. /\ new.pc = (IF me.at = me.gates THEN "decide" ELSE "gate1")
      /\ new.at = me.at + 1 /\ new.cmd = me.cmd /\ new.gates = me.gates
      /\ new.cfg = me.cfg /\ new.why = me.why /\ new.usable = me.usable /\ new.active = me.active
      /\ new.rows = me.rows /\ new.blocked = me.blocked
  BY <1>1 DEF NextSegment, CallType
<1>3. new \in CallType
  <2>1. me.at + 1 \in Nat /\ NoVerdict \in Verdicts \cup {NoVerdict}
    BY <1>1
  <2>2. (IF me.at = me.gates THEN "decide" ELSE "gate1") \in Pcs
    BY DEF Pcs, Outside, InGo
  <2> QED BY <1>1, <2>1, <2>2, Zenon DEF NextSegment, CallType
<1> HIDE DEF new
<1>4. ASSUME NEW i \in 1..new.at - 1 PROVE GatedAndRecorded(new, i)
  <2>1. i = me.at \/ i \in 1..me.at - 1
    BY <1>1, <1>2
  <2>2. GatedAndRecorded(me, i)
    BY <1>1, <2>1
  <2> QED BY <1>2, <2>2 DEF GatedAndRecorded
<1>5. Refused(new) => new.blocked
  BY <1>2 DEF InLoop, Refused
<1>6. new.pc \in {"decide", "gate1"} /\ new.at \in 1..new.gates + 1
  BY <1>1, <1>2
<1>7. (new.pc = "gate1" => new.at \in 1..new.gates) /\ (new.pc = "decide" => new.at = new.gates + 1)
  BY <1>1, <1>2
<1>8. new.cmd.bash /\ Clear(new.cmd) /\ new.gates = Gates(new.cmd) /\ new.why = "none"
  BY <1>2 DEF InLoop
<1>9. CallInv(new)
  BY <1>3, <1>4, <1>5, <1>6, <1>7, <1>8 DEF CallInv, Vetted, Complete, Judging, InGo
<1> QED BY <1>2, <1>9 DEF new

\* Gate 8 has its turn on a segment whose first row is written.
LEMMA GateEightIsNext ==
  ASSUME NEW me, InLoop(me), me.v1 \in Verdicts, <<me.at, "G1", me.v1>> \in me.rows
  PROVE  LET new == [me EXCEPT !.pc = "gate8"] IN
         CallInv(new) /\ new.usable = me.usable /\ new.active = me.active
<1> DEFINE new == [me EXCEPT !.pc = "gate8"]
<1>1. me \in CallType /\ me.gates \in Nat /\ "gate8" \in Pcs
  BY DEF InLoop, CallType, Pcs, InGo
<1>2. /\ new \in CallType /\ new.pc = "gate8" /\ new.cmd = me.cmd /\ new.gates = me.gates
      /\ new.at = me.at /\ new.cfg = me.cfg /\ new.why = me.why /\ new.v1 = me.v1
      /\ new.rows = me.rows /\ new.blocked = me.blocked
      /\ new.usable = me.usable /\ new.active = me.active
  BY <1>1 DEF CallType
<1> HIDE DEF new
<1>3. \A i \in 1..new.at - 1 : GatedAndRecorded(new, i)
  BY <1>2 DEF InLoop, GatedAndRecorded
<1>4. Refused(new) => new.blocked
  BY <1>2 DEF InLoop, Refused
<1>5. new.at \in 1..new.gates /\ new.at \in 1..new.gates + 1
  BY <1>1, <1>2 DEF InLoop
<1>6. new.cmd.bash /\ Clear(new.cmd) /\ new.gates = Gates(new.cmd) /\ new.why = "none"
  BY <1>2 DEF InLoop
<1>7. CallInv(new)
  BY <1>2, <1>3, <1>4, <1>5, <1>6 DEF CallInv, Vetted, Complete, Judging, InGo
<1> QED BY <1>2, <1>7 DEF new

LEMMA AuditOneKeeps ==
  ASSUME HookInv, NEW c \in Calls, AuditOne(c)
  PROVE  HookInv'
<1> DEFINE me == call[c]
           now == Recorded(me, "G1", me.v1)
<1>1. /\ CallInv(me) /\ me.pc = "audit1" /\ me.v1 \in Verdicts /\ Activated(me, marker)
      /\ marker \in BOOLEAN /\ UNCHANGED <<world, marker>>
  BY DEF HookInv, AuditOne, At, CallInv
<1>2. /\ InLoop(now) /\ now.rows = me.rows \cup {<<me.at, "G1", me.v1>>}
      /\ now.at = me.at /\ now.cfg = me.cfg /\ now.v1 = me.v1
      /\ now.usable = me.usable /\ now.active = me.active
  BY <1>1, RowIsKept
<1>3. CASE FailClosed(c, me)
  BY <1>1, <1>3, FailsClosed
<1>4. CASE me.cfg.gate8 /\ Becomes(c, [now EXCEPT !.pc = "gate8"])
  <2> DEFINE new == [now EXCEPT !.pc = "gate8"]
  <2> HIDE DEF now, me
  <2>1. CallInv(new) /\ new.usable = me.usable /\ new.active = me.active
    BY <1>1, <1>2, GateEightIsNext
  <2> HIDE DEF new
  <2>2. Activated(new, marker') /\ marker' = marker /\ UNCHANGED world
    BY <1>1, <2>1 DEF Activated
  <2> QED BY <1>1, <1>4, <2>1, <2>2, OneCall DEF new
<1>5. CASE ~me.cfg.gate8 /\ Becomes(c, NextSegment(now))
  <2> DEFINE new == NextSegment(now)
  <2> HIDE DEF now, me
  <2>1. GatedAndRecorded(now, now.at)
    BY <1>1, <1>2, <1>5 DEF GatedAndRecorded, Verdicts
  <2>2. CallInv(new) /\ new.usable = me.usable /\ new.active = me.active
    BY <1>2, <2>1, NextKeeps
  <2> HIDE DEF new
  <2>3. Activated(new, marker') /\ marker' = marker /\ UNCHANGED world
    BY <1>1, <2>2 DEF Activated
  <2> QED BY <1>1, <1>5, <2>2, <2>3, OneCall DEF new
<1> QED BY <1>3, <1>4, <1>5 DEF AuditOne, Recorded

LEMMA AuditEightKeeps ==
  ASSUME HookInv, NEW c \in Calls, AuditEight(c)
  PROVE  HookInv'
<1> DEFINE me == call[c]
           now == Recorded(me, "G8", me.v8)
           new == NextSegment(now)
<1>1. /\ CallInv(me) /\ me.pc = "audit8" /\ me.v8 \in Verdicts /\ me.v1 \in Verdicts
      /\ <<me.at, "G1", me.v1>> \in me.rows /\ Activated(me, marker)
      /\ marker \in BOOLEAN /\ UNCHANGED <<world, marker>>
  BY DEF HookInv, AuditEight, At, CallInv
<1>2. /\ InLoop(now) /\ now.rows = me.rows \cup {<<me.at, "G8", me.v8>>}
      /\ now.at = me.at /\ now.usable = me.usable /\ now.active = me.active
  BY <1>1, RowIsKept
<1>3. CASE FailClosed(c, me)
  BY <1>1, <1>3, FailsClosed
<1>4. CASE Becomes(c, new)
  <2> HIDE DEF now, me
  <2>1. GatedAndRecorded(now, now.at)
    BY <1>1, <1>2 DEF GatedAndRecorded, Verdicts
  <2>2. CallInv(new) /\ new.usable = me.usable /\ new.active = me.active
    BY <1>2, <2>1, NextKeeps
  <2> HIDE DEF new
  <2>3. Activated(new, marker') /\ marker' = marker /\ UNCHANGED world
    BY <1>1, <2>2 DEF Activated
  <2> QED BY <1>1, <1>4, <2>2, <2>3, OneCall
<1> QED BY <1>3, <1>4 DEF AuditEight, Recorded

\* A call that has looked at nothing yet, with its command in hand.
Fresh(me) ==
  /\ me \in CallType /\ me.rows = {} /\ ~me.blocked /\ me.at = 1 /\ me.why = "none"
  /\ me.pc \in Outside \cup {"read"}

LEMMA FreshIsFine ==
  ASSUME NEW me, Fresh(me)
  PROVE  CallInv(me)
<1>1. me.gates \in Nat /\ me.at \in 1..me.gates + 1
  BY DEF Fresh, CallType
<1>2. ~Refused(me)
  BY DEF Fresh, Refused
<1> QED BY <1>1, <1>2 DEF Fresh, Outside, CallInv, Vetted, Complete, Judging, InGo

\* Steps that leave the rows of a call as they are, with one more thing in its hands.
SameRows(me, new) ==
  /\ new \in CallType /\ new.cmd = me.cmd /\ new.rows = me.rows /\ new.blocked = me.blocked
  /\ new.gates = me.gates /\ new.at = me.at /\ new.cfg = me.cfg /\ new.why = me.why
  /\ new.usable = me.usable /\ new.active = me.active

LEMMA SameRowsSameJudgement ==
  ASSUME NEW me, CallInv(me), me.pc \in InGo, NEW new, SameRows(me, new)
  PROVE  /\ me.pc \in Judging => \A i \in 1..new.at - 1 : GatedAndRecorded(new, i)
         /\ Refused(new) => new.blocked
         /\ new.why = "none" /\ new.at \in 1..new.gates + 1
<1>1. me.pc # "done"
  BY DEF InGo
<1>2. me.pc \in Judging => \A i \in 1..new.at - 1 : GatedAndRecorded(new, i)
  BY DEF CallInv, SameRows, GatedAndRecorded
<1>3. Refused(new) => new.blocked
  BY <1>1 DEF CallInv, SameRows, Refused
<1> QED BY <1>1, <1>2, <1>3 DEF CallInv, SameRows

LEMMA GateOneKeeps ==
  ASSUME HookInv, NEW c \in Calls, GateOne(c)
  PROVE  HookInv'
<1> DEFINE me == call[c]
<1>1. PICK v \in Verdicts : Becomes(c, [me EXCEPT !.pc = "audit1", !.v1 = v])
  BY DEF GateOne, Verdicts
<1> DEFINE new == [me EXCEPT !.pc = "audit1", !.v1 = v]
<1>2. /\ CallInv(me) /\ me.pc = "gate1" /\ me \in CallType /\ Activated(me, marker)
      /\ marker \in BOOLEAN /\ UNCHANGED <<world, marker>>
  BY DEF HookInv, GateOne, At, CallInv
<1> HIDE DEF me
<1>3. SameRows(me, new) /\ new.pc = "audit1" /\ new.v1 = v
  <2>1. "audit1" \in Pcs /\ v \in Verdicts \cup {NoVerdict}
    BY DEF Pcs, Outside, InGo
  <2> QED BY <1>2, <2>1 DEF SameRows, CallType
<1> HIDE DEF new
<1>4. CallInv(new)
  BY <1>2, <1>3, SameRowsSameJudgement DEF CallInv, SameRows, Vetted, Complete, Judging, InGo
<1>5. Activated(new, marker') /\ marker' = marker /\ UNCHANGED world
  BY <1>2, <1>3 DEF Activated, SameRows
<1> QED BY <1>1, <1>2, <1>4, <1>5, OneCall DEF new, me

LEMMA GateEightKeeps ==
  ASSUME HookInv, NEW c \in Calls, GateEight(c)
  PROVE  HookInv'
<1> DEFINE me == call[c]
<1>1. PICK v \in Verdicts : Becomes(c, [me EXCEPT !.pc = "audit8", !.v8 = v])
  BY DEF GateEight, Verdicts
<1> DEFINE new == [me EXCEPT !.pc = "audit8", !.v8 = v]
<1>2. /\ CallInv(me) /\ me.pc = "gate8" /\ me \in CallType /\ Activated(me, marker)
      /\ marker \in BOOLEAN /\ UNCHANGED <<world, marker>>
  BY DEF HookInv, GateEight, At, CallInv
<1> HIDE DEF me
<1>3. SameRows(me, new) /\ new.pc = "audit8" /\ new.v8 = v /\ new.v1 = me.v1
  <2>1. "audit8" \in Pcs /\ v \in Verdicts \cup {NoVerdict}
    BY DEF Pcs, Outside, InGo
  <2> QED BY <1>2, <2>1 DEF SameRows, CallType
<1> HIDE DEF new
<1>4. CallInv(new)
  BY <1>2, <1>3, SameRowsSameJudgement DEF CallInv, SameRows, Vetted, Complete, Judging, InGo
<1>5. Activated(new, marker') /\ marker' = marker /\ UNCHANGED world
  BY <1>2, <1>3 DEF Activated, SameRows
<1> QED BY <1>1, <1>2, <1>4, <1>5, OneCall DEF new, me

LEMMA LoadOverridesKeeps ==
  ASSUME HookInv, NEW c \in Calls, LoadOverrides(c)
  PROVE  HookInv'
<1> DEFINE me == call[c]
           new == [me EXCEPT !.pc = "gate1"]
<1>1. /\ CallInv(me) /\ me.pc = "overrides" /\ me \in CallType /\ Activated(me, marker)
      /\ marker \in BOOLEAN /\ UNCHANGED <<world, marker>>
  BY DEF HookInv, LoadOverrides, At, CallInv
<1>2. CASE FailClosed(c, me)
  BY <1>1, <1>2, FailsClosed
<1>3. CASE Becomes(c, new)
  <2> HIDE DEF me
  <2>1. SameRows(me, new) /\ new.pc = "gate1"
    <3>1. "gate1" \in Pcs
      BY DEF Pcs, Outside, InGo
    <3> QED BY <1>1, <3>1 DEF SameRows, CallType
  <2> HIDE DEF new
  <2>2. new.at = 1 /\ \A i \in 1..new.at - 1 : FALSE
    BY <1>1, <2>1 DEF CallInv, SameRows, Judging
  <2>3. CallInv(new)
    BY <1>1, <2>1, <2>2, SameRowsSameJudgement
       DEF CallInv, SameRows, Vetted, Complete, Judging, InGo
  <2>4. Activated(new, marker') /\ marker' = marker /\ UNCHANGED world
    BY <1>1, <2>1 DEF Activated, SameRows
  <2> QED BY <1>1, <1>3, <2>3, <2>4, OneCall
<1> QED BY <1>2, <1>3 DEF LoadOverrides

LEMMA LoadConfigKeeps ==
  ASSUME HookInv, NEW c \in Calls, LoadConfig(c)
  PROVE  HookInv'
<1> DEFINE me == call[c]
           cfg == IF config = {} THEN Default ELSE CHOOSE x \in config : TRUE
           new == [me EXCEPT !.pc = "overrides", !.cfg = cfg]
<1>1. /\ CallInv(me) /\ me.pc = "config" /\ me \in CallType /\ Activated(me, marker)
      /\ marker \in BOOLEAN /\ UNCHANGED <<world, marker>>
  BY DEF HookInv, LoadConfig, At, CallInv
<1>2. cfg \in ConfigType
  <2>1. Default \in ConfigType
    BY DEF Default, ConfigType
  <2>2. config \subseteq ConfigType
    BY DEF HookInv
  <2> QED BY <2>1, <2>2
<1>3. CASE FailClosed(c, me)
  BY <1>1, <1>3, FailsClosed
<1>4. CASE Becomes(c, new)
  <2> HIDE DEF me, cfg
  <2>1. /\ new \in CallType /\ new.cmd = me.cmd /\ new.rows = me.rows /\ new.blocked = me.blocked
        /\ new.gates = me.gates /\ new.at = me.at /\ new.why = me.why
        /\ new.usable = me.usable /\ new.active = me.active /\ new.pc = "overrides"
    <3>1. "overrides" \in Pcs
      BY DEF Pcs, Outside, InGo
    <3> QED BY <1>1, <1>2, <3>1 DEF CallType
  <2> HIDE DEF new
  <2>2. CallInv(new)
    BY <1>1, <2>1 DEF CallInv, Vetted, Complete, Judging, InGo, Refused
  <2>3. Activated(new, marker') /\ marker' = marker /\ UNCHANGED world
    BY <1>1, <2>1 DEF Activated
  <2> QED BY <1>1, <1>4, <2>2, <2>3, OneCall
<1> QED BY <1>3, <1>4 DEF LoadConfig

LEMMA ReadPayloadKeeps ==
  ASSUME HookInv, NEW c \in Calls, ReadPayload(c)
  PROVE  HookInv'
<1> DEFINE me == call[c]
           found == ParseInstallCommands(me.cmd)
           new == [me EXCEPT !.pc = "config", !.gates = Gates(me.cmd)]
<1>1. /\ CallInv(me) /\ me.pc = "read" /\ me \in CallType /\ Activated(me, marker)
      /\ marker \in BOOLEAN /\ UNCHANGED <<world, marker>> /\ me.rows = {}
      /\ ~me.blocked /\ me.at = 1 /\ me.why = "none" /\ me.cmd \in CommandType
  BY DEF HookInv, ReadPayload, At, CallInv, Judging, CallType
<1>2. CASE FailClosed(c, me)
  BY <1>1, <1>2, FailsClosed
<1>3. CASE EmitDeny(c, me)
  BY <1>1, <1>3, Denies
<1>4. CASE EmitAllow(c, me) /\ (~me.cmd.bash \/ (found["block"] = {} /\ found["gate"] = {}))
  <2>1. Justified(me, "allow")
    <3>1. CASE ~me.cmd.bash
      BY <3>1 DEF Justified
    <3>2. CASE found["block"] = {} /\ found["gate"] = {}
      <4>1. Clear(me.cmd) /\ Gates(me.cmd) = 0
        BY <1>1, <3>2, BlocksAreSeen, GatesAreCounted
      <4>2. AllGated(me)
        BY <4>1 DEF AllGated
      <4>3. ~Refused(me)
        BY <1>1 DEF Refused
      <4> QED BY <4>1, <4>2, <4>3 DEF Justified
    <3> QED BY <1>4, <3>1, <3>2
  <2> QED BY <1>1, <1>4, <2>1, Allows
<1>5. CASE me.cmd.bash /\ found["block"] = {} /\ found["gate"] # {} /\ Becomes(c, new)
  <2>1. Clear(me.cmd) /\ Gates(me.cmd) \in Nat /\ Gates(me.cmd) # 0
    BY <1>1, <1>5, BlocksAreSeen, GatesAreCounted
  <2> HIDE DEF me
  <2>2. /\ new \in CallType /\ new.cmd = me.cmd /\ new.rows = {} /\ new.blocked = me.blocked
        /\ new.gates = Gates(me.cmd) /\ new.at = 1 /\ new.why = "none"
        /\ new.usable = me.usable /\ new.active = me.active /\ new.pc = "config"
    <3>1. "config" \in Pcs
      BY DEF Pcs, Outside, InGo
    <3> QED BY <1>1, <2>1, <3>1 DEF CallType
  <2> HIDE DEF new
  <2>3. new.at \in 1..new.gates /\ new.at \in 1..new.gates + 1
    BY <2>1, <2>2
  <2>4. new.cmd.bash /\ Clear(new.cmd) /\ new.gates = Gates(new.cmd) /\ ~new.blocked
    BY <1>1, <1>5, <2>1, <2>2, Zenon
  <2>5. CallInv(new)
    BY <2>2, <2>3, <2>4 DEF CallInv, Vetted, Complete, Judging, InGo, Refused
  <2>6. Activated(new, marker') /\ marker' = marker /\ UNCHANGED world
    BY <1>1, <2>2 DEF Activated
  <2> QED BY <1>1, <1>5, <2>5, <2>6, OneCall
<1> QED BY <1>2, <1>3, <1>4, <1>5 DEF ReadPayload

LEMMA DecideKeeps ==
  ASSUME HookInv, NEW c \in Calls, Decide(c)
  PROVE  HookInv'
<1> DEFINE me == call[c]
<1>1. /\ CallInv(me) /\ me.pc = "decide" /\ UNCHANGED <<world, marker>>
  BY DEF HookInv, Decide, At
<1> HIDE DEF me
<1>2. /\ Clear(me.cmd) /\ me.gates = Gates(me.cmd) /\ me.at = me.gates + 1 /\ me.gates \in Nat
      /\ \A i \in 1..me.at - 1 : GatedAndRecorded(me, i)
      /\ Refused(me) => me.blocked
  BY <1>1 DEF CallInv, Judging, InGo, CallType
<1>3. AllGated(me)
  <2>1. me.at - 1 = Gates(me.cmd)
    BY <1>2
  <2> QED BY <1>2, <2>1, Zenon DEF AllGated
<1>4. CASE me.blocked /\ EmitDeny(c, me)
  BY <1>1, <1>3, <1>4, Denies DEF me
<1>5. CASE ~me.blocked /\ EmitAllow(c, me)
  <2>1. Justified(me, "allow")
    BY <1>2, <1>3, <1>5 DEF Justified
  <2> QED BY <1>1, <1>3, <1>5, <2>1, Allows DEF me
<1> QED BY <1>4, <1>5 DEF Decide, me

-----------------------------------------------------------------------------
(* Before the gates, and ends that are no decision. *)

\* A call that moves on without having looked at anything.
LEMMA FreshMoves ==
  ASSUME HookInv, NEW c \in Calls, NEW new, Fresh(new), Activated(new, marker'),
         marker' \in BOOLEAN, marker => marker', UNCHANGED world, Becomes(c, new)
  PROVE  HookInv'
BY FreshIsFine, OneCall

LEMMA AskKeeps ==
  ASSUME HookInv, NEW c \in Calls, NEW cmd \in Commands, Ask(c, cmd)
  PROVE  HookInv'
<1> DEFINE active == \E d \in Calls : call[d].usable /\ call[d].rows # {}
           new == [Idle EXCEPT !.pc = "locate", !.cmd = cmd, !.active = active]
<1>1. /\ cmd \in CommandType /\ Becomes(c, new) /\ marker \in BOOLEAN
      /\ UNCHANGED <<world, marker>>
  BY HookAssumption DEF Ask, HookInv, CommandType
<1>2. active \in BOOLEAN /\ (active => marker)
  BY DEF HookInv, Activated
<1> HIDE DEF active
<1>3. Idle \in CallType
  BY IdleIsCall
<1>4. /\ new.pc = "locate" /\ new.active = active /\ new.usable = FALSE /\ new.rows = {}
      /\ new.blocked = FALSE /\ new.at = 1 /\ new.why = "none"
  BY DEF Idle
<1>5. new \in CallType
  <2>1. "locate" \in Pcs
    BY DEF Pcs, Outside
  <2> QED BY <1>1, <1>2, <1>3, <2>1, Zenon DEF CallType
<1> HIDE DEF new
<1>6. Fresh(new)
  BY <1>4, <1>5 DEF Fresh, Outside
<1>7. Activated(new, marker') /\ marker' = marker /\ UNCHANGED world
  BY <1>1, <1>2, <1>4 DEF Activated
<1> QED BY <1>1, <1>6, <1>7, FreshMoves

LEMMA ShimKeeps ==
  ASSUME HookInv, NEW c \in Calls, Locate(c) \/ Mark(c) \/ Exec(c) \/ Absent(c)
  PROVE  HookInv'
<1> DEFINE me == call[c]
<1>1. /\ CallInv(me) /\ me \in CallType /\ Activated(me, marker) /\ marker \in BOOLEAN
      /\ home \in BOOLEAN /\ me.pc \in {"locate", "mark", "exec", "absent"}
  BY DEF HookInv, CallInv, Locate, Mark, Exec, Absent, At
<1>2. me.rows = {} /\ ~me.blocked /\ me.at = 1 /\ me.why = "none"
  BY <1>1 DEF CallInv, Judging
<1>3. ASSUME NEW pc \in {"mark", "absent", "read"},
             Becomes(c, [me EXCEPT !.pc = pc]), UNCHANGED <<world, marker>>
      PROVE  HookInv'
  <2> DEFINE new == [me EXCEPT !.pc = pc]
  <2> HIDE DEF me
  <2>1. /\ new \in CallType /\ new.pc = pc /\ new.rows = {} /\ new.blocked = me.blocked /\ new.at = 1
        /\ new.why = "none" /\ new.usable = me.usable /\ new.active = me.active
    <3>1. pc \in Pcs
      BY DEF Pcs, Outside, InGo
    <3> QED BY <1>1, <1>2, <3>1 DEF CallType
  <2> HIDE DEF new
  <2>2. Fresh(new)
    <3>1. ~new.blocked
      BY <1>2, <2>1, Zenon
    <3>2. new.pc \in Outside \cup {"read"}
      BY <2>1 DEF Outside
    <3> QED BY <2>1, <3>1, <3>2 DEF Fresh
  <2>3. Activated(new, marker') /\ marker' = marker /\ UNCHANGED world
    BY <1>1, <1>3, <2>1 DEF Activated
  <2> QED BY <1>1, <1>3, <2>2, <2>3, FreshMoves DEF new
<1>4. CASE Locate(c)
  BY <1>3, <1>4 DEF Locate
<1>5. CASE Mark(c)
  <2> DEFINE new == [me EXCEPT !.pc = "exec", !.usable = home]
  <2>1. Becomes(c, new) /\ marker' = (marker \/ home) /\ UNCHANGED world
    BY <1>5 DEF Mark
  <2> HIDE DEF me
  <2>2. /\ new \in CallType /\ new.pc = "exec" /\ new.rows = {} /\ new.blocked = me.blocked
        /\ new.at = 1 /\ new.why = "none" /\ new.usable = home /\ new.active = me.active
    <3>1. "exec" \in Pcs
      BY DEF Pcs, Outside
    <3> QED BY <1>1, <1>2, <3>1 DEF CallType
  <2> HIDE DEF new
  <2>3. Fresh(new)
    BY <1>2, <2>2 DEF Fresh, Outside
  <2>4. Activated(new, marker') /\ marker' \in BOOLEAN /\ (marker => marker')
    BY <1>1, <2>1, <2>2 DEF Activated
  <2> QED BY <2>1, <2>3, <2>4, FreshMoves
<1>6. CASE Exec(c)
  <2>1. CASE Ends(c, me, "vanished", TRUE)
    BY <1>6, <2>1, Escapes DEF Exec
  <2> QED BY <1>3, <1>6, <2>1 DEF Exec
<1>7. CASE Absent(c)
  <2>1. CASE Ends(c, me, "failclosed", FALSE)
    BY <1>7, <2>1, FailsClosed DEF Absent, FailClosed
  <2>2. CASE Ends(c, me, "unseen", TRUE)
    BY <1>7, <2>2, Escapes DEF Absent
  <2>3. CASE ~marker /\ Ends(c, me, "notice", TRUE)
    <3>1. "notice" \in Whys /\ TRUE \in BOOLEAN /\ Justified(me, "notice")
      BY DEF Whys, WaysPast, Justified
    <3>2. ~me.active
      BY <1>1, <2>3 DEF Activated
    <3> QED BY <1>7, <2>3, <3>1, <3>2, EndsWell DEF Absent
  <2> QED BY <1>7, <2>1, <2>2, <2>3 DEF Absent, FailClosed
<1> QED BY <1>4, <1>5, <1>6, <1>7

LEMMA EndsKeep ==
  ASSUME HookInv, NEW c \in Calls, Panic(c) \/ Killed(c)
  PROVE  HookInv'
<1>1. UNCHANGED <<world, marker>>
  BY DEF Panic, Killed
<1>2. CASE Ends(c, call[c], "killed", TRUE)
  BY <1>1, <1>2, Escapes
<1>3. CASE call[c].cfg.mode = "allow" /\ Ends(c, call[c], "failopen", TRUE)
  <2>1. "failopen" \in Whys /\ TRUE \in BOOLEAN /\ Justified(call[c], "failopen")
    BY <1>3 DEF Whys, WaysPast, Justified
  <2> QED BY <1>1, <1>3, <2>1, EndsWell
<1>4. CASE FailClosed(c, call[c])
  BY <1>1, <1>4, FailsClosed
<1> QED BY <1>2, <1>3, <1>4 DEF Panic, Killed

LEMMA EditsKeep ==
  ASSUME HookInv, InstallOrRemove \/ HomeChanges \/ EditConfig \/ EditOverrides
  PROVE  HookInv'
<1>1. call' = call /\ marker' = marker
  BY DEF InstallOrRemove, HomeChanges, EditConfig, EditOverrides, Edit
<1>2. config' \subseteq ConfigType
  BY HookAssumption DEF HookInv, InstallOrRemove, HomeChanges, EditConfig, EditOverrides, ConfigType
<1>3. {installed', home', marker', overrides'} \subseteq BOOLEAN
  BY <1>1 DEF HookInv, InstallOrRemove, HomeChanges, EditConfig, EditOverrides
<1> QED BY <1>1, <1>2, <1>3 DEF HookInv

-----------------------------------------------------------------------------
LEMMA InitiallyFine == Init => HookInv
<1> SUFFICES ASSUME Init PROVE HookInv
  OBVIOUS
<1>1. Idle \in CallType /\ Fresh(Idle) /\ Idle.usable = FALSE /\ Idle.active = FALSE
  BY IdleIsCall DEF Fresh, Idle, Outside
<1>2. call \in [Calls -> CallType] /\ \A c \in Calls : call[c] = Idle
  BY <1>1 DEF Init
<1>3. \A c \in Calls : CallInv(call[c]) /\ Activated(call[c], marker)
  BY <1>1, <1>2, FreshIsFine DEF Activated
<1>4. installed \in BOOLEAN /\ home \in BOOLEAN /\ marker \in BOOLEAN /\ overrides \in BOOLEAN
  BY Zenon DEF Init
<1>5. config \subseteq ConfigType
  BY DEF Init, Default, ConfigType
<1> QED BY <1>2, <1>3, <1>4, <1>5 DEF HookInv

LEMMA StepsKeepInv == HookInv /\ [Next]_vars => HookInv'
<1> SUFFICES ASSUME HookInv, [Next]_vars PROVE HookInv'
  OBVIOUS
<1>1. ASSUME NEW c \in Calls, Step(c) PROVE HookInv'
  BY <1>1, ShimKeeps, ReadPayloadKeeps, LoadConfigKeeps, LoadOverridesKeeps, GateOneKeeps,
     AuditOneKeeps, GateEightKeeps, AuditEightKeeps, DecideKeeps DEF Step
<1>2. CASE InstallOrRemove \/ HomeChanges \/ EditConfig \/ EditOverrides
  BY <1>2, EditsKeep
<1>3. CASE UNCHANGED vars
  BY <1>3 DEF vars, HookInv
<1> QED BY <1>1, <1>2, <1>3, AskKeeps, EndsKeep DEF Next

LEMMA HookInvHolds == Spec => []HookInv
BY InitiallyFine, StepsKeepInv, PTL DEF Spec

\* The type invariant of HookAdapter.
THEOREM HookTypes == Spec => []TypeOK
<1>1. HookInv => TypeOK
  BY DEF HookInv, CallInv, CallType, TypeOK, CommandType, ConfigType, RowType, Verdicts
<1> QED BY <1>1, HookInvHolds, PTL

\* Whatever the gates say and whatever happens to the processes, the files and the binary:
\* a command goes on only if neither reading of it has a segment that is blocked by its
\* form, some install is gated if either reading has one, and each of the reading that is
\* chosen was approved with its rows - or through a named way past.  Installs of the other
\* reading may go ungated (EitherReadingIsVetted).
THEOREM OnlyVettedCommandsRun == Spec => []RunsOnlyVetted
<1>1. HookInv => RunsOnlyVetted
  BY DEF HookInv, CallInv, Vetted, Justified, Clear, AllGated, RunsOnlyVetted
<1> QED BY <1>1, HookInvHolds, PTL

\* No answer about gated segments before all of them have their rows.
THEOREM DecisionsAlwaysComplete == Spec => []DecisionsAreComplete
<1>1. HookInv => DecisionsAreComplete
  BY DEF HookInv, CallInv, Complete, AllGated, DecisionsAreComplete
<1> QED BY <1>1, HookInvHolds, PTL

\* As long as it can look for its marker, the shim never takes a gate that worked for one
\* that was not there yet.
THEOREM NoticeOnlyBeforeActivation == Spec => []NoNoticeOnceActive
<1>1. HookInv => NoNoticeOnceActive
  BY DEF HookInv, CallInv, NoNoticeOnceActive
<1> QED BY <1>1, HookInvHolds, PTL

-----------------------------------------------------------------------------
(* The parser's reading of a segment. *)

LEMMA FirstIn ==
  ASSUME NEW S, S \subseteq Nat, S # {}
  PROVE  First(S) \in S /\ \A j \in S : First(S) <= j
<1>1. \E m \in S : \A j \in S : m <= j
  BY LeastNumber
<1> QED BY <1>1 DEF First

\* Of numbers, without the segment they are places of.
LEMMA Places ==
  ASSUME NEW n \in Nat
  PROVE  /\ 1..n \subseteq Nat
         /\ \A i \in 1..n : 1 <= i /\ 1 \in 1..n /\ 1 \in 1..i /\ (\A j \in 1..i : j \in 1..n) /\ (\A j \in 2..i : j \in 1..n)
OBVIOUS

LEMMA Ordered ==
  ASSUME NEW m \in Nat, NEW n \in Nat
  PROVE  m <= m /\ (m <= n /\ m # n => m < n) /\ (m < n => m <= n /\ ~(n <= m) /\ ~(n < m))
OBVIOUS

LEMMA Beyond ==
  ASSUME NEW i \in Nat, NEW j \in Nat, NEW k \in 2..j, k \notin 2..i
  PROVE  i < j
OBVIOUS

LEMMA Apart ==
  ASSUME NEW i \in Nat, NEW j \in Nat, i # j, ~(j < i)
  PROVE  i < j
OBVIOUS

LEMMA LeastIsFirst ==
  ASSUME NEW S, S \subseteq Nat, NEW m \in S, \A j \in S : m <= j
  PROVE  {i \in S : \A j \in S : i <= j} = {m}
<1>1. \A i \in S : i <= m /\ m <= i => i = m
  OBVIOUS
<1>2. m <= m
  OBVIOUS
<1> QED BY <1>1

LEMMA FirstPlace ==
  ASSUME NEW S, NEW s \in Seq(S)
  PROVE  /\ s # <<>> => 1 \in 1..Len(s)
         /\ \A i \in 1..Len(s) : s # <<>>
OBVIOUS

LEMMA FlagFacts ==
  /\ Flag("-p").kind = "flag" /\ Flag("-p").name = "-p"
  /\ Flag("-c").kind = "flag" /\ Flag("-c").name = "-c"
  /\ Redirect.kind = "redirect" /\ Separator.kind = "separator"
  /\ \A name : Flag(name).kind = "flag"
BY DEF Flag, Redirect, Separator

LEMMA SensibleFacts ==
  ASSUME NEW seg, Sensible(seg)
  PROVE  /\ seg.args \in Seq(Arguments) /\ Len(seg.args) \in Nat /\ DOMAIN seg.args = 1..Len(seg.args)
         /\ \A i \in 1..Len(seg.args) :
              /\ seg.args[i] \in Arguments
              /\ seg.args[i].kind # "word" => seg.args[i] \in {Redirect, Separator, Flag(seg.args[i].name)}
              /\ IsValue(seg, i) => seg.args[i].kind = "word"
<1>1. seg.args \in Seq(Arguments)
  BY DEF Sensible
<1>2. /\ Len(seg.args) \in Nat /\ DOMAIN seg.args = 1..Len(seg.args)
      /\ \A i \in 1..Len(seg.args) : seg.args[i] \in Arguments
  BY <1>1
<1>3. ASSUME NEW i \in DOMAIN seg.args
      PROVE  /\ seg.args[i].kind # "word" => seg.args[i] \in {Redirect, Separator, Flag(seg.args[i].name)}
             /\ IsValue(seg, i) => seg.args[i].kind = "word"
  <2>1. seg.args[i].kind # "word" => seg.args[i] \in {Redirect, Separator, Flag(seg.args[i].name)}
    BY <1>3 DEF Sensible, WellFormed
  <2>2. i > 1 /\ seg.args[i - 1] \in {Redirect} \cup {Flag(f) : f \in TakesValue(seg.verb)}
          => seg.args[i].kind = "word"
    BY <1>3 DEF Sensible
  <2> QED BY <2>1, <2>2 DEF IsValue, Follows
<1> QED BY <1>1, <1>2, <1>3

LEMMA SeparatorFacts ==
  ASSUME NEW seg, Sensible(seg)
  PROVE  \A j \in 1..Len(seg.args) : seg.args[j].kind = "separator" <=> seg.args[j] = Separator
<1> SUFFICES ASSUME NEW j \in 1..Len(seg.args)
             PROVE  seg.args[j].kind = "separator" <=> seg.args[j] = Separator
  OBVIOUS
<1>1. seg.args[j].kind # "word" => seg.args[j] \in {Redirect, Separator, Flag(seg.args[j].name)}
  BY SensibleFacts
<1> QED BY <1>1, FlagFacts

\* What an option takes is the word behind it, and no other option is behind one.
LEMMA RolesAre ==
  ASSUME NEW seg, Sensible(seg), seg.verb = "npx"
  PROVE  \A i \in 1..Len(seg.args) :
           Roles(seg)[i] = IF Follows(seg, i, "-p") THEN "package"
                           ELSE IF Follows(seg, i, "-c") THEN "command" ELSE LooksLike(seg.args[i])
<1> DEFINE n == Len(seg.args)
           Rule(r, i) == IF i = 0 THEN "none"
                         ELSE IF r[i - 1] = "-p" THEN "package"
                         ELSE IF r[i - 1] = "-c" THEN "command"
                         ELSE LooksLike(seg.args[i])
           Reads(r) == r = [i \in 0..n |-> Rule(r, i)]
           Taken(i) == IF Follows(seg, i, "-p") THEN "package"
                       ELSE IF Follows(seg, i, "-c") THEN "command" ELSE LooksLike(seg.args[i])
           taken == [i \in 0..n |-> IF i = 0 THEN "none" ELSE Taken(i)]
<1>0. n \in Nat /\ \A i : Follows(seg, i, "-p") \/ Follows(seg, i, "-c") => IsValue(seg, i)
  <2>1. {"-p", "-c"} \subseteq TakesValue(seg.verb)
    BY DEF TakesValue
  <2> QED BY <2>1, SensibleFacts DEF IsValue
<1>1. \A i \in 1..n : /\ LooksLike(seg.args[i]) = "-p" <=> seg.args[i] = Flag("-p")
                      /\ LooksLike(seg.args[i]) = "-c" <=> seg.args[i] = Flag("-c")
  BY FlagFacts DEF LooksLike
<1>2. \A i \in 1..n : /\ Taken(i) = "-p" <=> seg.args[i] = Flag("-p")
                      /\ Taken(i) = "-c" <=> seg.args[i] = Flag("-c")
  BY <1>0, <1>1, SensibleFacts, FlagFacts
<1>3. ASSUME NEW i \in 0..n PROVE taken[i] = Rule(taken, i)
  <2>1. CASE i = 0
    BY <2>1
  <2>2. CASE i # 0
    <3>1. i \in 1..n /\ i - 1 \in 0..n
      BY <1>0, <2>2
    <3>2. /\ taken[i - 1] = "-p" <=> Follows(seg, i, "-p")
          /\ taken[i - 1] = "-c" <=> Follows(seg, i, "-c")
      <4>1. CASE i = 1
        BY <3>1, <4>1 DEF Follows
      <4>2. CASE i # 1
        <5>1. i - 1 \in 1..n /\ i > 1 /\ taken[i - 1] = Taken(i - 1)
          BY <1>0, <3>1, <4>2
        <5> HIDE DEF taken, Taken
        <5> QED BY <1>2, <5>1 DEF Follows
      <4> QED BY <4>1, <4>2
    <3>3. taken[i] = Taken(i)
      BY <2>2
    <3> HIDE DEF taken
    <3> QED BY <2>2, <3>1, <3>2, <3>3 DEF LooksLike
  <2> QED BY <2>1, <2>2
<1>4. Reads(taken)
  <2>1. taken = [i \in 0..n |-> taken[i]]
    OBVIOUS
  <2> HIDE DEF taken, Rule
  <2> QED BY <1>3, <2>1
<1> DEFINE role == CHOOSE r : Reads(r)
<1>5. Reads(role)
  <2> HIDE DEF Reads, taken
  <2> QED BY <1>4
<1>6. Roles(seg) = role
  BY DEF Roles
<1> HIDE DEF role, taken
<1>7. \A i \in 0..n : role[i] = Rule(role, i)
  <2> HIDE DEF Rule
  <2> QED BY <1>5
<1> HIDE DEF Reads
<1>8. ASSUME NEW i \in 1..n PROVE /\ role[i] = "-p" <=> seg.args[i] = Flag("-p")
                                  /\ role[i] = "-c" <=> seg.args[i] = Flag("-c")
  <2>1. role[i] \in {"-p", "-c"} => role[i] = LooksLike(seg.args[i])
    BY <1>7 DEF LooksLike
  <2>2. ASSUME seg.args[i] \in {Flag("-p"), Flag("-c")} PROVE role[i] = LooksLike(seg.args[i])
    <3>1. seg.args[i].kind # "word" /\ ~Follows(seg, i, "-p") /\ ~Follows(seg, i, "-c")
      BY <1>0, <2>2, SensibleFacts, FlagFacts
    <3>2. CASE i = 1
      <4>1. role[0] = "none"
        BY <1>0, <1>7
      <4> QED BY <1>7, <3>2, <4>1 DEF LooksLike
    <3>3. CASE i # 1
      <4>1. i - 1 \in 1..n /\ seg.args[i - 1] # Flag("-p") /\ seg.args[i - 1] # Flag("-c")
        BY <3>1, <3>3 DEF Follows
      <4>2. role[i - 1] # "-p" /\ role[i - 1] # "-c"
        <5>1. role[i - 1] \in {"-p", "-c"} => role[i - 1] = LooksLike(seg.args[i - 1])
          BY <1>7, <4>1 DEF LooksLike
        <5> QED BY <1>1, <4>1, <5>1
      <4> QED BY <1>7, <4>2 DEF LooksLike
    <3> QED BY <3>2, <3>3
  <2> QED BY <1>1, <2>1, <2>2
<1>9. ASSUME NEW i \in 1..n PROVE role[i] = Taken(i)
  <2>1. /\ role[i - 1] = "-p" <=> Follows(seg, i, "-p")
        /\ role[i - 1] = "-c" <=> Follows(seg, i, "-c")
    <3>1. CASE i = 1
      <4>1. role[0] = "none"
        BY <1>0, <1>7
      <4> QED BY <3>1, <4>1 DEF Follows
    <3>2. CASE i # 1
      <4>1. i - 1 \in 1..n /\ i > 1
        BY <3>2
      <4> QED BY <1>8, <4>1 DEF Follows
    <3> QED BY <3>1, <3>2
  <2> QED BY <1>7, <2>1 DEF LooksLike
<1> QED BY <1>6, <1>9

\* In front of a redirection, the parser's words are the names and the values of options.
LEMMA WordsAreSeen ==
  ASSUME NEW seg, Sensible(seg)
  PROVE  /\ PositionalArgs(seg) \subseteq Before(seg) /\ Before(seg) \subseteq 1..Len(seg.args)
         /\ Names(seg) \subseteq 1..Len(seg.args) /\ 1..Len(seg.args) \subseteq Nat
         /\ \A i \in Before(seg), j \in 1..Len(seg.args) : j \notin Before(seg) => i < j
         /\ \A i \in Before(seg) : i \in Names(seg) <=> i \in PositionalArgs(seg) /\ ~IsValue(seg, i)
<1>1. \A j \in 1..Len(seg.args) : seg.args[j].kind = "redirect" <=> seg.args[j] = Redirect
  BY SensibleFacts, FlagFacts
<1>2. /\ DOMAIN seg.args = 1..Len(seg.args) /\ Len(seg.args) \in Nat /\ 1..Len(seg.args) \subseteq Nat
      /\ \A i \in 1..Len(seg.args) : \A j \in 1..i : j \in 1..Len(seg.args)
  BY SensibleFacts, Places
<1>3. PositionalArgs(seg) \subseteq Before(seg) /\ Before(seg) \subseteq 1..Len(seg.args)
  BY <1>2 DEF PositionalArgs, Before
<1>4. Names(seg) \subseteq 1..Len(seg.args)
  BY <1>2 DEF Names
<1>5. ASSUME NEW i \in Before(seg), NEW j \in 1..Len(seg.args), j \notin Before(seg)
      PROVE  i < j
  <2>1. PICK k \in 1..j : seg.args[k].kind = "redirect"
    BY <1>2, <1>5 DEF Before
  <2>2. k \notin 1..i
    BY <2>1 DEF Before
  <2>3. i \in Nat /\ j \in Nat
    BY <1>2, <1>3
  <2> QED BY <2>2, <2>3
<1>6. ASSUME NEW i \in Before(seg)
      PROVE  i > 1 => seg.args[i - 1] # Redirect
  <2>1. i > 1 => i - 1 \in 1..i /\ i - 1 \in 1..Len(seg.args)
    BY <1>2, <1>3
  <2>2. i > 1 => seg.args[i - 1].kind # "redirect"
    BY <2>1 DEF Before
  <2> QED BY <1>1, <2>1, <2>2
<1>7. \A i \in Before(seg) : i \in Names(seg) <=> i \in PositionalArgs(seg) /\ ~IsValue(seg, i)
  BY <1>2, <1>3, <1>6 DEF Names, PositionalArgs
<1> QED BY <1>2, <1>3, <1>4, <1>5, <1>7

LEMMA ActionsOfResults ==
  /\ Ignore.action = "ignore" /\ Block.action = "block" /\ Result("frozen").action = "frozen"
  /\ \A eco, name, version :
       LET read == GateResult(eco, name, version) IN
       /\ read.action \notin {"ignore", "frozen"}
       /\ read.action = "gate" => read.eco = eco /\ read.name = name /\ read.version = version
<1>1. Ignore.action = "ignore" /\ Block.action = "block" /\ Result("frozen").action = "frozen"
  BY DEF Ignore, Block, Result
<1>2. ASSUME NEW eco, NEW name, NEW version
      PROVE  /\ GateResult(eco, name, version).action \notin {"ignore", "frozen"}
             /\ GateResult(eco, name, version).action = "gate" =>
                  /\ GateResult(eco, name, version).eco = eco
                  /\ GateResult(eco, name, version).name = name
                  /\ GateResult(eco, name, version).version = version
  <2>1. CASE name = ""
    <3>1. GateResult(eco, name, version) = Block
      BY <2>1 DEF GateResult
    <3> QED BY <1>1, <3>1
  <2>2. CASE name # ""
    <3>1. GateResult(eco, name, version) =
            [action |-> "gate", eco |-> eco, name |-> name, version |-> version]
      BY <2>2 DEF GateResult
    <3> QED BY <3>1
  <2> QED BY <2>1, <2>2
<1> QED BY <1>1, <1>2

\* What is gated as an argument that is fetched, in its version, is read right.
LEMMA JudgedAsFetched ==
  ASSUME NEW seg, NEW i \in IF seg.verb \in KnowsPaths THEN Installs(seg) ELSE Fetched(seg),
         NEW version,
         ClassifySegment(seg) = GateResult(Ecosystem(seg.verb), seg.args[i].name, version),
         version = IF Ecosystem(seg.verb) \in {"github", "mcp"} THEN NoVersion ELSE seg.args[i].version
  PROVE  ReadRight(seg)
<1> DEFINE read == ClassifySegment(seg)
<1>1. /\ read.action \notin {"ignore", "frozen"}
      /\ read.action = "gate" => /\ read.eco = Ecosystem(seg.verb) /\ read.name = seg.args[i].name
                                 /\ read.version = version
  BY ActionsOfResults
<1>2. NotSilent(seg)
  BY <1>1 DEF NotSilent
<1> HIDE DEF read
<1>3. ReadRight(seg) <=>
        /\ NotSilent(seg)
        /\ read.action = "gate" =>
             /\ read.eco = Ecosystem(seg.verb)
             /\ \E k \in IF seg.verb \in KnowsPaths THEN Installs(seg) ELSE Fetched(seg) :
                  /\ read.name = seg.args[k].name
                  /\ read.version = IF read.eco \in {"github", "mcp"} THEN NoVersion
                                    ELSE seg.args[k].version
  BY DEF ReadRight, read
<1> QED BY <1>1, <1>2, <1>3

LEMMA Blocked ==
  ASSUME NEW seg, ClassifySegment(seg) = Block
  PROVE  ReadRight(seg)
BY ActionsOfResults DEF ReadRight, NotSilent

LEMMA NotJudged ==
  ASSUME NEW seg, ClassifySegment(seg) = Ignore \/ ClassifySegment(seg) = Result("frozen"), Installs(seg) = {}
  PROVE  ReadRight(seg)
BY ActionsOfResults DEF ReadRight, NotSilent

\* Where the parser is not known to err, the first word in sight is the first name.
LEMMA FirstWordIsName ==
  ASSUME NEW seg, Sensible(seg), NEW words, words \subseteq PositionalArgs(seg), words # {},
         \A i \in Names(seg) \cap Before(seg) : i \in words,
         ~IsValue(seg, First(words))
  PROVE  First(words) \in words /\ Least(Names(seg)) = {First(words)}
<1> DEFINE first == First(words)
<1>1. words \subseteq Nat /\ words \subseteq Before(seg) /\ Names(seg) \subseteq Nat
  BY WordsAreSeen
<1>2. first \in words /\ \A j \in words : first <= j
  BY <1>1, FirstIn
<1>3. first \in Names(seg)
  BY <1>1, <1>2, WordsAreSeen
<1>4. ASSUME NEW j \in Names(seg) PROVE first <= j
  <2>1. CASE j \in Before(seg)
    BY <1>2, <1>4, <2>1
  <2>2. CASE j \notin Before(seg)
    <3>1. first < j
      BY <1>1, <1>2, <1>4, <2>2, WordsAreSeen
    <3> QED BY <1>1, <1>3, <3>1
  <2> QED BY <2>1, <2>2
<1> HIDE DEF first
<1>5. Least(Names(seg)) = {first}
  BY <1>1, <1>3, <1>4, LeastIsFirst DEF Least
<1> QED BY <1>2, <1>5 DEF first

\* The value of an option is not the first word in sight.
LEMMA FirstIsNoValue ==
  ASSUME NEW seg, Sensible(seg), ~ValueFirst(seg), seg.verb # "go get",
         NEW words, words \subseteq PositionalArgs(seg), words # {},
         \A i \in Names(seg) \cap Before(seg) : i \in words,
         Fetched(seg) \subseteq Names(seg),
         IsValue(seg, First(words)) =>
           /\ seg.verb = "npx" => Follows(seg, First(words), "--registry")
           /\ seg.verb = "gh repo clone" => seg.args[First(words)].place \in {"github", "owner/repo"}
  PROVE  ~IsValue(seg, First(words))
<1> DEFINE first == First(words)
<1>1. /\ words \subseteq Nat /\ words \subseteq Before(seg) /\ Names(seg) \subseteq Nat
      /\ words \subseteq DOMAIN seg.args
  BY WordsAreSeen, SensibleFacts
<1>2. first \in words /\ \A j \in words : first <= j
  BY <1>1, FirstIn
<1>3. ASSUME IsValue(seg, first), NEW j \in Fetched(seg) PROVE first < j
  <2>1. j \in Names(seg) /\ j # first
    BY <1>3 DEF Names
  <2>2. CASE j \in Before(seg)
    <3>1. first <= j /\ first \in Nat /\ j \in Nat
      BY <1>1, <1>2, <2>1, <2>2
    <3> HIDE DEF first
    <3> QED BY <2>1, <3>1, Ordered
  <2>3. CASE j \notin Before(seg)
    BY <1>1, <1>2, <2>1, <2>3, WordsAreSeen
  <2> QED BY <2>2, <2>3
<1> HIDE DEF first
<1>4. first \in DOMAIN seg.args
  BY <1>1, <1>2
<1> QED BY <1>3, <1>4 DEF ValueFirst, first

\* Of the tools whose every word is fetched, or whose first is, the first word is judged.
LEMMA FirstWordIsRead ==
  ASSUME NEW seg, Sensible(seg), ~SafeFrozen(seg), ~KnownMisread(seg),
         seg.verb \in {"npm install", "pnpm add", "yarn add", "pip install", "uv add", "docker run",
                       "claude mcp add", "cargo install", "gem install"}
  PROVE  ReadRight(seg)
<1> DEFINE words == PositionalArgs(seg)
           first == First(words)
           word  == seg.args[first]
           Version == IF seg.verb \in {"claude mcp add", "cargo install", "gem install"} THEN NoVersion
                      ELSE word.version
<1>1. seg.verb \notin KnowsPaths /\ seg.verb \notin {"npx", "go get", "gh repo clone"}
  BY DEF KnowsPaths
<1>2. Fetched(seg) = Names(seg) \/ Fetched(seg) = Least(Names(seg))
  BY DEF Fetched, SafeFrozen
<1>3. /\ Fetched(seg) \subseteq Names(seg) /\ Installs(seg) \subseteq Fetched(seg)
      /\ words \subseteq Before(seg)
      /\ \A i \in Names(seg) \cap Before(seg) : i \in words
  BY <1>2, WordsAreSeen DEF Least, Installs
<1>4. CASE words = {}
  <2>1. Installs(seg) \cap Before(seg) = {}
    BY <1>3, <1>4
  <2>2. Installs(seg) = {}
    BY <1>1, <2>1 DEF KnownMisread, OutOfSight
  <2>3. ClassifySegment(seg) \in {Ignore, Block}
    BY <1>4 DEF ClassifySegment
  <2>4. CASE ClassifySegment(seg) = Block
    BY <2>4, Blocked
  <2>5. CASE ClassifySegment(seg) = Ignore
    BY <2>2, <2>5, NotJudged
  <2> QED BY <2>3, <2>4, <2>5
<1>5. CASE words # {}
  <2>1. ~IsValue(seg, first)
    <3>1. ~ValueFirst(seg)
      BY DEF KnownMisread
    <3> HIDE DEF words
    <3> QED BY <1>1, <1>3, <1>5, <3>1, FirstIsNoValue DEF words
  <2>2. first \in words /\ Least(Names(seg)) = {first}
    BY <1>3, <1>5, <2>1, FirstWordIsName
  <2>3. first \in Fetched(seg) /\ first \in Least(Fetched(seg))
    <3> HIDE DEF first, words
    <3>1. first \in Names(seg)
      BY <2>2 DEF Least
    <3>2. CASE Fetched(seg) = Names(seg)
      BY <2>2, <3>1, <3>2
    <3>3. CASE Fetched(seg) = Least(Names(seg))
      <4>1. Least(Fetched(seg)) = {i \in {first} : \A j \in {first} : i <= j} /\ first \in Nat
        BY <2>2, <3>1, <3>3, WordsAreSeen DEF Least
      <4>2. first <= first
        BY <4>1, Ordered
      <4> QED BY <2>2, <3>3, <4>1, <4>2
    <3> QED BY <1>2, <3>2, <3>3
  <2>4. seg.verb \in {"cargo install", "gem install"} => word.version = NoVersion
    <3> HIDE DEF first, words
    <3> QED BY <2>3 DEF KnownMisread
  <2>5. seg.verb = "uv add" /\ word.how # "==" => word.version = NoVersion
    <3> HIDE DEF first, words
    <3>1. WellFormed(word) /\ Understood(seg.verb, word)
      BY <1>3, <2>3, WordsAreSeen, SensibleFacts DEF Sensible
    <3> HIDE DEF word
    <3> QED BY <3>1 DEF WellFormed, Understood, Separators
  <2>6. \/ ClassifySegment(seg) = Block
        \/ ClassifySegment(seg) = GateResult(Ecosystem(seg.verb), word.name, Version)
    <3> HIDE DEF words, first, word
    <3>2. CASE seg.verb \in {"npm install", "pnpm add", "yarn add"}
      BY <1>5, <3>2 DEF ClassifySegment, NpmAdd, Ecosystem, words, first, word
    <3>3. CASE seg.verb \in {"pip install", "uv add"}
      BY <1>5, <2>5, <3>3 DEF ClassifySegment, PipInstall, Ecosystem, words, first, word
    <3>4. CASE seg.verb \in {"docker run", "claude mcp add", "cargo install", "gem install"}
      BY <1>5, <3>4 DEF ClassifySegment, Ecosystem, words, first, word
    <3> QED BY <3>2, <3>3, <3>4
  <2>7. Version = IF Ecosystem(seg.verb) \in {"github", "mcp"} THEN NoVersion ELSE word.version
    <3> HIDE DEF words, first, word
    <3>1. Ecosystem(seg.verb) \in {"github", "mcp"} <=> seg.verb = "claude mcp add"
      BY DEF Ecosystem
    <3> QED BY <2>4, <3>1
  <2>8. CASE ClassifySegment(seg) = Block
    BY <2>8, Blocked
  <2>9. CASE ClassifySegment(seg) = GateResult(Ecosystem(seg.verb), word.name, Version)
    <3> HIDE DEF first, Version
    <3> QED BY <1>1, <2>3, <2>7, <2>9, JudgedAsFetched
  <2> QED BY <2>6, <2>8, <2>9
<1> QED BY <1>4, <1>5

\* A clone's first name is the one that is judged.
LEMMA CloneIsRead ==
  ASSUME NEW seg, Sensible(seg), ~SafeFrozen(seg), ~KnownMisread(seg),
         seg.verb \in {"git clone", "gh repo clone"}
  PROVE  ReadRight(seg)
<1>0. /\ seg.verb \notin KnowsPaths /\ Ecosystem(seg.verb) = "github"
      /\ seg.verb \notin {"npx", "go get"} /\ Fetched(seg) = Least(Names(seg))
  BY DEF KnowsPaths, Ecosystem, Fetched
<1>1. /\ Names(seg) \subseteq Nat /\ Names(seg) \subseteq 1..Len(seg.args)
      /\ Fetched(seg) \subseteq Names(seg) /\ Installs(seg) \subseteq Fetched(seg)
  BY <1>0, WordsAreSeen DEF Least, Installs
<1>2. ASSUME seg.verb = "git clone" PROVE ReadRight(seg)
  <2>1. ClassifySegment(seg) = GitClone(seg)
    BY <1>2 DEF ClassifySegment
  <2>2. CASE seg.args # <<>> /\ seg.args[1].kind = "word"
    <3>1. 1 \in Names(seg)
      <4>1. 1 \in DOMAIN seg.args
        BY <2>2, SensibleFacts, FirstPlace
      <4>2. ~IsValue(seg, 1)
        BY Ordered DEF IsValue, Follows
      <4> QED BY <2>2, <4>1, <4>2, Ordered DEF Names
    <3>2. \A i \in Names(seg) : 1 <= i
      BY <1>1, SensibleFacts, Places
    <3>3. Fetched(seg) = {1}
      BY <1>0, <1>1, <3>1, <3>2, LeastIsFirst DEF Least
    <3>4. CASE seg.args[1].place = "github"
      <4>1. ClassifySegment(seg) = GateResult("github", seg.args[1].name, NoVersion)
        BY <2>1, <2>2, <3>4 DEF GitClone
      <4> QED BY <1>0, <3>3, <4>1, JudgedAsFetched
    <3>5. CASE seg.args[1].place # "github"
      <4>1. ClassifySegment(seg) = Ignore
        BY <2>1, <3>5 DEF GitClone
      <4>2. Installs(seg) = {}
        BY <1>2, <3>3, <3>5 DEF Installs
      <4> QED BY <4>1, <4>2, NotJudged
    <3> QED BY <3>4, <3>5
  <2>3. CASE seg.args = <<>>
    <3>1. Installs(seg) = {}
      BY <1>1, <2>3, SensibleFacts, FirstPlace
    <3> QED BY <2>1, <2>3, <3>1, NotJudged DEF GitClone
  <2>4. CASE seg.args # <<>> /\ seg.args[1].kind # "word"
    <3>1. Installs(seg) = {}
      BY <1>2, <2>4 DEF KnownMisread
    <3>2. seg.args[1].place # "github"
      <4>1. \A name : Flag(name).place = "none"
        BY DEF Flag
      <4>2. Redirect.place = "none" /\ Separator.place = "none"
        BY DEF Flag, Redirect, Separator
      <4>3. 1 \in 1..Len(seg.args)
        BY <2>4, SensibleFacts, FirstPlace
      <4> QED BY <2>4, <4>1, <4>2, <4>3, SensibleFacts
    <3> QED BY <2>1, <3>1, <3>2, NotJudged DEF GitClone
  <2> QED BY <2>2, <2>3, <2>4
<1>3. ASSUME seg.verb = "gh repo clone" PROVE ReadRight(seg)
  <2> DEFINE repos == {i \in PositionalArgs(seg) : seg.args[i].place \in {"github", "owner/repo"}}
  <2>0. seg.verb # "npx" /\ seg.verb # "git clone"
    BY <1>3
  <2>1. ClassifySegment(seg) = GhRepoClone(seg)
    BY <1>3 DEF ClassifySegment
  <2>2. \A i \in Fetched(seg) : seg.args[i].place \in {"github", "owner/repo"}
    BY <1>3 DEF KnownMisread
  <2>3. Installs(seg) = Fetched(seg)
    BY <1>0, <2>0, <2>2 DEF Installs
  <2>4. Fetched(seg) \cap Before(seg) \subseteq repos
    BY <1>1, <2>2, WordsAreSeen
  <2>5. Fetched(seg) # {} => Fetched(seg) \cap Before(seg) # {}
    BY <2>0, <2>3 DEF KnownMisread, OutOfSight
  <2>6. CASE repos = {}
    <3>1. Installs(seg) = {}
      BY <2>3, <2>4, <2>5, <2>6
    <3>2. ClassifySegment(seg) = Ignore
      BY <2>1, <2>6 DEF GhRepoClone
    <3> QED BY <3>1, <3>2, NotJudged
  <2>7. CASE repos # {}
    <3> DEFINE first == First(repos)
    <3>1. repos \subseteq PositionalArgs(seg) /\ repos \subseteq Nat /\ repos \subseteq Before(seg)
      BY WordsAreSeen
    <3>2. first \in repos /\ \A j \in repos : first <= j
      BY <2>7, <3>1, FirstIn
    <3>3. first \in 1..Len(seg.args) /\ first \in Nat /\ first \in Before(seg)
      BY <3>1, <3>2, WordsAreSeen
    <3>4. seg.args[first].place \in {"github", "owner/repo"} /\ first \in PositionalArgs(seg)
      BY <3>2
    <3> HIDE DEF repos, first
    <3>5. ASSUME NEW j \in Fetched(seg), first # j PROVE first < j
      <4>1. j \in Nat /\ j \in 1..Len(seg.args)
        BY <1>1
      <4>2. CASE j \in Before(seg)
        <5>1. first <= j
          BY <2>4, <3>2, <4>2
        <5> QED BY <3>3, <3>5, <4>1, <5>1, Ordered
      <4>3. CASE j \notin Before(seg)
        BY <3>3, <4>1, <4>3, WordsAreSeen
      <4> QED BY <4>2, <4>3
    <3>6. ~IsValue(seg, first)
      <4>1. ASSUME IsValue(seg, first) PROVE FALSE
        <5>1. first \notin Fetched(seg)
          BY <1>1, <4>1 DEF Names
        <5>2. \A j \in Fetched(seg) : first < j
          BY <3>5, <5>1
        <5>3. first \in DOMAIN seg.args
          BY <3>3, SensibleFacts
        <5> QED BY <1>0, <2>0, <3>4, <4>1, <5>2, <5>3 DEF KnownMisread, ValueFirst
      <4> QED BY <4>1
    <3>7. first \in Names(seg)
      BY <3>3, <3>4, <3>6, WordsAreSeen
    <3>8. first \in Fetched(seg)
      <4>1. PICK j \in Names(seg) : \A k \in Names(seg) : j <= k
        BY <1>1, <3>7, LeastNumber
      <4>2. j \in Fetched(seg) /\ j <= first
        BY <1>0, <3>7, <4>1 DEF Least
      <4> QED BY <1>1, <3>3, <3>5, <4>2, Ordered
    <3>9. ClassifySegment(seg) = GateResult("github", seg.args[first].name, NoVersion)
      BY <2>1, <2>7 DEF GhRepoClone, repos, first
    <3> QED BY <1>0, <3>8, <3>9, JudgedAsFetched
  <2> QED BY <2>6, <2>7
<1> QED BY <1>2, <1>3

LEMMA GoGetIsRead ==
  ASSUME NEW seg, Sensible(seg), ~SafeFrozen(seg), ~KnownMisread(seg), seg.verb = "go get"
  PROVE  ReadRight(seg)
<1>0. /\ seg.verb \in KnowsPaths /\ Ecosystem(seg.verb) = "go" /\ Fetched(seg) = Names(seg)
      /\ seg.verb # "npx" /\ seg.verb # "git clone"
  BY DEF KnowsPaths, Ecosystem, Fetched
<1>1. ClassifySegment(seg) = GoGet(seg)
  BY DEF ClassifySegment
<1>2. Installs(seg) = NotLocal(seg, Names(seg))
  BY <1>0 DEF Installs, NotLocal
<1>3. CASE seg.args # <<>> /\ seg.args[1].how = "@"
  <2>1. 1 \in DOMAIN seg.args /\ 1 \in 1..Len(seg.args)
    BY <1>3, SensibleFacts, FirstPlace
  <2>2. seg.args[1].place # "local"
    <3>1. Understood(seg.verb, seg.args[1])
      BY <2>1 DEF Sensible
    <3> QED BY <1>3, <3>1 DEF Understood
  <2>3. seg.args[1].kind = "word"
    <3>1. \A name : Flag(name).how = "none"
      BY DEF Flag
    <3>2. Redirect.how = "none" /\ Separator.how = "none"
      BY DEF Flag, Redirect, Separator
    <3> QED BY <1>3, <2>1, <3>1, <3>2, SensibleFacts
  <2>4. 1 \in Installs(seg)
    <3>1. ~IsValue(seg, 1)
      BY Ordered DEF IsValue, Follows
    <3> QED BY <1>2, <2>1, <2>2, <2>3, <3>1, Ordered DEF NotLocal, Names
  <2>5. CASE seg.args[1].version = "latest"
    BY <1>1, <1>3, <2>5, Blocked DEF GoGet
  <2>6. CASE seg.args[1].version # "latest"
    <3>1. ClassifySegment(seg) = GateResult("go", seg.args[1].name, seg.args[1].version)
      BY <1>1, <1>3, <2>6 DEF GoGet
    <3> QED BY <1>0, <2>4, <3>1, JudgedAsFetched
  <2> QED BY <2>5, <2>6
<1>4. CASE ~(seg.args # <<>> /\ seg.args[1].how = "@")
  <2>1. CASE NotLocal(seg, PositionalArgs(seg)) = {}
    <3>1. Installs(seg) \cap Before(seg) = {}
      BY <1>2, <2>1, WordsAreSeen DEF NotLocal
    <3>2. Installs(seg) = {}
      BY <1>0, <3>1 DEF KnownMisread, OutOfSight
    <3>3. ClassifySegment(seg) = Ignore
      BY <1>1, <1>4, <2>1 DEF GoGet
    <3> QED BY <3>2, <3>3, NotJudged
  <2>2. CASE NotLocal(seg, PositionalArgs(seg)) # {}
    <3>1. ClassifySegment(seg) = Block
      BY <1>1, <1>4, <2>2 DEF GoGet
    <3> QED BY <3>1, Blocked
  <2> QED BY <2>1, <2>2
<1> QED BY <1>3, <1>4

\* What -p names in sight is what npx fetches, or else the first word is, if the parser is
\* not known to err.
LEMMA NpxIsRead ==
  ASSUME NEW seg, Sensible(seg), ~KnownMisread(seg), seg.verb = "npx"
  PROVE  ClassifySegment(seg) = Npx(seg) => ReadRight(seg)
<1> DEFINE own      == OwnArgs(seg)
           packages == {i \in DOMAIN seg.args : Follows(seg, i, "-p")}
           explicit == {i \in own : Roles(seg)[i] = "package"}
           bare     == {i \in own : Roles(seg)[i] = "bare"}
           specs    == NotLocal(seg, ExecArgs(seg))
           first    == First(bare)
<1>0. /\ seg.verb \in KnowsPaths /\ Ecosystem(seg.verb) = "npm"
      /\ seg.verb # "go get" /\ seg.verb # "gh repo clone" /\ seg.verb # "git clone"
      /\ TakesValue(seg.verb) = {"-p", "-c", "--registry"}
  BY DEF KnowsPaths, Ecosystem, TakesValue
<1>1. /\ own \subseteq Before(seg) /\ own \subseteq 1..Len(seg.args) /\ 1..Len(seg.args) \subseteq Nat
      /\ DOMAIN seg.args = 1..Len(seg.args) /\ Len(seg.args) \in Nat
  BY WordsAreSeen, SensibleFacts DEF OwnArgs
<1>2. ASSUME NEW i \in own, NEW j \in 1..Len(seg.args), j \notin own PROVE i < j
  <2>1. CASE j \notin Before(seg)
    BY <1>1, <1>2, <2>1, WordsAreSeen
  <2>2. CASE j \in Before(seg)
    <3>1. PICK k \in 2..j : seg.args[k].kind = "separator"
      BY <1>2, <2>2 DEF OwnArgs
    <3>2. k \notin 2..i
      BY <3>1 DEF OwnArgs
    <3>3. i \in Nat /\ j \in Nat
      BY <1>1
    <3> HIDE DEF own
    <3> QED BY <3>2, <3>3, Beyond
  <2> QED BY <2>1, <2>2
<1>3. \A i \in own : seg.args[i].kind = "word" => i \in PositionalArgs(seg)
  BY <1>1 DEF PositionalArgs
<1>4. /\ explicit = packages \cap own
      /\ \A i \in own : i \in bare <=> seg.args[i].kind = "word" /\ ~Follows(seg, i, "-p") /\ ~Follows(seg, i, "-c")
  BY <1>1, RolesAre, FlagFacts DEF LooksLike
<1>5. \A i : IsValue(seg, i) <=> Follows(seg, i, "-p") \/ Follows(seg, i, "-c") \/ Follows(seg, i, "--registry")
  BY <1>0 DEF IsValue
<1>6. /\ ~ValueFirst(seg) /\ ~OutOfSight(seg)
      /\ \A i \in packages : \A j \in Names(seg) : ~(j < i)
  BY DEF KnownMisread
<1>7. Installs(seg) = {} \/ \E i \in Installs(seg) : i \in own
  BY <1>6 DEF OutOfSight
<1>8. Names(seg) \subseteq 1..Len(seg.args) /\ \A i \in packages : i \notin Names(seg) /\ i \in 1..Len(seg.args)
  BY <1>1, <1>5, WordsAreSeen DEF Names
<1>9. Fetched(seg) = IF packages # {} THEN packages ELSE Least(Names(seg))
  <2>1. {i \in packages : \A j \in Names(seg) : i < j} = packages
    <3> SUFFICES ASSUME NEW i \in packages, NEW j \in Names(seg) PROVE i < j
      OBVIOUS
    <3>1. i # j /\ i \in Nat /\ j \in Nat /\ ~(j < i)
      BY <1>1, <1>6, <1>8
    <3> QED BY <3>1, Apart
  <2>2. Fetched(seg) = LET found == {i \in DOMAIN seg.args : /\ Follows(seg, i, "-p")
                                                           /\ \A j \in Names(seg) : i < j} IN
                       IF found # {} THEN found ELSE Least(Names(seg))
    BY DEF Fetched
  <2>3. {i \in DOMAIN seg.args : Follows(seg, i, "-p") /\ \A j \in Names(seg) : i < j} = packages
    BY <2>1
  <2> HIDE DEF packages
  <2> QED BY <2>2, <2>3
<1>10. Installs(seg) = NotLocal(seg, Fetched(seg))
  BY <1>0 DEF Installs, NotLocal
<1>11. \A i \in Names(seg) : i \in own => i \in bare
  BY <1>4, <1>5 DEF Names
<1> HIDE DEF own, packages
\* If the first bare word is no name, it is a value in front of everything.
<1>12. ASSUME bare # {}, packages \cap own = {} PROVE first \in bare /\ packages = {} /\ Least(Names(seg)) = {first}
  <2>1. bare \subseteq own /\ bare \subseteq Nat
    BY <1>1
  <2>2. first \in bare /\ \A j \in bare : first <= j
    BY <1>12, <2>1, FirstIn
  <2>3. first \in own /\ first \in Nat /\ first \in DOMAIN seg.args /\ first \in Before(seg)
        /\ seg.args[first].kind = "word" /\ first \in PositionalArgs(seg)
    BY <1>1, <1>3, <1>4, <2>1, <2>2
  <2> HIDE DEF bare, first
  <2>4. ASSUME NEW j \in Names(seg), j # first PROVE first < j
    <3>1. CASE j \in own
      <4>1. first <= j /\ j \in Nat
        BY <1>1, <1>8, <1>11, <2>2, <3>1
      <4> QED BY <2>3, <2>4, <4>1, Ordered
    <3>2. CASE j \notin own
      BY <1>2, <1>8, <2>3, <3>2
    <3> QED BY <3>1, <3>2
  <2>5. \A j \in packages : first < j
    BY <1>2, <1>8, <1>12, <2>3
  <2>6. ~IsValue(seg, first)
    <3>1. ASSUME IsValue(seg, first) PROVE FALSE
      <4>1. Follows(seg, first, "--registry")
        BY <1>4, <1>5, <2>2, <2>3, <3>1
      <4>2. first \notin Names(seg)
        BY <3>1 DEF Names
      <4>3. \A j \in Fetched(seg) : first < j
        BY <1>9, <2>4, <2>5, <4>2 DEF Least
      <4> QED BY <1>0, <1>6, <2>3, <3>1, <4>1, <4>3 DEF ValueFirst
    <3> QED BY <3>1
  <2>7. first \in Names(seg)
    BY <2>3, <2>6, WordsAreSeen
  <2>8. packages = {}
    BY <1>6, <2>5, <2>7
  <2>9. Names(seg) \subseteq Nat /\ \A j \in Names(seg) : first <= j
    <3>1. Names(seg) \subseteq Nat
      BY <1>1, <1>8
    <3>2. ASSUME NEW j \in Names(seg) PROVE first <= j
      BY <2>3, <2>4, <3>1, Ordered
    <3> QED BY <3>1, <3>2
  <2>10. Least(Names(seg)) = {first}
    BY <2>7, <2>9, LeastIsFirst DEF Least
  <2> QED BY <2>2, <2>8, <2>10
<1>13. ExecArgs(seg) = IF explicit # {} \/ bare = {} THEN explicit ELSE {first}
  BY DEF ExecArgs, own
<1> HIDE DEF explicit, bare, first
<1>14. specs \subseteq Nat /\ specs \subseteq Installs(seg) /\ (specs = {} => Installs(seg) = {})
  <2>1. CASE explicit # {}
    <3>1. ExecArgs(seg) = packages \cap own /\ Fetched(seg) = packages
      BY <1>4, <1>9, <1>13, <2>1
    <3> QED BY <1>1, <1>7, <1>10, <3>1 DEF NotLocal
  <2>2. CASE explicit = {} /\ bare # {}
    <3>1. ExecArgs(seg) = {first} /\ Fetched(seg) = {first} /\ first \in Nat
      BY <1>1, <1>4, <1>9, <1>12, <1>13, <2>2 DEF bare
    <3> QED BY <1>10, <3>1 DEF NotLocal
  <2>3. CASE explicit = {} /\ bare = {}
    <3>1. specs = {}
      BY <1>13, <2>3 DEF NotLocal
    <3>2. \A i \in Fetched(seg) : i \notin own
      BY <1>4, <1>9, <1>11, <2>3 DEF Least
    <3>3. Installs(seg) = {}
      BY <1>7, <1>10, <3>2 DEF NotLocal
    <3> QED BY <3>1, <3>3
  <2> QED BY <2>1, <2>2, <2>3
<1>15. Npx(seg) = IF specs = {} THEN Ignore
                  ELSE GateResult("npm", seg.args[First(specs)].name, seg.args[First(specs)].version)
  BY DEF Npx
<1> HIDE DEF specs
<1> SUFFICES ASSUME ClassifySegment(seg) = Npx(seg) PROVE ReadRight(seg)
  OBVIOUS
<1>16. CASE specs = {}
  BY <1>14, <1>15, <1>16, NotJudged
<1>17. CASE specs # {}
  <2>1. First(specs) \in Installs(seg)
    BY <1>14, <1>17, FirstIn
  <2> QED BY <1>0, <1>15, <1>17, <2>1, JudgedAsFetched
<1> QED BY <1>16, <1>17

\* What is allowed for its lockfile fetches nothing by name, but for a known misreading.
LEMMA FrozenIsRead ==
  ASSUME NEW seg, Sensible(seg), SafeFrozen(seg), ~KnownMisread(seg)
  PROVE  ReadRight(seg)
<1>1. ClassifySegment(seg) = Result("frozen")
  BY DEF ClassifySegment
<1>2. Installs(seg) = {}
  <2>1. CASE seg.verb = "pip install" /\ Has(seg, "--require-hashes")
    <3>1. Fetched(seg) = {}
      BY <2>1 DEF Fetched
    <3> QED BY <3>1 DEF Installs
  <2>2. CASE seg.verb = "cargo install" /\ Has(seg, "--locked")
    BY <2>2 DEF KnownMisread
  <2>3. CASE Ecosystem(seg.verb) = "none"
    BY <2>3 DEF Installs
  <2>4. \/ seg.verb = "pip install" /\ Has(seg, "--require-hashes")
        \/ seg.verb = "cargo install" /\ Has(seg, "--locked")
        \/ Ecosystem(seg.verb) = "none"
    BY DEF SafeFrozen, Ecosystem
  <2> QED BY <2>1, <2>2, <2>3, <2>4
<1> QED BY <1>1, <1>2, NotJudged

\* Every tool whose installs the parser knows, with any arguments.
LEMMA ReadsRight ==
  ASSUME NEW seg, Sensible(seg), ~KnownMisread(seg)
  PROVE  ReadRight(seg)
<1>1. CASE SafeFrozen(seg)
  BY <1>1, FrozenIsRead
<1>2. CASE seg.verb \in {"winget install", "brew install", "apt install"} /\ ~SafeFrozen(seg)
  <2>1. ClassifySegment(seg) = Block
    BY <1>2 DEF ClassifySegment
  <2> QED BY <2>1, Blocked
<1>3. CASE seg.verb = "npx" /\ ~SafeFrozen(seg)
  <2>1. ClassifySegment(seg) = Npx(seg)
    BY <1>3 DEF ClassifySegment
  <2> QED BY <1>3, <2>1, NpxIsRead
<1>4. CASE ~SafeFrozen(seg) /\ seg.verb \notin
        {"npm install", "pnpm add", "yarn add", "pip install", "uv add", "docker run",
         "claude mcp add", "cargo install", "gem install", "git clone", "gh repo clone", "go get",
         "npx", "winget install", "brew install", "apt install"}
  <2>1. ClassifySegment(seg) = Ignore /\ Ecosystem(seg.verb) = "none"
    BY <1>4 DEF ClassifySegment, Ecosystem
  <2>2. Installs(seg) = {}
    BY <2>1 DEF Installs
  <2> QED BY <2>1, <2>2, NotJudged
<1> QED BY <1>1, <1>2, <1>3, <1>4, FirstWordIsRead, CloneIsRead, GoGetIsRead

\* Whatever the segments, with their options, values, words, "--" and redirections in any
\* order: but where the parser is known to err, what it has judged is what the tool fetches,
\* and what the gates do not hear of fetches nothing.
THEOREM SegmentsAlwaysReadRight == Spec => []SegmentsAreReadRight
<1>1. SegmentsAreReadRight
  BY SegmentsAssumption, ReadsRight DEF SegmentsAreReadRight
<1> QED BY <1>1, PTL
=============================================================================
