---------------------------- MODULE OverrideStore ----------------------------
(***************************************************************************)
(* overrides.json and the processes that write it: "penrush override add"  *)
(* (internal/cli/override.go) and "penrush init" (internal/cli/init.go),   *)
(* through Load, AddWithVersion and save of internal/override/override.go. *)
(* A writer loads the whole store, changes its copy and saves it: it opens *)
(* overrides.json.tmp with O_TRUNC, writes it, and renames it over         *)
(* overrides.json.  There is no lock, and all writers use the same .tmp.   *)
(*                                                                         *)
(* A path names an inode; a writer that opened the .tmp goes on writing to *)
(* its inode wherever a rename has taken it.  An inode is named after the  *)
(* writer that created it, and each process writes once.                   *)
(*                                                                         *)
(* "init" first creates config.json if there is none, in place, with a key *)
(* of its own; all of them are of one length.  That it creates audit.jsonl *)
(* last, without truncating it, changes nothing here.                      *)
(***************************************************************************)
EXTENDS Naturals, Sequences, FiniteSets

CONSTANTS
  Writers,       \* processes that write the store
  Keys,          \* the artifacts overrides are for
  None,          \* no override, no inode
  Disturbances   \* what may go wrong: "crash", "diskfull", "auditfails"

ASSUME WritersAssumption == None \notin Writers /\ "init" \notin Keys

VARIABLES
  job,       \* the key a writer adds an override of, or "init"
  pc,        \* where a writer is
  view,      \* the store in its memory
  fd,        \* the inode it has open
  main, tmp, \* the inodes of overrides.json and overrides.json.tmp
  content,   \* what each inode holds
  config,    \* what config.json holds
  rows,      \* the writers whose override_added row is in the audit log
  started,   \* history: the writers in the order they loaded the store
  met,       \* history: the writers that were not alone while they loaded and saved
  clashed,   \* history: the inits that created config.json at the same time as another
  filled     \* history: the inits that created it

configvars == <<config, clashed, filled>>
storevars == <<job, view, fd, main, tmp, content, rows, started, met>>
vars == <<pc, storevars, configvars>>

\* A store holds for each key the writer of its override; a file holds a store,
\* or nothing, or bytes that do not parse.
Stores == [Keys -> Writers \cup {None}]
EmptyStore == [k \in Keys |-> None]
Whole(store) == [parses |-> TRUE, store |-> store]
Torn == [parses |-> FALSE, store |-> EmptyStore]
Nothing == [parses |-> FALSE, store |-> [k \in {} |-> None]]

\* A config.json that holds the key of a writer, one that was truncated, none.
Keyed(w) == [state |-> "whole", key |-> w]
Truncated == [state |-> "partial", key |-> None]
Missing == [state |-> "missing", key |-> None]

Init ==
  /\ job \in [Writers -> Keys \cup {"init"}]
  /\ pc = [w \in Writers |-> "idle"]
  /\ view = [w \in Writers |-> EmptyStore]
  /\ fd = [w \in Writers |-> None]
  /\ main = None /\ tmp = None
  /\ content = [i \in Writers |-> Nothing]
  /\ rows = {}
  /\ started = <<>>
  /\ met = {}
  /\ config = Missing /\ clashed = {} /\ filled = {}

Moves(w, from, to) == pc[w] = from /\ pc' = [pc EXCEPT ![w] = to]

Saving(w) == pc[w] \in {"open", "write", "rename"}

\* The writer has read the store: whoever is still saving is overlapped.
Overlaps(w) ==
  LET others == {v \in Writers \ {w} : Saving(v)} IN
  /\ started' = Append(started, w)
  /\ met' = IF others = {} THEN met ELSE met \cup others \cup {w}

-----------------------------------------------------------------------------
\* "init": Load finds no config.json; Default makes one with a fresh key.
Creating(w) == pc[w] \in {"create", "fill"}

\* A config.json that is there is written again.
BugAlwaysSaves(w) ==
  /\ job[w] = "init"
  /\ Moves(w, "idle", "create")
  /\ LET others == {v \in Writers \ {w} : Creating(v)} IN
     clashed' = IF others = {} THEN clashed ELSE clashed \cup others \cup {w}
  /\ UNCHANGED <<storevars, config, filled>>

FindNoConfig(w) ==
  /\ job[w] = "init" /\ config = Missing
  /\ Moves(w, "idle", "create")
  /\ LET others == {v \in Writers \ {w} : Creating(v)} IN
     clashed' = IF others = {} THEN clashed ELSE clashed \cup others \cup {w}
  /\ UNCHANGED <<storevars, config, filled>>

\* One that is there is kept, and one that does not parse is not written over.
FindConfig(w) ==
  /\ job[w] = "init" /\ config # Missing
  /\ Moves(w, "idle", IF config = Truncated THEN "failed" ELSE "stat")
  /\ UNCHANGED <<storevars, configvars>>

\* Save: os.WriteFile opens config.json itself with O_CREATE|O_TRUNC ...
OpenConfig(w) ==
  /\ Moves(w, "create", "fill")
  /\ config' = Truncated
  /\ UNCHANGED <<storevars, clashed, filled>>

\* ... and writes it.
FillConfig(w) ==
  /\ Moves(w, "fill", "stat")
  /\ config' = Keyed(w)
  /\ filled' = filled \cup {w}
  /\ UNCHANGED <<storevars, clashed>>

\* The process dies or the disk is full before it is written.
LeaveTruncated(w) ==
  /\ Disturbances \cap {"crash", "diskfull"} # {}
  /\ Moves(w, "fill", "lost")
  /\ UNCHANGED <<storevars, configvars>>

-----------------------------------------------------------------------------
\* What Load makes of overrides.json: no file is an empty store.
OnDisk == IF main = None THEN Whole(EmptyStore) ELSE content[main]

\* Variants named Bug... are mistakes on purpose: each replaces the definition
\* after it in one run that shows a property to fail.
\* The new override replaces the whole store.
BugForgetsOthers(w) ==
  /\ job[w] \in Keys
  /\ OnDisk.parses
  /\ Moves(w, "idle", "open")
  /\ view' = [view EXCEPT ![w] = [k \in {job[w]} |-> w]]
  /\ Overlaps(w)
  /\ UNCHANGED <<job, fd, main, tmp, content, rows, configvars>>

\* "override add": Load and AddWithVersion.
LoadAndAdd(w) ==
  /\ job[w] \in Keys
  /\ OnDisk.parses
  /\ Moves(w, "idle", "open")
  /\ view' = [view EXCEPT ![w] = [OnDisk.store EXCEPT ![job[w]] = w]]
  /\ Overlaps(w)
  /\ UNCHANGED <<job, fd, main, tmp, content, rows, configvars>>

\* A store that does not parse is not written over.
RefuseCorrupt(w) ==
  /\ job[w] \in Keys
  /\ ~OnDisk.parses
  /\ Moves(w, "idle", "failed")
  /\ UNCHANGED <<job, view, fd, main, tmp, content, rows, started, met, configvars>>

\* "init" saves an empty store without looking.
BugInitAlways(w) ==
  /\ job[w] = "init"
  /\ Moves(w, "stat", "open")
  /\ Overlaps(w)
  /\ UNCHANGED <<job, view, fd, main, tmp, content, rows, configvars>>

\* Then its Stat of overrides.json; only a store that is missing is created ...
InitStat(w) ==
  /\ job[w] = "init"
  /\ Moves(w, "stat", IF main = None THEN "load" ELSE "done")
  /\ UNCHANGED <<job, view, fd, main, tmp, content, rows, started, met, configvars>>

\* ... from what Load finds, which may have appeared since.
InitLoad(w) ==
  /\ OnDisk.parses
  /\ Moves(w, "load", "open")
  /\ view' = [view EXCEPT ![w] = OnDisk.store]
  /\ Overlaps(w)
  /\ UNCHANGED <<job, fd, main, tmp, content, rows, configvars>>

InitLoadFails(w) ==
  /\ ~OnDisk.parses
  /\ Moves(w, "load", "failed")
  /\ UNCHANGED <<job, view, fd, main, tmp, content, rows, started, met, configvars>>

\* overrides.json is written in place.
BugInPlace(w) ==
  LET inode == IF main = None THEN w ELSE main IN
  /\ Moves(w, "open", "write")
  /\ main' = inode
  /\ fd' = [fd EXCEPT ![w] = inode]
  /\ content' = [content EXCEPT ![inode] = Nothing]
  /\ UNCHANGED <<job, view, tmp, rows, started, met, configvars>>

\* os.WriteFile opens the .tmp with O_CREATE|O_TRUNC ...
OpenTmp(w) ==
  LET inode == IF tmp = None THEN w ELSE tmp IN
  /\ Moves(w, "open", "write")
  /\ tmp' = inode
  /\ fd' = [fd EXCEPT ![w] = inode]
  /\ content' = [content EXCEPT ![inode] = Nothing]
  /\ UNCHANGED <<job, view, main, rows, started, met, configvars>>

\* ... and writes from the start of the file: over bytes of another writer it
\* leaves their tail if they were longer.
WriteTmp(w) ==
  /\ Moves(w, "write", "rename")
  /\ \/ content' = [content EXCEPT ![fd[w]] = Whole(view[w])]
     \/ /\ content[fd[w]] \notin {Nothing, Whole(view[w])}
        /\ content' = [content EXCEPT ![fd[w]] = Torn]
  /\ UNCHANGED <<job, view, fd, main, tmp, rows, started, met, configvars>>

\* The disk is full: the error ends the command, the .tmp stays.
WriteFails(w) ==
  /\ "diskfull" \in Disturbances
  /\ Moves(w, "write", "failed")
  /\ content' = [content EXCEPT ![fd[w]] = Torn]
  /\ UNCHANGED <<job, view, fd, main, tmp, rows, started, met, configvars>>

\* os.Rename moves whatever the .tmp path names now; if another writer's rename
\* has taken it, the command fails.
Rename(w) ==
  /\ \/ /\ tmp # None
        /\ Moves(w, "rename", IF job[w] = "init" THEN "done" ELSE "audit")
        /\ main' = tmp /\ tmp' = None
     \/ /\ tmp = None
        /\ Moves(w, "rename", "failed")
        /\ UNCHANGED <<main, tmp>>
  /\ UNCHANGED <<job, view, fd, content, rows, started, met, configvars>>

\* A row that could not be written is not reported.
BugSilentAudit(w) ==
  /\ rows' = rows \cup {w} \/ ("auditfails" \in Disturbances /\ UNCHANGED rows)
  /\ Moves(w, "audit", "done")
  /\ UNCHANGED <<job, view, fd, main, tmp, content, started, met, configvars>>

\* The override_added row, best effort.
AuditAdd(w) ==
  /\ \/ rows' = rows \cup {w} /\ Moves(w, "audit", "done")
     \/ "auditfails" \in Disturbances /\ Moves(w, "audit", "unlogged") /\ UNCHANGED rows
  /\ UNCHANGED <<job, view, fd, main, tmp, content, started, met, configvars>>

Crash(w) ==
  /\ "crash" \in Disturbances
  /\ Saving(w) \/ pc[w] \in {"audit", "create", "stat", "load"}
  /\ pc' = [pc EXCEPT ![w] = "crashed"]
  /\ UNCHANGED <<job, view, fd, main, tmp, content, rows, started, met, configvars>>

Next ==
  \E w \in Writers :
    \/ FindNoConfig(w) \/ FindConfig(w) \/ OpenConfig(w) \/ FillConfig(w) \/ LeaveTruncated(w)
    \/ LoadAndAdd(w) \/ RefuseCorrupt(w) \/ InitStat(w)
    \/ InitLoad(w) \/ InitLoadFails(w)
    \/ OpenTmp(w) \/ WriteTmp(w) \/ WriteFails(w) \/ Rename(w)
    \/ AuditAdd(w) \/ Crash(w)

Spec == Init /\ [][Next]_vars

-----------------------------------------------------------------------------
TypeOK ==
  /\ job \in [Writers -> Keys \cup {"init"}]
  /\ pc \in [Writers -> {"idle", "create", "fill", "stat", "load", "open", "write", "rename", "audit", "done",
                         "failed", "unlogged", "crashed", "lost"}]
  /\ view \in [Writers -> Stores]
  /\ fd \in [Writers -> Writers \cup {None}]
  /\ main \in Writers \cup {None} /\ tmp \in Writers \cup {None}
  /\ content \in [Writers -> {Torn, Nothing} \cup [parses : {TRUE}, store : Stores]]
  /\ rows \subseteq Writers /\ met \subseteq Writers
  /\ started \in Seq(Writers)
  /\ config \in {Missing, Truncated} \cup {Keyed(w) : w \in Writers} /\ clashed \cup filled \subseteq Writers

\* A crash at any step, a full disk or a .tmp left behind by either never harms
\* overrides.json: it can fail to parse, so that every check blocks, only after
\* two writers overlapped.
TornOnlyByOverlap == ~OnDisk.parses => met # {}

\* An add that met no other writer is not lost to what others do later, crash and
\* race as they may: while the store parses, its key has its override, or that of
\* a writer that loaded the store after it.
Position(w) == CHOOSE i \in DOMAIN started : started[i] = w

Holds(store, k, w) == store[k] # None /\ Position(store[k]) >= Position(w)

UndisturbedAddsStay ==
  \A w \in Writers \ met :
    job[w] \in Keys /\ pc[w] \in {"audit", "done", "unlogged"} =>
      ~OnDisk.parses \/ Holds(OnDisk.store, job[w], w)

\* An override that is in force although its command ended without the audit row
\* has an explanation: the process died, the log could not be written (and the
\* command said so), or writers overlapped.
UnloggedIsExplained ==
  \A k \in Keys :
    OnDisk.parses /\ OnDisk.store[k] # None =>
      LET w == OnDisk.store[k] IN
      w \in rows \/ pc[w] \in {"audit", "unlogged", "crashed"} \/ w \in met

\* The first init to create config.json settles the key of the cache for good ("re-running
\* it preserves an existing config"): what others do at any time does not take it away
\* unless they created it at the same time.  And config.json is in pieces, which every
\* check and later init trips over, only while an init fills it or after one was lost at
\* just that moment.
ConfigIsKept ==
  /\ \A w \in filled \ clashed : config = Keyed(w)
  /\ config = Truncated => \E w \in Writers : pc[w] \in {"fill", "lost"}
==============================================================================
