----------------------------- MODULE AuditFormat -----------------------------
(***************************************************************************)
(* The content of ~/.penrush/audit.jsonl and the pure functions over it    *)
(* (internal/audit/audit.go): the hash chain, what tail() chains from and  *)
(* what Verify reports.                                                    *)
(*                                                                         *)
(* SHA-256 is symbolic and injective: the hash of an entry is the sequence *)
(* of the contents hashed into it, from the first entry to this one, and   *)
(* the genesis hash is the empty sequence.  A line is an entry, or it is   *)
(* "corrupt": bytes that json.Unmarshal refuses (a prefix of an entry, or  *)
(* two entries on one line).  Empty lines are skipped by every reader and  *)
(* are not represented here; AuditEdits adds them.                         *)
(***************************************************************************)
EXTENDS Integers, Sequences

CONSTANT Data   \* what callers log: decision, reason, command, ...

Content == [seq : Nat, data : Data]
Hash    == Seq(Content)

GenesisHash == <<>>

\* Variants named Bug... are this project's mistakes on purpose: each replaces the
\* definition after it in one run that shows a property to fail.
BugHashOmitsSeq(prevHash, seq, data) == Append(prevHash, [data |-> data])

EntryHash(prevHash, seq, data) == Append(prevHash, [seq |-> seq, data |-> data])

\* A parseable line.  "canonical" says whether the bytes on disk are the bytes
\* json.Marshal gives for the parsed entry.
Entry == [kind : {"entry"}, seq : Nat, data : Data,
          prev : Hash, hash : Hash, canonical : BOOLEAN]

CorruptLine == [kind |-> "corrupt"]

Line == Entry \cup {CorruptLine}

IsCorrupt(line) == line.kind = "corrupt"

\* The line Append builds after tail() returned base.
NewEntry(base, data) ==
  [kind |-> "entry", seq |-> base.seq + 1, data |-> data, prev |-> base.hash,
   hash |-> EntryHash(base.hash, base.seq + 1, data), canonical |-> TRUE]

-----------------------------------------------------------------------------
\* tail(): it parses the whole file, fails on any corrupt line, and returns
\* what the last entry says of itself without checking the chain.
TailFails(log) == \E i \in DOMAIN log : IsCorrupt(log[i])

BugTailReturnsPrev(log) ==
  IF log = <<>> THEN [seq |-> 0, hash |-> GenesisHash]
  ELSE [seq |-> log[Len(log)].seq, hash |-> log[Len(log)].prev]

LogTail(log) ==
  IF log = <<>> THEN [seq |-> 0, hash |-> GenesisHash]
  ELSE [seq |-> log[Len(log)].seq, hash |-> log[Len(log)].hash]

\* ReadAll(): every entry in order, or an error on a corrupt line.
ReadAllFails(log) == TailFails(log)

-----------------------------------------------------------------------------
(***************************************************************************)
(* Verify.  The loop stops at the first bad line; up to there expectSeq is *)
(* the line's index and prev the hash stored in the line before, so the    *)
(* verdict on line i depends on lines i-1 and i alone.                     *)
(***************************************************************************)
ExpectedPrev(log, i) == IF i = 1 THEN GenesisHash ELSE log[i-1].hash

BugNoHashCheck(log, i) ==
  LET e == log[i] IN
  IF IsCorrupt(e) THEN "parse"
  ELSE IF e.seq # i THEN "seq"
  ELSE IF e.prev # ExpectedPrev(log, i) THEN "prev_hash"
  ELSE IF ~e.canonical THEN "raw_bytes"
  ELSE "none"

LineFault(log, i) ==
  LET e == log[i] IN
  IF IsCorrupt(e) THEN "parse"
  ELSE IF e.seq # i THEN "seq"
  ELSE IF e.prev # ExpectedPrev(log, i) THEN "prev_hash"
  ELSE IF EntryHash(e.prev, e.seq, e.data) # e.hash THEN "entry_hash"
  ELSE IF ~e.canonical THEN "raw_bytes"
  ELSE "none"

CleanUpTo(log, n) == \A i \in 1..n : LineFault(log, i) = "none"

VerifyOK(log) == CleanUpTo(log, Len(log))

\* The fault Verify reports: that of the first line that has one.
BadField(log) ==
  IF VerifyOK(log) THEN "none"
  ELSE LineFault(log, CHOOSE i \in DOMAIN log :
                        /\ LineFault(log, i) # "none"
                        /\ CleanUpTo(log, i - 1))
==============================================================================
