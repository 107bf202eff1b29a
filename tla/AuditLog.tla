------------------------------- MODULE AuditLog -------------------------------
(***************************************************************************)
(* Log.Append (internal/audit/audit.go) as the processes that call it see  *)
(* it: penrush check, penrush hook, penrush override add, each a process   *)
(* of its own, on one audit.jsonl.  Append takes no lock: it reads the     *)
(* tail, closes the file, builds the entry, and writes the line with one   *)
(* O_APPEND write.  Another process may append in between, a write may     *)
(* fail or stop part of the way, and a process may be killed.              *)
(*                                                                         *)
(* "log" holds the lines of the file, "ended" says whether its last byte   *)
(* is the newline of its last line.                                        *)
(***************************************************************************)
EXTENDS AuditFormat, FiniteSets

CONSTANTS
  Procs,     \* processes that call Append
  Overlap,   \* TRUE: several processes may be inside Append at once
  Faults,    \* what write(2) may do beside succeeding
  MaxLines   \* bound: no call starts once the file has that many lines

ASSUME OverlapAssumption  == Overlap \in BOOLEAN
ASSUME FaultsAssumption   == Faults \subseteq {"fail", "partial", "nonewline"}
ASSUME MaxLinesAssumption == MaxLines \in Nat

VARIABLES
  log,     \* the lines of audit.jsonl
  ended,   \* the file is empty or ends with a newline
  pc,      \* "idle", or "tailed": between tail() and the write
  base,    \* what tail() returned to the process
  data,    \* what the process is logging
  acked    \* history: the entries Append returned without an error

vars == <<log, ended, pc, base, data, acked>>

Init ==
  /\ log = <<>>
  /\ ended = TRUE
  /\ pc = [p \in Procs |-> "idle"]
  /\ base = [p \in Procs |-> LogTail(<<>>)]
  /\ data \in [Procs -> Data]
  /\ acked = {}

-----------------------------------------------------------------------------
\* A corrupt log is taken for an empty one.
BugCorruptIsEmpty(p, d) ==
  /\ pc[p] = "idle"
  /\ Overlap \/ \A q \in Procs : pc[q] = "idle"
  /\ Len(log) < MaxLines
  /\ pc'   = [pc EXCEPT ![p] = "tailed"]
  /\ base' = [base EXCEPT ![p] = LogTail(IF TailFails(log) THEN <<>> ELSE log)]
  /\ data' = [data EXCEPT ![p] = d]
  /\ UNCHANGED <<log, ended, acked>>

\* Append begins and tail() succeeds.
ReadTail(p, d) ==
  /\ pc[p] = "idle"
  /\ Overlap \/ \A q \in Procs : pc[q] = "idle"
  /\ Len(log) < MaxLines
  /\ ~TailFails(log)
  /\ pc'   = [pc EXCEPT ![p] = "tailed"]
  /\ base' = [base EXCEPT ![p] = LogTail(log)]
  /\ data' = [data EXCEPT ![p] = d]
  /\ UNCHANGED <<log, ended, acked>>

\* tail() fails and so does Append: no byte is written.
TailError(p) ==
  /\ pc[p] = "idle"
  /\ TailFails(log)
  /\ UNCHANGED vars

\* The file is opened without O_APPEND.
BugNoOAppend(line) ==
  log' = IF log = <<>> THEN <<line>> ELSE [log EXCEPT ![1] = line]

\* Bytes reach the end of the file: a line of their own after a newline, and
\* otherwise the rest of an unfinished line, which no longer parses.
AppendBytes(line) ==
  log' = IF ended THEN Append(log, line)
                  ELSE [log EXCEPT ![Len(log)] = CorruptLine]

\* The whole line and its newline are written.
Write(p) ==
  LET e == NewEntry(base[p], data[p]) IN
  /\ pc[p] = "tailed"
  /\ AppendBytes(e)
  /\ ended' = TRUE
  /\ acked' = acked \cup {e}
  /\ pc' = [pc EXCEPT ![p] = "idle"]
  /\ UNCHANGED <<base, data>>

\* OpenFile or Write fails, or the process is killed, before a byte is written.
WriteFails(p) ==
  /\ "fail" \in Faults
  /\ pc[p] = "tailed"
  /\ pc' = [pc EXCEPT ![p] = "idle"]
  /\ UNCHANGED <<log, ended, base, data, acked>>

\* The write stops inside the line.
WritePartial(p) ==
  /\ "partial" \in Faults
  /\ pc[p] = "tailed"
  /\ AppendBytes(CorruptLine)
  /\ ended' = FALSE
  /\ pc' = [pc EXCEPT ![p] = "idle"]
  /\ UNCHANGED <<base, data, acked>>

\* The write stops before the newline: the entry is there, the error is
\* returned all the same.
WriteNoNewline(p) ==
  /\ "nonewline" \in Faults
  /\ pc[p] = "tailed"
  /\ AppendBytes(NewEntry(base[p], data[p]))
  /\ ended' = FALSE
  /\ pc' = [pc EXCEPT ![p] = "idle"]
  /\ UNCHANGED <<base, data, acked>>

Next ==
  \E p \in Procs :
    \/ \E d \in Data : ReadTail(p, d)
    \/ TailError(p)
    \/ Write(p)
    \/ WriteFails(p)
    \/ WritePartial(p)
    \/ WriteNoNewline(p)

Spec == Init /\ [][Next]_vars

-----------------------------------------------------------------------------
Base == [seq : Nat, hash : Hash]

TypeOK ==
  /\ log \in Seq(Line)
  /\ ended \in BOOLEAN
  /\ pc \in [Procs -> {"idle", "tailed"}]
  /\ base \in [Procs -> Base]
  /\ data \in [Procs -> Data]
  /\ acked \in SUBSET Entry

\* However processes overlap and writes tear, what Verify can report of a log
\* that nobody edited is a sequence number out of place or a line that does not
\* parse: never "prev_hash", "entry_hash" or "raw_bytes", which therefore always
\* mean that something other than Append changed the file.
RacesLookLikeRaces ==
  \A i \in DOMAIN log :
    CleanUpTo(log, i - 1) => LineFault(log, i) \in {"none", "seq", "parse"}

\* O_APPEND keeps what Append acknowledged: forks of the chain overwrite nothing,
\* and only a torn write can take an acknowledged entry with it (the line it was
\* written behind does not parse, or a torn line glued itself to it).
AckedKept ==
  \A e \in acked : (\E i \in DOMAIN log : log[i] = e) \/ TailFails(log)

\* If calls do not overlap, the chain verifies up to the first corrupt line.
SerialChain ==
  ~Overlap => \A i \in DOMAIN log :
                (\A j \in 1..i : ~IsCorrupt(log[j])) => LineFault(log, i) = "none"

\* The trail that "penrush stats" and an auditor can still read: the entries
\* before the first corrupt line.
Readable == {n \in 0..Len(log) : \A i \in 1..n : ~IsCorrupt(log[i])}
ReadableTrail ==
  [i \in 1..(CHOOSE n \in Readable : \A m \in Readable : m <= n) |-> log[i].data]

Trail == INSTANCE AuditTrail WITH
  trail     <- ReadableTrail,
  pending   <- [p \in Procs |-> IF pc[p] = "tailed" THEN {data[p]} ELSE {}],
  confirmed <- Cardinality(acked)

\* Calls that do not overlap, on a disk where a line is never left without its
\* newline, keep the promise of AuditTrail: what was recorded stays readable and
\* nothing is acknowledged that is not.
KeepsTrail == Trail!TrailSpec

\* One torn line ends the log: once tail() fails and nobody is past it, no call
\* is acknowledged again and no byte is added (the gates fail closed for good).
Stuck == TailFails(log) /\ \A p \in Procs : pc[p] = "idle"

TornLineIsFinal == [][Stuck => Stuck' /\ log' = log /\ acked' = acked]_vars
==============================================================================
