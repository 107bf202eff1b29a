---------------------------- MODULE AuditLogProofs ----------------------------
(***************************************************************************)
(* Proofs about AuditLog, for any set of processes, any payloads and any   *)
(* of the write faults.                                                    *)
(***************************************************************************)
EXTENDS AuditLog, FiniteSetTheorems, TLAPS

\* The line a process past tail() would write is an entry.
LEMMA NewEntryType ==
  ASSUME NEW b \in Base, NEW d \in Data
  PROVE  /\ NewEntry(b, d) \in Entry
         /\ ~IsCorrupt(NewEntry(b, d))
         /\ NewEntry(b, d).seq = b.seq + 1
         /\ NewEntry(b, d).prev = b.hash
         /\ NewEntry(b, d).hash = EntryHash(b.hash, NewEntry(b, d).seq, NewEntry(b, d).data)
         /\ NewEntry(b, d).canonical
<1>1. b.seq + 1 \in Nat /\ b.hash \in Seq(Content)
  BY DEF Base, Hash
<1>2. [seq |-> b.seq + 1, data |-> d] \in Content
  BY <1>1 DEF Content
<1>3. EntryHash(b.hash, b.seq + 1, d) \in Hash
  BY <1>1, <1>2 DEF EntryHash, Hash
<1> QED
  BY <1>1, <1>3 DEF NewEntry, Entry, IsCorrupt, Hash

\* What tail() returns of a log it accepts.
LEMMA LogTailType ==
  ASSUME NEW L \in Seq(Line), ~TailFails(L)
  PROVE  LogTail(L) \in Base
<1>1. CASE L = <<>>
  BY <1>1 DEF LogTail, Base, Hash, GenesisHash
<1>2. CASE L # <<>>
  <2>1. Len(L) \in DOMAIN L
    BY <1>2
  <2>2. L[Len(L)] \in Entry
    BY <2>1 DEF TailFails, IsCorrupt, Line, CorruptLine
  <2> QED
    BY <1>2, <2>2 DEF LogTail, Base, Entry
<1> QED
  BY <1>1, <1>2

\* The file after a write: the lines before the last are untouched, and either
\* one line was added or the unfinished last line became corrupt.
LEMMA AppendBytesFacts ==
  ASSUME TypeOK, ended \/ log # <<>>, NEW line \in Line, AppendBytes(line)
  PROVE  /\ log' \in Seq(Line)
         /\ \/ /\ Len(log') = Len(log) + 1
               /\ log'[Len(log) + 1] = line
               /\ \A i \in DOMAIN log : log'[i] = log[i]
            \/ /\ log # <<>>
               /\ Len(log') = Len(log)
               /\ log'[Len(log)] = CorruptLine
               /\ \A i \in DOMAIN log : i # Len(log) => log'[i] = log[i]
<1>1. CASE ended
  BY <1>1 DEF AppendBytes, TypeOK
<1>2. CASE ~ended
  <2>1. log' = [log EXCEPT ![Len(log)] = CorruptLine]
    BY <1>2 DEF AppendBytes
  <2>2. CorruptLine \in Line
    BY DEF Line
  <2> QED
    BY <1>2, <2>1, <2>2 DEF TypeOK
<1> QED
  BY <1>1, <1>2

-----------------------------------------------------------------------------
(***************************************************************************)
(* Type correctness, with the fact that an unfinished line is a line.      *)
(***************************************************************************)
TypeInv == TypeOK /\ (ended \/ log # <<>>)

LEMMA InitType == Init => TypeInv
<1> SUFFICES ASSUME Init PROVE TypeInv
  OBVIOUS
<1>1. LogTail(<<>>) \in Base
  BY DEF LogTail, Base, Hash, GenesisHash
<1> QED
  BY <1>1 DEF Init, TypeInv, TypeOK

LEMMA NextType == TypeInv /\ [Next]_vars => TypeInv'
<1> SUFFICES ASSUME TypeInv, [Next]_vars PROVE TypeInv'
  OBVIOUS
<1> USE DEF TypeInv
<1>0. CorruptLine \in Line
  BY DEF Line
<1>1. ASSUME NEW p \in Procs, NEW d \in Data, ReadTail(p, d) PROVE TypeInv'
  <2>1. LogTail(log) \in Base
    BY <1>1, LogTailType DEF ReadTail, TypeOK
  <2> QED
    BY <1>1, <2>1 DEF ReadTail, TypeOK
<1>2. ASSUME NEW p \in Procs, TailError(p) PROVE TypeInv'
  BY <1>2 DEF TailError, vars, TypeOK
<1>3. ASSUME NEW p \in Procs, Write(p) PROVE TypeInv'
  <2>1. NewEntry(base[p], data[p]) \in Entry
    BY NewEntryType DEF TypeOK
  <2>2. NewEntry(base[p], data[p]) \in Line
    BY <2>1 DEF Line
  <2>3. log' \in Seq(Line)
    BY <1>3, <2>2, AppendBytesFacts DEF Write
  <2> QED
    BY <1>3, <2>1, <2>3 DEF Write, TypeOK
<1>4. ASSUME NEW p \in Procs, WriteFails(p) PROVE TypeInv'
  BY <1>4 DEF WriteFails, TypeOK
<1>5. ASSUME NEW p \in Procs, WritePartial(p) PROVE TypeInv'
  <2>1. log' \in Seq(Line) /\ log' # <<>>
    BY <1>5, <1>0, AppendBytesFacts DEF WritePartial, TypeOK
  <2> QED
    BY <1>5, <2>1 DEF WritePartial, TypeOK
<1>6. ASSUME NEW p \in Procs, WriteNoNewline(p) PROVE TypeInv'
  <2>1. NewEntry(base[p], data[p]) \in Line
    BY NewEntryType DEF TypeOK, Line
  <2>2. log' \in Seq(Line) /\ log' # <<>>
    BY <1>6, <2>1, AppendBytesFacts DEF WriteNoNewline, TypeOK
  <2> QED
    BY <1>6, <2>2 DEF WriteNoNewline, TypeOK
<1>7. CASE UNCHANGED vars
  BY <1>7 DEF vars, TypeOK
<1> QED
  BY <1>1, <1>2, <1>3, <1>4, <1>5, <1>6, <1>7 DEF Next

\* The log holds lines, each process holds a tail it really read or the genesis
\* values, and only entries are acknowledged, whatever overlaps and fails.
THEOREM TypeCorrect == Spec => []TypeOK
<1>1. TypeInv => TypeOK
  BY DEF TypeInv
<1> QED
  BY InitType, NextType, <1>1, PTL DEF Spec

-----------------------------------------------------------------------------
(***************************************************************************)
(* Races look like races.  The invariant: an entry carries its own hash;   *)
(* while the sequence numbers run 1, 2, ... without a gap and nothing is   *)
(* corrupt ("InOrder"), every entry is chained to the one before it, and a *)
(* process past tail() that would write the next number holds the hash of  *)
(* the last line.  A process that lost a race holds a smaller number, so   *)
(* its line breaks InOrder for good.                                       *)
(***************************************************************************)
InOrder(L, n) == \A i \in 1..n : ~IsCorrupt(L[i]) /\ L[i].seq = i

SelfHashed ==
  \A i \in DOMAIN log : ~IsCorrupt(log[i]) =>
    /\ log[i].hash = EntryHash(log[i].prev, log[i].seq, log[i].data)
    /\ log[i].canonical

Linked ==
  \A i \in DOMAIN log : InOrder(log, i) => log[i].prev = ExpectedPrev(log, i)

TailOrStale ==
  \A p \in Procs : pc[p] = "tailed" /\ InOrder(log, Len(log)) =>
    /\ base[p].seq <= Len(log)
    /\ base[p].seq = Len(log) => base[p].hash = ExpectedPrev(log, Len(log) + 1)

RaceInv == TypeInv /\ SelfHashed /\ Linked /\ TailOrStale

\* Any line a writer adds keeps RaceInv if it is corrupt or is the entry the
\* writer prepared.
LEMMA WriteKeepsRaceInv ==
  ASSUME RaceInv, TypeInv', NEW p \in Procs, pc[p] = "tailed",
         NEW line \in {CorruptLine, NewEntry(base[p], data[p])},
         AppendBytes(line),
         pc' = [pc EXCEPT ![p] = "idle"], UNCHANGED base
  PROVE  RaceInv'
<1>0. NewEntry(base[p], data[p]) \in Entry /\ CorruptLine \in Line /\ line \in Line
  BY NewEntryType DEF RaceInv, TypeInv, TypeOK, Line
<1>c. IsCorrupt(CorruptLine)
  BY DEF IsCorrupt, CorruptLine
<1>t. /\ TypeOK /\ (ended \/ log # <<>>)
      /\ log \in Seq(Line) /\ log' \in Seq(Line) /\ base[p] \in Base /\ data[p] \in Data
  BY DEF RaceInv, TypeInv, TypeOK
<1>1. CASE /\ Len(log') = Len(log) + 1
           /\ log'[Len(log) + 1] = line
           /\ \A i \in DOMAIN log : log'[i] = log[i]
  <2>1. SelfHashed'
    <3> SUFFICES ASSUME NEW i \in DOMAIN log', ~IsCorrupt(log'[i])
                 PROVE  /\ log'[i].hash = EntryHash(log'[i].prev, log'[i].seq, log'[i].data)
                        /\ log'[i].canonical
      BY DEF SelfHashed
    <3>1. CASE i \in DOMAIN log
      BY <1>1, <3>1 DEF RaceInv, SelfHashed
    <3>2. CASE i = Len(log) + 1
      BY <1>1, <1>t, <1>c, <3>2, NewEntryType
    <3> QED
      BY <1>1, <1>t, <3>1, <3>2
  <2>2. ASSUME InOrder(log', Len(log) + 1)
        PROVE  /\ InOrder(log, Len(log))
               /\ line = NewEntry(base[p], data[p])
               /\ line.prev = ExpectedPrev(log, Len(log) + 1)
    <3>1. InOrder(log, Len(log))
      BY <1>1, <1>t, <2>2 DEF InOrder
    <3>2. ~IsCorrupt(line) /\ line.seq = Len(log) + 1
      BY <1>1, <1>t, <2>2 DEF InOrder
    <3>3. line = NewEntry(base[p], data[p])
      BY <3>2, <1>c
    <3>4. base[p].seq = Len(log)
      BY <3>2, <3>3, <1>t, NewEntryType DEF Base
    <3> QED
      BY <3>1, <3>3, <3>4, <1>t, NewEntryType DEF RaceInv, TailOrStale
  <2>3. ASSUME NEW i \in DOMAIN log, InOrder(log', i) PROVE log'[i].prev = ExpectedPrev(log', i)
    <3>1. InOrder(log, i)
      BY <1>1, <1>t, <2>3 DEF InOrder
    <3>2. ExpectedPrev(log', i) = ExpectedPrev(log, i)
      BY <1>1, <1>t DEF ExpectedPrev
    <3> QED
      BY <1>1, <3>1, <3>2 DEF RaceInv, Linked
  <2>4. Linked'
    <3> SUFFICES ASSUME NEW i \in DOMAIN log', InOrder(log', i)
                 PROVE  log'[i].prev = ExpectedPrev(log', i)
      BY DEF Linked
    <3>1. CASE i \in DOMAIN log
      BY <2>3, <3>1
    <3>2. CASE i = Len(log) + 1
      <4>1. log'[i].prev = ExpectedPrev(log, Len(log) + 1)
        BY <2>2, <3>2, <1>1
      <4>2. ExpectedPrev(log', i) = ExpectedPrev(log, Len(log) + 1)
        BY <1>1, <1>t, <3>2 DEF ExpectedPrev
      <4> QED
        BY <4>1, <4>2
    <3> QED
      BY <1>1, <1>t, <3>1, <3>2
  <2>5. TailOrStale'
    <3> SUFFICES ASSUME NEW q \in Procs, pc'[q] = "tailed", InOrder(log', Len(log'))
                 PROVE  base'[q].seq < Len(log')
      BY <1>t DEF TailOrStale, RaceInv, TypeInv, TypeOK, Base
    <3>1. q # p /\ pc[q] = "tailed"
      BY <1>t DEF TypeOK
    <3>2. InOrder(log, Len(log))
      BY <1>1, <2>2
    <3>3. base[q].seq <= Len(log)
      BY <3>1, <3>2 DEF RaceInv, TailOrStale
    <3> QED
      BY <3>3, <1>1, <1>t DEF TypeOK, Base
  <2> QED
    BY <2>1, <2>4, <2>5 DEF RaceInv
<1>2. CASE /\ log # <<>>
           /\ Len(log') = Len(log)
           /\ log'[Len(log)] = CorruptLine
           /\ \A i \in DOMAIN log : i # Len(log) => log'[i] = log[i]
  <2>1. ~InOrder(log', Len(log))
    BY <1>2, <1>c, <1>t DEF InOrder
  <2>2. SelfHashed'
    BY <1>2, <1>c, <1>t DEF RaceInv, SelfHashed
  <2>3. Linked'
    <3> SUFFICES ASSUME NEW i \in DOMAIN log', InOrder(log', i)
                 PROVE  log'[i].prev = ExpectedPrev(log', i)
      BY DEF Linked
    <3>1. i # Len(log) /\ i \in DOMAIN log
      BY <1>2, <1>t, <2>1
    <3>2. InOrder(log, i)
      BY <1>2, <1>t, <3>1 DEF InOrder
    <3>3. ExpectedPrev(log', i) = ExpectedPrev(log, i)
      BY <1>2, <1>t, <3>1 DEF ExpectedPrev
    <3> QED
      BY <1>2, <3>1, <3>2, <3>3 DEF RaceInv, Linked
  <2>4. TailOrStale'
    BY <1>2, <2>1 DEF TailOrStale
  <2> QED
    BY <2>2, <2>3, <2>4 DEF RaceInv
<1> QED
  BY <1>0, <1>1, <1>2, <1>t, AppendBytesFacts

LEMMA InitRaceInv == Init => RaceInv
<1> SUFFICES ASSUME Init PROVE RaceInv
  OBVIOUS
<1>1. log = <<>> /\ \A p \in Procs : pc[p] = "idle"
  BY DEF Init
<1> QED
  BY <1>1, InitType DEF RaceInv, SelfHashed, Linked, TailOrStale

LEMMA NextRaceInv == RaceInv /\ [Next]_vars => RaceInv'
<1> SUFFICES ASSUME RaceInv, [Next]_vars PROVE RaceInv'
  OBVIOUS
<1>0. TypeInv /\ TypeInv'
  BY NextType DEF RaceInv
<1>1. ASSUME NEW p \in Procs, NEW d \in Data, ReadTail(p, d) PROVE RaceInv'
  <2>1. log' = log
    BY <1>1 DEF ReadTail
  <2>2. ASSUME NEW q \in Procs, pc'[q] = "tailed", InOrder(log, Len(log))
        PROVE  /\ base'[q].seq <= Len(log)
               /\ base'[q].seq = Len(log) => base'[q].hash = ExpectedPrev(log, Len(log) + 1)
    <3>1. CASE q = p
      <4>1. base'[q] = LogTail(log)
        BY <1>0, <1>1, <3>1 DEF ReadTail, TypeInv, TypeOK
      <4>2. CASE log = <<>>
        BY <4>1, <4>2 DEF LogTail, ExpectedPrev
      <4>3. CASE log # <<>>
        <5>1. Len(log) \in 1..Len(log) /\ Len(log) \in Nat
          BY <4>3, <1>0 DEF TypeInv, TypeOK
        <5>2. log[Len(log)].seq = Len(log)
          BY <2>2, <5>1 DEF InOrder
        <5>3. ExpectedPrev(log, Len(log) + 1) = log[Len(log)].hash
          BY <5>1 DEF ExpectedPrev
        <5> QED
          BY <4>1, <4>3, <5>1, <5>2, <5>3 DEF LogTail
      <4> QED
        BY <4>2, <4>3
    <3>2. CASE q # p
      BY <1>0, <1>1, <2>2, <3>2 DEF ReadTail, TypeInv, TypeOK, RaceInv, TailOrStale
    <3> QED
      BY <3>1, <3>2
  <2>3. TailOrStale'
    BY <2>1, <2>2 DEF TailOrStale
  <2> QED
    BY <1>0, <2>1, <2>3 DEF RaceInv, SelfHashed, Linked
<1>2. ASSUME NEW p \in Procs, TailError(p) PROVE RaceInv'
  BY <1>0, <1>2 DEF TailError, vars, RaceInv, SelfHashed, Linked, TailOrStale
<1>3. ASSUME NEW p \in Procs, Write(p) PROVE RaceInv'
  BY <1>0, <1>3, WriteKeepsRaceInv DEF Write
<1>4. ASSUME NEW p \in Procs, WriteFails(p) PROVE RaceInv'
  BY <1>0, <1>4 DEF WriteFails, RaceInv, SelfHashed, Linked, TailOrStale, TypeInv, TypeOK
<1>5. ASSUME NEW p \in Procs, WritePartial(p) PROVE RaceInv'
  BY <1>0, <1>5, WriteKeepsRaceInv DEF WritePartial
<1>6. ASSUME NEW p \in Procs, WriteNoNewline(p) PROVE RaceInv'
  BY <1>0, <1>6, WriteKeepsRaceInv DEF WriteNoNewline
<1>7. CASE UNCHANGED vars
  BY <1>0, <1>7 DEF vars, RaceInv, SelfHashed, Linked, TailOrStale
<1> QED
  BY <1>1, <1>2, <1>3, <1>4, <1>5, <1>6, <1>7 DEF Next

LEMMA RaceInvGivesVerdict == RaceInv => RacesLookLikeRaces
<1> SUFFICES ASSUME RaceInv, NEW i \in DOMAIN log, CleanUpTo(log, i - 1)
             PROVE  LineFault(log, i) \in {"none", "seq", "parse"}
  BY DEF RacesLookLikeRaces
<1>t. log \in Seq(Line) /\ i \in 1..Len(log) /\ Len(log) \in Nat
  BY DEF RaceInv, TypeInv, TypeOK
<1>1. InOrder(log, i - 1)
  BY <1>t DEF CleanUpTo, LineFault, InOrder
<1>2. CASE IsCorrupt(log[i]) \/ log[i].seq # i
  BY <1>2 DEF LineFault
<1>3. CASE ~IsCorrupt(log[i]) /\ log[i].seq = i
  <2>1. InOrder(log, i)
    BY <1>t, <1>1, <1>3 DEF InOrder
  <2>2. log[i].prev = ExpectedPrev(log, i)
    BY <2>1 DEF RaceInv, Linked
  <2> QED
    BY <1>3, <2>2 DEF RaceInv, SelfHashed, LineFault
<1> QED
  BY <1>2, <1>3

\* For any number of processes appending at once and any write faults, a log that
\* only Append touched never fails Verify on a hash or on its raw bytes: those
\* verdicts mean an edit, and only "seq" and "parse" can be the mark of a race.
THEOREM RacesAreRecognisable == Spec => []RacesLookLikeRaces
BY InitRaceInv, NextRaceInv, RaceInvGivesVerdict, PTL DEF Spec

-----------------------------------------------------------------------------
(***************************************************************************)
(* What Append acknowledged stays.  TypeInv and AckedKept are inductive    *)
(* together: a line is added after the others, or it damages the last line *)
(* and the file no longer parses; a corrupt line never goes away.          *)
(***************************************************************************)
LEMMA WriteKeepsLines ==
  ASSUME TypeInv, NEW line \in Line, AppendBytes(line)
  PROVE  /\ TailFails(log) => TailFails(log')
         /\ \A e \in Entry : (\E i \in DOMAIN log : log[i] = e)
                            => (\E i \in DOMAIN log' : log'[i] = e) \/ TailFails(log')
         /\ (\E i \in DOMAIN log' : log'[i] = line) \/ TailFails(log')
<1>t. log \in Seq(Line) /\ log' \in Seq(Line)
  BY AppendBytesFacts DEF TypeInv, TypeOK
<1>c. IsCorrupt(CorruptLine)
  BY DEF IsCorrupt, CorruptLine
<1>1. CASE /\ Len(log') = Len(log) + 1
           /\ log'[Len(log) + 1] = line
           /\ \A i \in DOMAIN log : log'[i] = log[i]
  <2>1. DOMAIN log \subseteq DOMAIN log' /\ Len(log) + 1 \in DOMAIN log'
    BY <1>1, <1>t
  <2> QED
    BY <1>1, <2>1 DEF TailFails
<1>2. CASE /\ log # <<>>
           /\ Len(log') = Len(log)
           /\ log'[Len(log)] = CorruptLine
           /\ \A i \in DOMAIN log : i # Len(log) => log'[i] = log[i]
  <2>1. Len(log) \in DOMAIN log'
    BY <1>2, <1>t
  <2> QED
    BY <1>2, <1>c, <2>1 DEF TailFails
<1> QED
  BY <1>1, <1>2, AppendBytesFacts DEF TypeInv

LEMMA NextAckedKept == TypeInv /\ AckedKept /\ [Next]_vars => AckedKept'
<1> SUFFICES ASSUME TypeInv, AckedKept, [Next]_vars PROVE AckedKept'
  OBVIOUS
<1>0. TypeOK /\ CorruptLine \in Line
  BY DEF TypeInv, Line
<1>1. ASSUME NEW p \in Procs, NEW line \in Line, AppendBytes(line),
             acked' \subseteq acked \cup {line}
      PROVE  AckedKept'
  BY <1>0, <1>1, WriteKeepsLines DEF AckedKept, TypeOK
<1>2. ASSUME NEW p \in Procs, Write(p) PROVE AckedKept'
  <2>1. NewEntry(base[p], data[p]) \in Line
    BY <1>0, NewEntryType DEF TypeOK, Line
  <2> QED
    BY <1>1, <1>2, <2>1 DEF Write
<1>3. ASSUME NEW p \in Procs, WritePartial(p) PROVE AckedKept'
  BY <1>0, <1>1, <1>3 DEF WritePartial
<1>4. ASSUME NEW p \in Procs, WriteNoNewline(p) PROVE AckedKept'
  <2>1. NewEntry(base[p], data[p]) \in Line
    BY <1>0, NewEntryType DEF TypeOK, Line
  <2> QED
    BY <1>1, <1>4, <2>1 DEF WriteNoNewline
<1>5. ASSUME log' = log, acked' = acked PROVE AckedKept'
  BY <1>5 DEF AckedKept, TailFails
<1> QED
  BY <1>2, <1>3, <1>4, <1>5 DEF Next, ReadTail, TailError, WriteFails, vars

\* An acknowledged entry is never lost to another writer: as long as every line
\* parses, each entry Append returned without an error is in the file, however
\* many processes append at once.
THEOREM AcknowledgedStays == Spec => []AckedKept
<1>1. Init => AckedKept
  BY DEF Init, AckedKept
<1> QED
  BY <1>1, InitType, NextType, NextAckedKept, PTL DEF Spec

-----------------------------------------------------------------------------
(***************************************************************************)
(* Calls that do not overlap.  The invariant adds what a process past      *)
(* tail() may rely on: it is the only one, and what it read is still the   *)
(* tail of a file that parses.                                             *)
(***************************************************************************)
TailIsCurrent ==
  \A p \in Procs : pc[p] = "tailed" =>
    /\ ~TailFails(log)
    /\ base[p] = LogTail(log)
    /\ \A q \in Procs : q # p => pc[q] = "idle"

SerialInv == TypeInv /\ SerialChain /\ (~Overlap => TailIsCurrent)

LEMMA WriteKeepsSerialInv ==
  ASSUME SerialInv, TypeInv', ~Overlap, NEW p \in Procs, pc[p] = "tailed",
         NEW line \in {CorruptLine, NewEntry(base[p], data[p])},
         AppendBytes(line),
         pc' = [pc EXCEPT ![p] = "idle"]
  PROVE  SerialInv'
<1>0. /\ TypeOK /\ (ended \/ log # <<>>) /\ log \in Seq(Line) /\ log' \in Seq(Line)
      /\ base[p] \in Base /\ data[p] \in Data
  BY DEF SerialInv, TypeInv, TypeOK
<1>1. line \in Line /\ IsCorrupt(CorruptLine)
  BY <1>0, NewEntryType DEF Line, IsCorrupt, CorruptLine
<1>2. \A q \in Procs : pc'[q] = "idle"
  BY <1>0 DEF SerialInv, TailIsCurrent, TypeOK
<1>3. ~TailFails(log) /\ base[p] = LogTail(log)
  BY DEF SerialInv, TailIsCurrent
<1>4. ASSUME NEW i \in DOMAIN log', \A j \in 1..i : ~IsCorrupt(log'[j])
      PROVE  LineFault(log', i) = "none"
  <2>1. CASE /\ Len(log') = Len(log) + 1
             /\ log'[Len(log) + 1] = line
             /\ \A k \in DOMAIN log : log'[k] = log[k]
    <3>1. CASE i \in DOMAIN log
      <4>1. LineFault(log, i) = "none"
        BY <1>0, <1>4, <2>1, <3>1 DEF SerialInv, SerialChain
      <4>2. LineFault(log', i) = LineFault(log, i)
        BY <1>0, <2>1, <3>1 DEF LineFault, ExpectedPrev
      <4> QED
        BY <4>1, <4>2
    <3>2. CASE i = Len(log) + 1
      <4>1. line = NewEntry(base[p], data[p])
        BY <1>1, <1>4, <2>1, <3>2, <1>0
      <4>2. base[p].seq = Len(log) /\ base[p].hash = ExpectedPrev(log', i)
        <5>1. CASE log = <<>>
          BY <1>3, <3>2, <5>1 DEF LogTail, ExpectedPrev
        <5>2. CASE log # <<>>
          <6>1. Len(log) \in DOMAIN log /\ Len(log) + 1 # 1
            BY <1>0, <5>2
          <6>2. LineFault(log, Len(log)) = "none"
            BY <1>0, <1>3, <6>1 DEF SerialInv, SerialChain, TailFails
          <6>3. log[Len(log)].seq = Len(log)
            BY <6>2 DEF LineFault
          <6>4. log'[i - 1] = log[Len(log)]
            BY <1>0, <2>1, <3>2, <6>1
          <6> QED
            BY <1>3, <3>2, <5>2, <6>1, <6>3, <6>4 DEF LogTail, ExpectedPrev
        <5> QED
          BY <5>1, <5>2
      <4> QED
        BY <1>0, <2>1, <3>2, <4>1, <4>2, NewEntryType DEF LineFault
    <3> QED
      BY <1>0, <2>1, <3>1, <3>2
  <2>2. CASE /\ log # <<>>
             /\ Len(log') = Len(log)
             /\ log'[Len(log)] = CorruptLine
             /\ \A k \in DOMAIN log : k # Len(log) => log'[k] = log[k]
    <3>1. i < Len(log)
      BY <1>0, <1>1, <1>4, <2>2
    <3>2. LineFault(log, i) = "none"
      BY <1>0, <1>4, <2>2, <3>1 DEF SerialInv, SerialChain
    <3>3. LineFault(log', i) = LineFault(log, i)
      BY <1>0, <2>2, <3>1 DEF LineFault, ExpectedPrev
    <3> QED
      BY <3>2, <3>3
  <2> QED
    BY <1>0, <1>1, <2>1, <2>2, AppendBytesFacts
<1> QED
  BY <1>2, <1>4 DEF SerialInv, SerialChain, TailIsCurrent

LEMMA NextSerialInv == SerialInv /\ [Next]_vars => SerialInv'
<1> SUFFICES ASSUME SerialInv, [Next]_vars PROVE SerialInv'
  OBVIOUS
<1>0. TypeInv /\ TypeInv'
  BY NextType DEF SerialInv
<1>1. CASE Overlap
  BY <1>0, <1>1 DEF SerialInv, SerialChain
<1>2. CASE ~Overlap
  <2>1. ASSUME NEW p \in Procs, NEW d \in Data, ReadTail(p, d) PROVE SerialInv'
    BY <1>0, <1>2, <2>1 DEF ReadTail, TypeInv, TypeOK, SerialInv, SerialChain, TailIsCurrent
  <2>2. ASSUME NEW p \in Procs, TailError(p) PROVE SerialInv'
    BY <1>0, <2>2 DEF TailError, vars, SerialInv, SerialChain, TailIsCurrent
  <2>3. ASSUME NEW p \in Procs, Write(p) PROVE SerialInv'
    BY <1>0, <1>2, <2>3, WriteKeepsSerialInv DEF Write
  <2>4. ASSUME NEW p \in Procs, WriteFails(p) PROVE SerialInv'
    BY <1>0, <2>4 DEF WriteFails, TypeInv, TypeOK, SerialInv, SerialChain, TailIsCurrent
  <2>5. ASSUME NEW p \in Procs, WritePartial(p) PROVE SerialInv'
    BY <1>0, <1>2, <2>5, WriteKeepsSerialInv DEF WritePartial
  <2>6. ASSUME NEW p \in Procs, WriteNoNewline(p) PROVE SerialInv'
    BY <1>0, <1>2, <2>6, WriteKeepsSerialInv DEF WriteNoNewline
  <2>7. CASE UNCHANGED vars
    BY <1>0, <2>7 DEF vars, SerialInv, SerialChain, TailIsCurrent
  <2> QED
    BY <2>1, <2>2, <2>3, <2>4, <2>5, <2>6, <2>7 DEF Next
<1> QED
  BY <1>1, <1>2

\* One call at a time, whatever is killed and whatever write fails: Verify passes
\* every entry before the first line that does not parse.
THEOREM SerialLogVerifies == Spec => []SerialChain
<1>1. Init => SerialInv
  BY InitType DEF Init, SerialInv, SerialChain, TailIsCurrent
<1>2. SerialInv => SerialChain
  BY DEF SerialInv
<1> QED
  BY <1>1, <1>2, NextSerialInv, PTL DEF Spec

-----------------------------------------------------------------------------
\* A file that does not parse lets nobody past tail(): if everyone is idle, all
\* that is left to do is to fail.
LEMMA StuckStep ==
  ASSUME TypeInv, [Next]_vars, Stuck
  PROVE  UNCHANGED vars
<1>1. ASSUME NEW p \in Procs PROVE pc[p] # "tailed"
  BY DEF Stuck
<1> QED
  BY <1>1 DEF Stuck, Next, ReadTail, TailError, Write, WriteFails, WritePartial,
              WriteNoNewline

\* Once a torn line is in the file and no process is past tail(), no step of any
\* process changes the file or acknowledges anything: the gates fail closed until
\* someone repairs the file by hand.
THEOREM TornLineStops == Spec => TornLineIsFinal
<1>1. TypeInv /\ [Next]_vars => [Stuck => Stuck' /\ log' = log /\ acked' = acked]_vars
  <2> SUFFICES ASSUME TypeInv, [Next]_vars, Stuck
               PROVE  Stuck' /\ log' = log /\ acked' = acked
    OBVIOUS
  <2>1. UNCHANGED vars
    BY StuckStep
  <2> QED
    BY <2>1 DEF vars, Stuck, TailFails
<1> QED
  BY <1>1, InitType, NextType, PTL DEF Spec, TornLineIsFinal

-----------------------------------------------------------------------------
(***************************************************************************)
(* The refinement of AuditTrail, for calls that do not overlap on a disk   *)
(* that keeps a line and its newline together.  On top of SerialInv: only  *)
(* the last line can be corrupt, an unfinished line is a corrupt one, and  *)
(* finitely many entries are acknowledged, each of them in the file while  *)
(* it parses.  So the readable trail is the whole file or all but its last *)
(* line, and the line a process writes is not yet among the acknowledged.  *)
(***************************************************************************)
OnlyLastIsCorrupt(L) == \A i \in DOMAIN L : IsCorrupt(L[i]) => i = Len(L)

TrailInv ==
  /\ SerialInv
  /\ AckedKept
  /\ OnlyLastIsCorrupt(log)
  /\ ~ended => TailFails(log)
  /\ IsFiniteSet(acked)

ReadableOf(L) == {n \in 0..Len(L) : \A i \in 1..n : ~IsCorrupt(L[i])}

ReadableEnd(L) == IF TailFails(L) THEN Len(L) - 1 ELSE Len(L)

DataUpTo(L, n) == [i \in 1..n |-> L[i].data]

\* Where the readable part of a file ends when only its last line can be corrupt.
LEMMA ReadableEndIsMax ==
  ASSUME NEW L \in Seq(Line), OnlyLastIsCorrupt(L)
  PROVE  /\ ReadableEnd(L) \in Nat
         /\ (CHOOSE n \in ReadableOf(L) : \A m \in ReadableOf(L) : m <= n) = ReadableEnd(L)
<1> DEFINE top == ReadableEnd(L)
<1>1. top \in ReadableOf(L) /\ \A m \in ReadableOf(L) : m <= top
  <2>1. CASE TailFails(L)
    <3>1. Len(L) \in DOMAIN L /\ IsCorrupt(L[Len(L)])
      BY <2>1 DEF TailFails, OnlyLastIsCorrupt
    <3>2. \A i \in 1..(Len(L) - 1) : ~IsCorrupt(L[i])
      BY DEF OnlyLastIsCorrupt
    <3>3. Len(L) \notin ReadableOf(L)
      BY <3>1 DEF ReadableOf
    <3> QED
      BY <2>1, <3>1, <3>2, <3>3 DEF ReadableOf, ReadableEnd
  <2>2. CASE ~TailFails(L)
    BY <2>2 DEF ReadableOf, ReadableEnd, TailFails
  <2> QED
    BY <2>1, <2>2
<1>2. \A n \in ReadableOf(L) : (\A m \in ReadableOf(L) : m <= n) => n = top
  <2> SUFFICES ASSUME NEW n \in ReadableOf(L), \A m \in ReadableOf(L) : m <= n
               PROVE  n = top
    OBVIOUS
  <2>1. top <= n /\ n <= top
    BY <1>1
  <2>2. n \in Nat /\ top \in Nat
    BY <1>1 DEF ReadableOf
  <2> QED
    BY <2>1, <2>2
<1>3. top \in Nat
  BY <1>1 DEF ReadableOf
<1> QED
  BY <1>1, <1>2, <1>3

\* The trail that AuditLog maps to AuditTrail.
LEMMA ReadableTrailIs ==
  ASSUME log \in Seq(Line), OnlyLastIsCorrupt(log)
  PROVE  ReadableTrail = DataUpTo(log, ReadableEnd(log))
<1>1. ReadableTrail
        = DataUpTo(log, CHOOSE n \in ReadableOf(log) : \A m \in ReadableOf(log) : m <= n)
  BY DEF ReadableTrail, Readable, ReadableOf, DataUpTo
<1> QED
  BY <1>1, ReadableEndIsMax

\* A line written to a file that parses, in order: the file's readable part grows
\* by an entry, and stays what it was under a torn line.
LEMMA ReadableAppend ==
  ASSUME NEW L \in Seq(Line), ~TailFails(L), NEW line \in Line
  PROVE  /\ OnlyLastIsCorrupt(Append(L, line))
         /\ IsCorrupt(line) <=> TailFails(Append(L, line))
         /\ IsCorrupt(line) =>
              DataUpTo(Append(L, line), ReadableEnd(Append(L, line)))
                = DataUpTo(L, ReadableEnd(L))
         /\ ~IsCorrupt(line) =>
              DataUpTo(Append(L, line), ReadableEnd(Append(L, line)))
                = Append(DataUpTo(L, ReadableEnd(L)), line.data)
<1> DEFINE K == Append(L, line)
<1>1. /\ K \in Seq(Line) /\ Len(K) = Len(L) + 1 /\ K[Len(L) + 1] = line
      /\ \A i \in 1..Len(L) : K[i] = L[i]
      /\ Len(L) \in Nat /\ DOMAIN L = 1..Len(L) /\ DOMAIN K = 1..(Len(L) + 1)
  OBVIOUS
<1>2. \A i \in 1..Len(L) : ~IsCorrupt(K[i])
  BY <1>1 DEF TailFails
<1> HIDE DEF K
<1>3. OnlyLastIsCorrupt(K)
  BY <1>1, <1>2 DEF OnlyLastIsCorrupt
<1>4. IsCorrupt(line) <=> TailFails(K)
  BY <1>1, <1>2 DEF TailFails
<1>5. ReadableEnd(L) = Len(L)
  BY DEF ReadableEnd
<1>6. ASSUME IsCorrupt(line)
      PROVE  DataUpTo(K, ReadableEnd(K)) = DataUpTo(L, ReadableEnd(L))
  <2>1. ReadableEnd(K) = Len(L)
    BY <1>1, <1>4, <1>6 DEF ReadableEnd
  <2> QED
    BY <1>1, <1>5, <2>1 DEF DataUpTo
<1>7. ASSUME ~IsCorrupt(line)
      PROVE  DataUpTo(K, ReadableEnd(K)) = Append(DataUpTo(L, ReadableEnd(L)), line.data)
  <2>1. ReadableEnd(K) = Len(L) + 1
    BY <1>1, <1>4, <1>7 DEF ReadableEnd
  <2> DEFINE T == DataUpTo(L, Len(L))
             R == DataUpTo(K, Len(L) + 1)
  <2>2. /\ Len(T) = Len(L)
        /\ \A i \in 1..Len(L) : T[i] = L[i].data
        /\ DOMAIN R = 1..(Len(L) + 1)
        /\ \A i \in 1..(Len(L) + 1) : R[i] = K[i].data
    BY <1>1 DEF DataUpTo
  <2>3. T \in Seq({L[i].data : i \in 1..Len(L)})
    BY <1>1 DEF DataUpTo
  <2>4. R = [i \in 1..(Len(L) + 1) |-> K[i].data]
    BY DEF DataUpTo
  <2> HIDE DEF T, R
  <2>5. Append(T, line.data) = R
    <3>1. Append(T, line.data) = [i \in 1..(Len(T) + 1) |->
                                    IF i = Len(T) + 1 THEN line.data ELSE T[i]]
      BY <2>3
    <3> QED
      BY <1>1, <2>2, <2>4, <3>1
  <2> QED
    BY <1>5, <2>1, <2>5 DEF T, R
<1> QED
  BY <1>3, <1>4, <1>6, <1>7 DEF K

\* The assumption of the refinement, as AuditLog's comment on KeepsTrail states it.
Serial == ~Overlap /\ "nonewline" \notin Faults

\* A process past tail() finds a file that parses, ends with a newline and does
\* not hold the entry it is about to write among the acknowledged ones.
LEMMA WriterIsNext ==
  ASSUME TrailInv, ~Overlap, NEW p \in Procs, pc[p] = "tailed"
  PROVE  /\ ~TailFails(log) /\ ended
         /\ NewEntry(base[p], data[p]) \in Entry
         /\ NewEntry(base[p], data[p]).data = data[p]
         /\ NewEntry(base[p], data[p]) \notin acked
<1>0. /\ log \in Seq(Line) /\ base[p] \in Base /\ data[p] \in Data /\ Len(log) \in Nat
      /\ DOMAIN log = 1..Len(log)
  BY DEF TrailInv, SerialInv, TypeInv, TypeOK
<1>1. ~TailFails(log) /\ base[p] = LogTail(log)
  BY DEF TrailInv, SerialInv, TailIsCurrent
<1>2. \A i \in DOMAIN log : log[i].seq = i
  BY <1>0, <1>1 DEF TrailInv, SerialInv, SerialChain, LineFault, TailFails
<1>3. base[p].seq = Len(log)
  <2>1. CASE log = <<>>
    BY <1>1, <2>1 DEF LogTail
  <2>2. CASE log # <<>>
    <3>1. Len(log) \in DOMAIN log
      BY <1>0, <2>2
    <3> QED
      BY <1>1, <1>2, <2>2, <3>1 DEF LogTail
  <2> QED
    BY <2>1, <2>2
<1>4. ASSUME NewEntry(base[p], data[p]) \in acked PROVE FALSE
  <2>1. PICK i \in DOMAIN log : log[i] = NewEntry(base[p], data[p])
    BY <1>1, <1>4 DEF TrailInv, AckedKept
  <2>2. i = Len(log) + 1
    BY <1>0, <1>2, <1>3, <2>1, NewEntryType
  <2> QED
    BY <1>0, <2>2
<1>5. NewEntry(base[p], data[p]).data = data[p]
  BY DEF NewEntry
<1> QED
  BY <1>0, <1>1, <1>4, <1>5, NewEntryType DEF TrailInv

LEMMA InitTrailInv == Init => TrailInv
<1> SUFFICES ASSUME Init PROVE TrailInv
  OBVIOUS
<1>1. log = <<>> /\ ended /\ acked = {} /\ \A p \in Procs : pc[p] = "idle"
  BY DEF Init
<1>2. SerialInv
  BY <1>1, InitType DEF SerialInv, SerialChain, TailIsCurrent
<1> QED
  BY <1>1, <1>2, FS_EmptySet DEF TrailInv, AckedKept, OnlyLastIsCorrupt

LEMMA NextTrailInv == Serial /\ TrailInv /\ [Next]_vars => TrailInv'
<1> SUFFICES ASSUME Serial, TrailInv, [Next]_vars PROVE TrailInv'
  OBVIOUS
<1>0. /\ TypeInv /\ SerialInv' /\ AckedKept'
      /\ log \in Seq(Line) /\ CorruptLine \in Line /\ IsCorrupt(CorruptLine)
  BY NextSerialInv, NextAckedKept
     DEF TrailInv, SerialInv, TypeInv, TypeOK, Line, IsCorrupt, CorruptLine
<1>1. ASSUME NEW p \in Procs, pc[p] = "tailed", NEW line \in Line, AppendBytes(line),
             ~ended' => IsCorrupt(line), IsFiniteSet(acked')
      PROVE  TrailInv'
  <2>1. ended /\ ~TailFails(log)
    BY <1>1, WriterIsNext DEF Serial
  <2>2. log' = Append(log, line)
    BY <1>1, <2>1 DEF AppendBytes
  <2>3. OnlyLastIsCorrupt(Append(log, line)) /\ (IsCorrupt(line) <=> TailFails(Append(log, line)))
    BY <1>0, <2>1, ReadableAppend
  <2>4. OnlyLastIsCorrupt(log') /\ (IsCorrupt(line) <=> TailFails(log'))
    BY <2>2, <2>3
  <2> QED
    BY <1>0, <1>1, <2>4 DEF TrailInv
<1>2. ASSUME NEW p \in Procs, Write(p) PROVE TrailInv'
  <2>1. NewEntry(base[p], data[p]) \in Line
    BY <1>0, NewEntryType DEF TypeInv, TypeOK, Line
  <2>2. IsFiniteSet(acked')
    BY <1>2, FS_AddElement DEF Write, TrailInv
  <2> QED
    BY <1>1, <1>2, <2>1, <2>2 DEF Write
<1>3. ASSUME NEW p \in Procs, WritePartial(p) PROVE TrailInv'
  BY <1>0, <1>1, <1>3 DEF WritePartial, TrailInv
<1>4. ASSUME NEW p \in Procs, WriteNoNewline(p) PROVE FALSE
  BY <1>4 DEF WriteNoNewline, Serial
<1>5. ASSUME log' = log, ended' = ended, acked' = acked PROVE TrailInv'
  BY <1>0, <1>5 DEF TrailInv, OnlyLastIsCorrupt, TailFails
<1> QED
  BY <1>2, <1>3, <1>4, <1>5 DEF Next, ReadTail, TailError, WriteFails, vars

-----------------------------------------------------------------------------
PendingOf == [p \in Procs |-> IF pc[p] = "tailed" THEN {data[p]} ELSE {}]

\* The two ways pending changes: a process begins to record, or is done.
LEMMA PendingSteps ==
  ASSUME TypeOK, NEW p \in Procs
  PROVE  /\ \A d \in Data : /\ pc[p] = "idle"
                            /\ pc' = [pc EXCEPT ![p] = "tailed"]
                            /\ data' = [data EXCEPT ![p] = d]
              => PendingOf[p] = {} /\ PendingOf' = [PendingOf EXCEPT ![p] = {d}]
         /\ pc[p] = "tailed" /\ pc' = [pc EXCEPT ![p] = "idle"] /\ data' = data
              => PendingOf[p] = {data[p]} /\ PendingOf' = [PendingOf EXCEPT ![p] = {}]
<1>1. ASSUME NEW d \in Data, pc[p] = "idle", pc' = [pc EXCEPT ![p] = "tailed"],
             data' = [data EXCEPT ![p] = d]
      PROVE  PendingOf[p] = {} /\ PendingOf' = [PendingOf EXCEPT ![p] = {d}]
  BY <1>1 DEF PendingOf, TypeOK
<1>2. ASSUME pc[p] = "tailed", pc' = [pc EXCEPT ![p] = "idle"], data' = data
      PROVE  PendingOf[p] = {data[p]} /\ PendingOf' = [PendingOf EXCEPT ![p] = {}]
  BY <1>2 DEF PendingOf, TypeOK
<1> QED
  BY <1>1, <1>2

LEMMA TrailStep ==
  ASSUME Serial, TrailInv, TrailInv', [Next]_vars
  PROVE  [Trail!TrailNext]_(Trail!trailVars)
<1>0. /\ TypeOK /\ log \in Seq(Line) /\ log' \in Seq(Line)
      /\ CorruptLine \in Line /\ IsCorrupt(CorruptLine)
      /\ ReadableTrail = DataUpTo(log, ReadableEnd(log))
  BY ReadableTrailIs
     DEF TrailInv, SerialInv, TypeInv, TypeOK, Line, IsCorrupt, CorruptLine
<1>1. ReadableTrail' = DataUpTo(log', ReadableEnd(log'))
  <2>1. \A L \in Seq(Line) : OnlyLastIsCorrupt(L) =>
          (CHOOSE n \in ReadableOf(L) : \A m \in ReadableOf(L) : m <= n) = ReadableEnd(L)
    BY ReadableEndIsMax
  <2>2. ReadableTrail' = DataUpTo(log',
          CHOOSE n \in ReadableOf(log') : \A m \in ReadableOf(log') : m <= n)
    BY DEF ReadableTrail, Readable, ReadableOf, DataUpTo
  <2> QED
    BY <1>0, <2>1, <2>2 DEF TrailInv
<1>2. log' = log => ReadableTrail' = ReadableTrail
  BY <1>0, <1>1
<1>3. ASSUME NEW p \in Procs, NEW d \in Data, ReadTail(p, d) PROVE Trail!Submit(p, d)
  BY <1>0, <1>2, <1>3, PendingSteps DEF ReadTail, Trail!Submit, PendingOf
<1>4. ASSUME NEW p \in Procs, Write(p) PROVE Trail!Confirm(p)
  <2> DEFINE e == NewEntry(base[p], data[p])
  <2>1. ~TailFails(log) /\ ended /\ e \in Line /\ ~IsCorrupt(e) /\ e.data = data[p] /\ e \notin acked
    BY <1>0, <1>4, WriterIsNext, NewEntryType DEF Write, Serial, Line, TypeOK
  <2>2. log' = Append(log, e)
    BY <1>4, <2>1 DEF Write, AppendBytes
  <2>3. ReadableTrail' = Append(ReadableTrail, data[p])
    BY <1>0, <1>1, <2>1, <2>2, ReadableAppend
  <2>4. Cardinality(acked') = Cardinality(acked) + 1
    BY <1>4, <2>1, FS_AddElement DEF Write, TrailInv
  <2>5. data[p] \in PendingOf[p] /\ PendingOf' = [PendingOf EXCEPT ![p] = {}]
    BY <1>0, <1>4, PendingSteps DEF Write
  <2> QED
    BY <2>3, <2>4, <2>5 DEF Trail!Confirm, PendingOf
<1>5. ASSUME NEW p \in Procs, WriteFails(p) PROVE Trail!Fail(p)
  <2>1. PendingOf[p] # {} /\ PendingOf' = [PendingOf EXCEPT ![p] = {}]
    BY <1>0, <1>5, PendingSteps DEF WriteFails
  <2> QED
    BY <1>2, <1>5, <2>1 DEF WriteFails, Trail!Fail, PendingOf
<1>6. ASSUME NEW p \in Procs, WritePartial(p) PROVE Trail!Fail(p)
  <2>1. ~TailFails(log) /\ ended
    BY <1>6, WriterIsNext DEF WritePartial, Serial
  <2>2. log' = Append(log, CorruptLine)
    BY <1>6, <2>1 DEF WritePartial, AppendBytes
  <2>3. ReadableTrail' = ReadableTrail
    BY <1>0, <1>1, <2>1, <2>2, ReadableAppend
  <2>4. PendingOf[p] # {} /\ PendingOf' = [PendingOf EXCEPT ![p] = {}]
    BY <1>0, <1>6, PendingSteps DEF WritePartial
  <2> QED
    BY <1>6, <2>3, <2>4 DEF WritePartial, Trail!Fail, PendingOf
<1>7. ASSUME NEW p \in Procs, WriteNoNewline(p) PROVE FALSE
  BY <1>7 DEF WriteNoNewline, Serial
<1>8. CASE UNCHANGED vars
  BY <1>2, <1>8 DEF vars, Trail!trailVars
<1> QED
  BY <1>3, <1>4, <1>5, <1>6, <1>7, <1>8 DEF Next, TailError, Trail!TrailNext

\* Calls that come one at a time implement the trail their callers want, for any
\* processes and payloads, whatever is killed and whatever write fails, as long
\* as no line is left without its newline: the readable trail only grows, by the
\* one record that is being written, and each acknowledgement has its record.
THEOREM SerialAppendKeepsTrail ==
  ASSUME Serial
  PROVE  Spec => KeepsTrail
<1>1. Init => Trail!TrailInit
  <2> SUFFICES ASSUME Init PROVE Trail!TrailInit
    OBVIOUS
  <2>1. log = <<>> /\ acked = {} /\ pc = [p \in Procs |-> "idle"]
    BY DEF Init
  <2>2. log \in Seq(Line) /\ OnlyLastIsCorrupt(log)
    BY <2>1 DEF OnlyLastIsCorrupt
  <2>3. ReadableTrail = <<>>
    <3>1. ReadableEnd(log) = 0
      BY <2>1 DEF ReadableEnd, TailFails
    <3> QED
      BY <2>2, <3>1, ReadableTrailIs DEF DataUpTo
  <2>4. Cardinality(acked) = 0
    BY <2>1, FS_EmptySet
  <2> QED
    BY <2>1, <2>3, <2>4 DEF Trail!TrailInit
<1>2. TrailInv /\ [Next]_vars => TrailInv'
  BY NextTrailInv
<1>3. TrailInv /\ TrailInv' /\ [Next]_vars => [Trail!TrailNext]_(Trail!trailVars)
  BY TrailStep
<1> QED
  BY <1>1, <1>2, <1>3, InitTrailInv, PTL DEF Spec, KeepsTrail, Trail!TrailSpec
==============================================================================
