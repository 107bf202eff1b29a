----------------------------- MODULE ArchiveScan ------------------------------
(***************************************************************************)
(* ReadArchive of internal/payload/archive.go: the files that may hold     *)
(* install hooks are read from a package, entry by entry, through nested   *)
(* archives and under limits.  What the next entry is, the archive         *)
(* decides.  Sizes are in any unit; headers and padding have none.         *)
(***************************************************************************)
EXTENDS InstallScan, Integers, SequencesExt

CONSTANTS
  MaxTotal, MaxEntries, MaxPerEntry, MaxDepth, \* Limits
  Sizes,     \* bound: the sizes of entries
  Spellings, \* bound: how a path may be spelled, with slashes or backslashes
  Files      \* bound: what a file at a path of interest may be

ASSUME ArchiveAssumption ==
  /\ {MaxTotal, MaxEntries, MaxPerEntry, MaxDepth} \subseteq Nat /\ Sizes \subseteq Nat
  /\ MaxDepth >= 1
  /\ \A f \in Files : f.parses \in BOOLEAN /\ f.hooks \subseteq SUBSET Traits

VARIABLE scan

\* levels: what each open stream may still deliver, the innermost last; out: the files
\* read, by cleaned path.  History: sizes of what out holds; inside, which streams are
\* open, by number; left, the files at hook paths as unpacking leaves them, each stream by
\* itself and each spelling of a path a file of its own; bytes streamed; streams opened.
NoFiles == [p \in {} |-> {}]
NoScan == [pc |-> "idle", eco |-> "none", zip |-> FALSE, levels |-> <<>>, entries |-> 0,
           total |-> 0, out |-> NoFiles, sizes |-> NoFiles, left |-> NoFiles,
           inside |-> <<>>, streamed |-> 0, opened |-> 0]

Put(f, p, x) == [q \in DOMAIN f \cup {p} |-> IF q = p THEN x ELSE f[q]]

Top == Last(scan.levels)

Walks(s) == scan' = s
Fails == scan' = [NoScan EXCEPT !.pc = "failed"]

\* Opening the archive: an unknown format, a bad gzip header or no zip directory fail.
Open(eco, zip) ==
  \/ Fails
  \/ Walks([NoScan EXCEPT !.pc = "walk", !.eco = eco, !.zip = zip, !.opened = 1,
                          !.inside = <<1>>, !.levels = IF zip THEN <<>> ELSE <<MaxTotal>>])

\* The bytes of a body that is skipped are not charged.
BugConsume(s, n) == [s EXCEPT !.streamed = @ + n]

\* The stream in front delivers n bytes of a body, skipped or read.
Lowered(levels, n) == [levels EXCEPT ![Len(levels)] = @ - n]
Consume(s, n) ==
  [s EXCEPT !.streamed = @ + n, !.levels = IF s.zip THEN @ ELSE Lowered(@, n)]

\* Whether the stream can deliver n more; zip members are streams of their own.
Delivers(n) == ~scan.zip => n <= Top

\* readEntry, and the limits it may exceed.
CanRead(n) == Delivers(n) /\ n <= MaxPerEntry /\ scan.total + n <= MaxTotal
Read(n) == [Consume(scan, n) EXCEPT !.total = @ + n]

\* The next header.  At the end of its allowance a stream delivers not even that.
AtEntry == scan.pc = "walk" /\ (~scan.zip => Top > 0)
Counted(s) == [s EXCEPT !.entries = @ + 1]

\* Malformed bytes, a panic of a decoder, an allowance that is used up, too many
\* entries, a link or a device, a path out of the archive: the whole scan fails.
ScanFails == scan.pc = "walk" /\ Fails

EndOfArchive ==
  /\ AtEntry
  /\ IF Len(scan.levels) <= 1 THEN Walks([scan EXCEPT !.pc = "done", !.levels = <<>>])
                              ELSE Walks([scan EXCEPT !.levels = Front(@), !.inside = Front(@)])

\* A directory, or a file nobody asks for, whose bytes go by (in a zip they do not).
SkipEntry ==
  /\ AtEntry /\ scan.entries < MaxEntries
  /\ \E n \in Sizes \cup {0} :
       /\ Delivers(n)
       /\ Walks(Counted(IF scan.zip THEN scan ELSE Consume(scan, n)))

\* What unpacking the innermost stream alone would make of an entry.
Unpacked(p, spelling) == <<Last(scan.inside), spelling, p>>

BugFirstStays(p, spelling, file, n) ==
  /\ CanRead(n)
  /\ Walks(Counted([Read(n) EXCEPT !.out = IF p \in DOMAIN @ THEN @ ELSE Put(@, p, file),
                       !.sizes = Put(@, p, n), !.left = Put(@, Unpacked(p, spelling), file)]))

\* A file of interest, kept under its cleaned path, with which backslashes are slashes.
\* One of that path read before is replaced, of whichever stream and spelling it was.
ReadFile(p, spelling, file, n) ==
  /\ CanRead(n)
  /\ Walks(Counted([Read(n) EXCEPT !.out = Put(@, p, file), !.sizes = Put(@, p, n),
                                   !.left = Put(@, Unpacked(p, spelling), file)]))

\* A hook of the package is at a path the scan has no interest in.
PassByHook(p, spelling, file) ==
  Walks(Counted([scan EXCEPT !.left = Put(@, Unpacked(p, spelling), file)]))

HookEntry ==
  /\ AtEntry /\ scan.entries < MaxEntries
  /\ \E p \in InterestingFor[scan.eco] \cup LocatedIn[scan.eco], spelling \in Spellings,
        file \in Files, n \in Sizes :
       IF p \in InterestingFor[scan.eco] THEN ReadFile(p, spelling, file, n)
                                         ELSE PassByHook(p, spelling, file)

\* data.tar.gz is read and walked, with the allowance that is not used up yet.
NestedArchive ==
  /\ AtEntry /\ ~scan.zip /\ scan.entries < MaxEntries
  /\ Len(scan.levels) < MaxDepth
  /\ \E n \in Sizes :
       /\ CanRead(n)
       /\ LET s == Counted(Read(n)) IN
          Walks([s EXCEPT !.levels = Append(@, MaxTotal - s.total), !.opened = @ + 1,
                             !.inside = Append(@, s.opened + 1)])

WalkArchive == ScanFails \/ EndOfArchive \/ SkipEntry \/ HookEntry \/ NestedArchive

-----------------------------------------------------------------------------
\* Whatever the archive is made of, what is kept in memory, what is streamed and how
\* many entries are looked at stays within the limits; only, each nested archive has an
\* allowance of its own for what it skips.
ScanIsBounded ==
  /\ SumFunction(scan.sizes) <= scan.total /\ scan.total <= MaxTotal
  /\ scan.streamed <= MaxTotal * scan.opened
  /\ scan.opened <= scan.entries + 1 /\ scan.entries <= MaxEntries
  /\ Len(scan.levels) <= MaxDepth

\* No other stream, and no other spelling, has a file of this one's cleaned path.
Alone(k) == \A j \in DOMAIN scan.left : j[3] = k[3] => j = k

\* A scan that finishes has judged every hook that unpacking any one of the archive's
\* streams leaves behind, as it is left after repeated entries of its path, unless another
\* stream or spelling has a file of the same cleaned path (one of them is judged then): if
\* it fetches and executes, or executes what it hides, Gate 8 blocks.
ScanJudgesWhatStays ==
  scan.pc = "done" =>
    \A k \in DOMAIN scan.left :
      Alone(k) /\ (\E h \in HooksOf(scan.eco, scan.left[k]) : High(h) \/ Hidden(h)) =>
        Blocks(Detect(Locate(scan.eco, scan.out)))
==============================================================================
