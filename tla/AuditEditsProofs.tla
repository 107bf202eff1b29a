--------------------------- MODULE AuditEditsProofs ---------------------------
(***************************************************************************)
(* Proofs about AuditEdits, for logs of any length and any number of       *)
(* edits.                                                                  *)
(*                                                                         *)
(* An edit copies hashes and makes none, so every hash stored in the file  *)
(* is one that Append computed.  A hash has the content of its entry in    *)
(* it: a line that carries its own hash is an entry as it was written, and *)
(* one with the right sequence number is the entry written there.          *)
(* Verify's check of prev_hash plays no part in the argument.              *)
(***************************************************************************)
EXTENDS AuditEdits, DataInduction

WrittenHashes == {original[j].hash : j \in DOMAIN original}

\* The lines that an edited file may hold.
KnownLines ==
  {BlankLine, CorruptLine} \cup {e \in Entry : e.hash \in WrittenHashes}

\* What Append wrote.
WrittenWell ==
  /\ original \in Seq(Entry)
  /\ \A j \in DOMAIN original :
       /\ original[j].seq = j /\ original[j].canonical
       /\ original[j].hash = EntryHash(original[j].prev, original[j].seq, original[j].data)

EditInv == WrittenWell /\ file \in Seq(KnownLines)

LEMMA Kinds3 ==
  /\ BlankLine.kind = "blank" /\ CorruptLine.kind = "corrupt"
  /\ \A e \in Entry : e.kind = "entry"
BY DEF BlankLine, CorruptLine, Entry

\* The lines that are read are lines of the file, without the empty ones.
LEMMA LinesType ==
  ASSUME NEW S, NEW f \in Seq(S)
  PROVE  Lines(f) \in Seq({line \in S : NotBlank(line)})
<1> DEFINE K == {line \in S : NotBlank(line)}
           Def(r, n) == IF n = 0 THEN <<>>
                        ELSE IF NotBlank(f[n]) THEN Append(r[n-1], f[n])
                        ELSE r[n-1]
           Read(r, m) == r = [n \in 0..m |-> Def(r, n)]
<1>0. Len(f) \in Nat
  OBVIOUS
<1>1. \E r : Read(r, Len(f))
  <2> DEFINE Reached == {m \in Nat : \E r : Read(r, m)}
  <2>1. 0 \in Reached
    <3> DEFINE r == [n \in 0..0 |-> <<>>]
    <3>1. Read(r, 0)
      OBVIOUS
    <3> QED BY <3>1
  <2>2. ASSUME NEW m \in Nat, m \in Reached PROVE m + 1 \in Reached
    <3>1. PICK r : Read(r, m)
      BY <2>2
    <3> DEFINE q == [n \in 0..(m + 1) |-> IF n = m + 1 THEN Def(r, n) ELSE r[n]]
    <3>2. ASSUME NEW n \in 0..(m + 1) PROVE q[n] = Def(q, n)
      <4>1. n # 0 => q[n - 1] = r[n - 1]
        OBVIOUS
      <4>2. Def(q, n) = Def(r, n)
        BY <4>1
      <4>3. n # m + 1 => r[n] = Def(r, n)
        <5> SUFFICES ASSUME n # m + 1 PROVE r[n] = Def(r, n)
          OBVIOUS
        <5>1. n \in 0..m
          OBVIOUS
        <5> QED BY <3>1, <5>1
      <4>4. q[n] = Def(r, n)
        <5> HIDE DEF Def
        <5> QED BY <4>3
      <4> QED BY <4>2, <4>4
    <3>3. Read(q, m + 1)
      <4>1. q = [n \in 0..(m + 1) |-> q[n]]
        OBVIOUS
      <4> HIDE DEF q, Def
      <4> QED BY <3>2, <4>1
    <3>4. \E s : Read(s, m + 1)
      <4> HIDE DEF Read, q
      <4> QED BY <3>3
    <3> HIDE DEF Read
    <3> QED BY <3>4
  <2>3. Nat \subseteq Reached
    <3> HIDE DEF Reached
    <3> QED BY <2>1, <2>2, NumberInduction
  <2> HIDE DEF Read
  <2> QED BY <1>0, <2>3
<1> DEFINE read == CHOOSE r : Read(r, Len(f))
<1>2. Read(read, Len(f))
  <2> HIDE DEF Read
  <2> QED BY <1>1
<1>3. Lines(f) = read[Len(f)]
  BY DEF Lines
<1> HIDE DEF read
<1>4. \A n \in 0..Len(f) : read[n] \in Seq(K)
  <2> DEFINE Typed == {n \in Nat : n <= Len(f) => read[n] \in Seq(K)}
  <2>1. 0 \in Typed
    BY <1>2
  <2>2. ASSUME NEW n \in Nat, n \in Typed PROVE n + 1 \in Typed
    <3> SUFFICES ASSUME n + 1 <= Len(f) PROVE read[n + 1] \in Seq(K)
      OBVIOUS
    <3>1. read[n] \in Seq(K) /\ n + 1 \in 0..Len(f) /\ n + 1 # 0 /\ n + 1 - 1 = n
      BY <1>0, <2>2
    <3>2. read[n + 1] = IF NotBlank(f[n + 1]) THEN Append(read[n], f[n + 1]) ELSE read[n]
      <4>1. read[n + 1] = Def(read, n + 1)
        <5> HIDE DEF Def
        <5> QED BY <1>2, <3>1
      <4> QED BY <3>1, <4>1
    <3>3. f[n + 1] \in S
      BY <1>0
    <3> QED BY <3>1, <3>2, <3>3
  <2>3. Nat \subseteq Typed
    <3> HIDE DEF Typed
    <3> QED BY <2>1, <2>2, NumberInduction
  <2> QED BY <1>0, <2>3
<1> QED BY <1>0, <1>3, <1>4

-----------------------------------------------------------------------------
LEMMA AppendInjective ==
  ASSUME NEW s \in Seq(Content), NEW t \in Seq(Content), NEW x, NEW y, Append(s, x) = Append(t, y)
  PROVE  s = t /\ x = y
<1>1. Len(s) + 1 = Len(t) + 1 /\ Len(s) \in Nat /\ Len(t) \in Nat
  <2>1. Len(Append(s, x)) = Len(s) + 1 /\ Len(Append(t, y)) = Len(t) + 1
    OBVIOUS
  <2> QED BY <2>1
<1>2. Len(s) = Len(t)
  BY <1>1
<1>3. x = Append(s, x)[Len(s) + 1] /\ y = Append(t, y)[Len(t) + 1]
  OBVIOUS
<1>4. \A i \in 1..Len(s) : s[i] = Append(s, x)[i] /\ t[i] = Append(t, y)[i]
  BY <1>2
<1>5. s = t
  BY <1>2, <1>4
<1> QED BY <1>2, <1>3, <1>5

\* The hash of an entry has its content in it.
LEMMA HashIsInjective ==
  ASSUME NEW e \in Entry, NEW o \in Entry,
         EntryHash(e.prev, e.seq, e.data) = EntryHash(o.prev, o.seq, o.data)
  PROVE  e.prev = o.prev /\ e.seq = o.seq /\ e.data = o.data
<1>1. e.prev \in Seq(Content) /\ o.prev \in Seq(Content)
  BY DEF Entry, Hash
<1>2. e.prev = o.prev /\ [seq |-> e.seq, data |-> e.data] = [seq |-> o.seq, data |-> o.data]
  <2> DEFINE c == [seq |-> e.seq, data |-> e.data]
             d == [seq |-> o.seq, data |-> o.data]
  <2>1. Append(e.prev, c) = Append(o.prev, d)
    BY DEF EntryHash
  <2> HIDE DEF c, d
  <2>2. e.prev = o.prev /\ c = d
    BY <1>1, <2>1, AppendInjective
  <2> QED BY <2>2 DEF c, d
<1> DEFINE c == [seq |-> e.seq, data |-> e.data]
           d == [seq |-> o.seq, data |-> o.data]
<1>3. c = d /\ c.seq = e.seq /\ d.seq = o.seq /\ c.data = e.data /\ d.data = o.data
  BY <1>2
<1> HIDE DEF c, d
<1> QED BY <1>2, <1>3

\* A line that is known, carries its own hash and has the number of its place is
\* the entry that was written there.
LEMMA PassedIsOriginal ==
  ASSUME EditInv, NEW L \in Seq({line \in KnownLines : NotBlank(line)}), NEW i \in DOMAIN L,
         LineFault(L, i) = "none"
  PROVE  i <= Len(original) /\ L[i] = original[i]
<1>1. /\ L[i] \in KnownLines /\ NotBlank(L[i]) /\ ~IsCorrupt(L[i]) /\ L[i].seq = i
      /\ EntryHash(L[i].prev, L[i].seq, L[i].data) = L[i].hash /\ L[i].canonical
  BY DEF LineFault
<1>2. L[i] \in Entry /\ L[i].hash \in WrittenHashes
  BY <1>1, Kinds3 DEF KnownLines, NotBlank, IsCorrupt
<1>3. PICK j \in DOMAIN original : original[j].hash = L[i].hash
  BY <1>2 DEF WrittenHashes
<1> DEFINE e == L[i]
           o == original[j]
<1>4. /\ o \in Entry /\ o.seq = j /\ o.canonical /\ o.hash = e.hash
      /\ o.hash = EntryHash(o.prev, o.seq, o.data) /\ j \in 1..Len(original)
  BY <1>3 DEF EditInv, WrittenWell
<1>5. e \in Entry /\ e.canonical /\ e.seq = i /\ EntryHash(e.prev, e.seq, e.data) = e.hash
  BY <1>1, <1>2
<1> HIDE DEF e, o
<1>6. e.prev = o.prev /\ e.seq = o.seq /\ e.data = o.data
  BY <1>4, <1>5, HashIsInjective
<1>7. e.kind = o.kind /\ e.canonical = o.canonical
  <2>1. e.kind = "entry" /\ o.kind = "entry"
    BY <1>4, <1>5, Kinds3
  <2>2. e.canonical \in BOOLEAN /\ o.canonical \in BOOLEAN
    BY <1>4, <1>5 DEF Entry
  <2> QED BY <1>4, <1>5, <2>1, <2>2
<1>8. e = o
  <2> DEFINE As(x) == [kind |-> x.kind, seq |-> x.seq, data |-> x.data, prev |-> x.prev,
                       hash |-> x.hash, canonical |-> x.canonical]
  <2>1. \A x \in Entry : x = As(x)
    BY DEF Entry
  <2>2. As(e) = As(o)
    BY <1>4, <1>6, <1>7
  <2> HIDE DEF As
  <2> QED BY <1>4, <1>5, <2>1, <2>2
<1> QED BY <1>4, <1>5, <1>6, <1>8 DEF e, o

-----------------------------------------------------------------------------
(* The steps. *)

LEMMA WrittenIsWell ==
  ASSUME NEW n \in Nat, NEW ds \in [1..n -> Data], original = Written(ds)
  PROVE  WrittenWell
<1>0. ds \in Seq(Data) /\ Len(ds) = n /\ DOMAIN original = 1..n
  BY DEF Written
<1>1. ASSUME NEW i \in 1..n
      PROVE  /\ original[i] \in Entry /\ original[i].seq = i /\ original[i].canonical
             /\ original[i].hash = EntryHash(original[i].prev, original[i].seq, original[i].data)
  <2> DEFINE h == HashAfter(ds, i - 1)
             x == EntryHash(h, i, ds[i])
  <2>1. h \in Seq(Content)
    BY <1>0 DEF HashAfter, Content
  <2>2. ds[i] \in Data /\ i - 1 + 1 = i /\ i \in Nat
    OBVIOUS
  <2> HIDE DEF h
  <2>3. x \in Hash /\ h \in Hash
    BY <2>1, <2>2 DEF EntryHash, Hash, Content
  <2> DEFINE o == [kind |-> "entry", seq |-> i, data |-> ds[i], prev |-> h, hash |-> x, canonical |-> TRUE]
  <2>4. original[i] = o
    BY <1>0, <2>2 DEF Written, NewEntry, h
  <2>5. o \in Entry
    <3> HIDE DEF x
    <3> QED BY <2>2, <2>3 DEF Entry
  <2>6. o.seq = i /\ o.canonical /\ o.hash = EntryHash(o.prev, o.seq, o.data)
    OBVIOUS
  <2> HIDE DEF o
  <2> QED BY <2>4, <2>5, <2>6
<1>2. original = [i \in 1..n |-> original[i]]
  BY DEF Written
<1>3. original \in Seq(Entry)
  BY <1>1, <1>2
<1> QED BY <1>0, <1>1, <1>3 DEF WrittenWell

LEMMA InitEdits ==
  ASSUME Init
  PROVE  EditInv
<1>0. 0..MaxEntries \subseteq Nat
  BY EditBoundsAssumption
<1>1. PICK n \in 0..MaxEntries : \E ds \in [1..n -> Data] : original = Written(ds)
  BY DEF Init
<1>2. WrittenWell
  BY <1>0, <1>1, WrittenIsWell
<1>3. original \in Seq(KnownLines)
  BY <1>2 DEF WrittenWell, KnownLines, WrittenHashes
<1> QED BY <1>2, <1>3 DEF EditInv, Init

\* A field of an entry takes another value, and a hash only that of another entry.
LEMMA EditFieldKeepsKnown ==
  ASSUME EditInv, NEW i \in DOMAIN file, EditField(i)
  PROVE  file' \in Seq(KnownLines)
<1>0. file \in Seq(KnownLines) /\ file[i] \in KnownLines /\ file[i].kind = "entry"
  BY DEF EditInv, EditField, EntryAt
<1>1. file[i] \in Entry /\ file[i].hash \in WrittenHashes
  BY <1>0, Kinds3 DEF KnownLines
<1>2. ASSUME NEW line \in KnownLines, file' = [file EXCEPT ![i] = line]
      PROVE  file' \in Seq(KnownLines)
  BY <1>0, <1>2
<1>3. ASSUME NEW e \in Entry, e.hash \in WrittenHashes PROVE e \in KnownLines
  BY <1>3 DEF KnownLines
<1>4. CASE \E d \in Data : file' = [file EXCEPT ![i].data = d]
  <2>1. PICK d \in Data : file' = [file EXCEPT ![i].data = d]
    BY <1>4
  <2> DEFINE e == [file[i] EXCEPT !.data = d]
  <2>2. e \in Entry /\ e.hash = file[i].hash
    BY <1>1 DEF Entry
  <2>3. file' = [file EXCEPT ![i] = e]
    BY <2>1
  <2> HIDE DEF e
  <2> QED BY <1>1, <1>2, <1>3, <2>2, <2>3
<1>5. CASE \E n \in 1..MaxEntries : file' = [file EXCEPT ![i].seq = n]
  <2>1. PICK n \in 1..MaxEntries : file' = [file EXCEPT ![i].seq = n]
    BY <1>5
  <2> DEFINE e == [file[i] EXCEPT !.seq = n]
  <2>2. e \in Entry /\ e.hash = file[i].hash
    BY <1>1 DEF Entry
  <2>3. file' = [file EXCEPT ![i] = e]
    BY <2>1
  <2> HIDE DEF e
  <2> QED BY <1>1, <1>2, <1>3, <2>2, <2>3
<1>6. ASSUME NEW j \in DOMAIN file, EntryAt(j),
             \/ file' = [file EXCEPT ![i].prev = file[j].hash]
             \/ file' = [file EXCEPT ![i].hash = file[j].hash]
      PROVE  file' \in Seq(KnownLines)
  <2>1. file[j] \in Entry /\ file[j].hash \in WrittenHashes /\ file[j].hash \in Hash
    BY <1>0, <1>6, Kinds3 DEF EntryAt, KnownLines, Entry
  <2>2. CASE file' = [file EXCEPT ![i].prev = file[j].hash]
    <3> DEFINE e == [file[i] EXCEPT !.prev = file[j].hash]
    <3>1. e \in Entry /\ e.hash = file[i].hash
      BY <1>1, <2>1 DEF Entry
    <3>2. file' = [file EXCEPT ![i] = e]
      BY <2>2
    <3> HIDE DEF e
    <3> QED BY <1>1, <1>2, <1>3, <3>1, <3>2
  <2>3. CASE file' = [file EXCEPT ![i].hash = file[j].hash]
    <3> DEFINE e == [file[i] EXCEPT !.hash = file[j].hash]
    <3>1. e \in Entry /\ e.hash = file[j].hash
      BY <1>1, <2>1 DEF Entry
    <3>2. file' = [file EXCEPT ![i] = e]
      BY <2>3
    <3> HIDE DEF e
    <3> QED BY <1>2, <1>3, <2>1, <3>1, <3>2
  <2> QED BY <1>6, <2>2, <2>3
<1>7. CASE file' = [file EXCEPT ![i] = CorruptLine]
  BY <1>2, <1>7 DEF KnownLines
<1> QED BY <1>4, <1>5, <1>6, <1>7 DEF EditField

\* Lines that are dropped, moved, copied or put in between.
LEMMA MovesKeepType ==
  ASSUME NEW S, NEW f \in Seq(S), NEW i \in 0..Len(f)
  PROVE  /\ SubSeq(f, 1, i) \in Seq(S)
         /\ i > 0 => Without(f, i) \in Seq(S)
         /\ \A line \in S : Inserted(f, i, line) \in Seq(S)
<1>1. SubSeq(f, 1, i) \in Seq(S) /\ SubSeq(f, i + 1, Len(f)) \in Seq(S)
  OBVIOUS
<1>2. i > 0 => SubSeq(f, 1, i - 1) \in Seq(S)
  OBVIOUS
<1>3. \A line \in S : <<line>> \in Seq(S)
  OBVIOUS
<1> QED BY <1>1, <1>2, <1>3 DEF Without, Inserted

LEMMA NextEdits == EditInv /\ [Next]_vars => EditInv'
<1> SUFFICES ASSUME EditInv, [Next]_vars PROVE EditInv'
  OBVIOUS
<1>0. /\ file \in Seq(KnownLines) /\ original' = original /\ WrittenWell'
      /\ KnownLines' = KnownLines /\ DOMAIN file = 1..Len(file) /\ Len(file) \in Nat
  BY DEF EditInv, Next, vars, WrittenWell, KnownLines, WrittenHashes
<1>1. ASSUME NEW i \in DOMAIN file, EditField(i) PROVE file' \in Seq(KnownLines)
  BY <1>1, EditFieldKeepsKnown
<1>2. ASSUME NEW i \in DOMAIN file, Reencode(i) PROVE file' \in Seq(KnownLines)
  <2> DEFINE e == [file[i] EXCEPT !.canonical = FALSE]
  <2>1. file[i] \in Entry /\ file[i].hash \in WrittenHashes
    BY <1>0, <1>2, Kinds3 DEF Reencode, EntryAt, KnownLines
  <2>2. e \in Entry /\ e.hash = file[i].hash
    BY <2>1 DEF Entry
  <2>3. file' = [file EXCEPT ![i] = e]
    BY <1>2 DEF Reencode
  <2> HIDE DEF e
  <2>4. e \in KnownLines
    BY <2>1, <2>2 DEF KnownLines
  <2> QED BY <1>0, <2>3, <2>4
<1>3. ASSUME NEW i \in DOMAIN file, Delete(i) PROVE file' \in Seq(KnownLines)
  BY <1>0, <1>3, MovesKeepType DEF Delete
<1>4. ASSUME NEW i \in DOMAIN file, NEW j \in DOMAIN file, Swap(i, j)
      PROVE  file' \in Seq(KnownLines)
  BY <1>0, <1>4 DEF Swap
<1>5. ASSUME NEW i \in DOMAIN file, NEW j \in DOMAIN file, Copy(i, j)
      PROVE  file' \in Seq(KnownLines)
  BY <1>0, <1>5, MovesKeepType DEF Copy
<1>6. ASSUME NEW i \in 0..Len(file), AddBlank(i) PROVE file' \in Seq(KnownLines)
  <2>1. BlankLine \in KnownLines
    BY DEF KnownLines
  <2> QED BY <1>0, <1>6, <2>1, MovesKeepType DEF AddBlank
<1>7. ASSUME NEW n \in 0..Len(file)-1, Truncate(n) PROVE file' \in Seq(KnownLines)
  BY <1>0, <1>7, MovesKeepType DEF Truncate
<1>8. ASSUME UNCHANGED vars PROVE file' \in Seq(KnownLines)
  BY <1>0, <1>8 DEF vars
<1>9. file' \in Seq(KnownLines)
  BY <1>1, <1>2, <1>3, <1>4, <1>5, <1>6, <1>7, <1>8 DEF Next
<1> QED BY <1>0, <1>9 DEF EditInv

\* However long the log and however many fields are changed and lines moved, copied,
\* dropped, re-encoded or put in between: each line that Verify gets past is the
\* line that penrush wrote at that place.
THEOREM VerifiedIsOriginal == Spec => []VerifiedLinesAreOriginal
<1>1. Init => EditInv
  BY InitEdits
<1>2. EditInv => VerifiedLinesAreOriginal
  <2> SUFFICES ASSUME EditInv, NEW i \in DOMAIN Lines(file), CleanUpTo(Lines(file), i)
               PROVE  i <= Len(original) /\ Lines(file)[i] = original[i]
    BY DEF VerifiedLinesAreOriginal
  <2>1. Lines(file) \in Seq({line \in KnownLines : NotBlank(line)})
    BY LinesType DEF EditInv
  <2>2. i \in 1..i
    BY <2>1
  <2>3. LineFault(Lines(file), i) = "none"
    BY <2>2 DEF CleanUpTo
  <2> QED BY <2>1, <2>3, PassedIsOriginal
<1> QED BY <1>1, <1>2, NextEdits, PTL DEF Spec
==============================================================================
