------------------------------ MODULE AuditEdits ------------------------------
(***************************************************************************)
(* Tamper evidence (internal/audit/audit.go, Verify; "penrush audit        *)
(* verify", internal/cli/audit.go): the log was written by Append, one     *)
(* call at a time, and then something other than penrush changes the file: *)
(* an editor, a script, a repair.  Such a change does not recompute SHA-256 *)
(* (the package says that a full re-forge is not detected); it changes     *)
(* stored fields, moves, copies, drops or re-encodes lines, or adds empty  *)
(* lines.                                                                  *)
(***************************************************************************)
EXTENDS AuditFormat

CONSTANTS
  MaxEntries,   \* bound: the longest log that is edited
  MaxEdits,     \* bound: how many edits are made to it
  Kinds         \* the kinds of edit that happen

ASSUME EditBoundsAssumption == MaxEntries \in Nat /\ MaxEdits \in Nat
ASSUME EditKindsAssumption ==
  Kinds \subseteq {"field", "delete", "swap", "copy", "reencode", "blank", "truncate"}

VARIABLES
  file,      \* the lines of audit.jsonl, empty ones included
  original,  \* the file as penrush left it
  edits      \* how many edits were made

vars == <<file, original, edits>>

BlankLine == [kind |-> "blank"]

\* tail, Verify and ReadAll read line by line and skip those of length 0.
NotBlank(line) == line.kind # "blank"
Lines(f) ==
  LET read[n \in 0..Len(f)] == IF n = 0 THEN <<>>
                               ELSE IF NotBlank(f[n]) THEN Append(read[n-1], f[n])
                               ELSE read[n-1]
  IN read[Len(f)]

\* The log after appending ds one call at a time.
HashAfter(ds, n) == [i \in 1..n |-> [seq |-> i, data |-> ds[i]]]
Written(ds) ==
  [i \in 1..Len(ds) |-> NewEntry([seq |-> i-1, hash |-> HashAfter(ds, i-1)], ds[i])]

Init ==
  /\ \E n \in 0..MaxEntries : \E ds \in [1..n -> Data] : original = Written(ds)
  /\ file = original
  /\ edits = 0

-----------------------------------------------------------------------------
EntryAt(i) == i \in DOMAIN file /\ file[i].kind = "entry"

Without(f, i) == SubSeq(f, 1, i-1) \o SubSeq(f, i+1, Len(f))
Inserted(f, i, line) == SubSeq(f, 1, i) \o <<line>> \o SubSeq(f, i+1, Len(f))

\* A stored field takes another value; hashes are copied from the file.
EditField(i) ==
  /\ EntryAt(i)
  /\ \/ \E d \in Data : file' = [file EXCEPT ![i].data = d]
     \/ \E n \in 1..MaxEntries : file' = [file EXCEPT ![i].seq = n]
     \/ \E j \in DOMAIN file :
          /\ EntryAt(j)
          /\ \/ file' = [file EXCEPT ![i].prev = file[j].hash]
             \/ file' = [file EXCEPT ![i].hash = file[j].hash]
     \/ file' = [file EXCEPT ![i] = CorruptLine]

\* Extra or duplicate keys, other escapes, reordered keys, spaces: the parsed
\* entry is the same.
Reencode(i) == EntryAt(i) /\ file' = [file EXCEPT ![i].canonical = FALSE]

Delete(i) == i < Len(file) /\ file' = Without(file, i)

Swap(i, j) == file' = [file EXCEPT ![i] = file[j], ![j] = file[i]]

Copy(i, j) == file' = Inserted(file, j, file[i])

AddBlank(i) == file' = Inserted(file, i, BlankLine)

\* Lines are removed from the end.
Truncate(n) == file' = SubSeq(file, 1, n)

Next ==
  /\ edits < MaxEdits
  /\ edits' = edits + 1
  /\ UNCHANGED original
  /\ \/ "field" \in Kinds /\ \E i \in DOMAIN file : EditField(i)
     \/ "reencode" \in Kinds /\ \E i \in DOMAIN file : Reencode(i)
     \/ "delete" \in Kinds /\ \E i \in DOMAIN file : Delete(i)
     \/ "swap" \in Kinds /\ \E i, j \in DOMAIN file : Swap(i, j)
     \/ "copy" \in Kinds /\ \E i, j \in DOMAIN file : Copy(i, j)
     \/ "blank" \in Kinds /\ \E i \in 0..Len(file) : AddBlank(i)
     \/ "truncate" \in Kinds /\ \E n \in 0..Len(file)-1 : Truncate(n)

Spec == Init /\ [][Next]_vars

-----------------------------------------------------------------------------
\* What the chain really promises, after any series of edits: each line Verify
\* gets past is, byte for byte, the line penrush wrote there.  No edited, moved,
\* copied, inserted or re-encoded line and no gap in the middle is passed over,
\* and a log that verifies is the beginning of what was written; lines missing at
\* its end go unseen (SECURITY.md says that truncation is seen, too).
VerifiedLinesAreOriginal ==
  \A i \in DOMAIN Lines(file) :
    CleanUpTo(Lines(file), i) => i <= Len(original) /\ Lines(file)[i] = original[i]
==============================================================================
