---------------------------- MODULE OverrideProofs ----------------------------
(***************************************************************************)
(* Proofs about OverrideStore, for any number of writers and keys and any  *)
(* disturbances: its types, and the four things the run override_races     *)
(* checks of config.json, overrides.json and the audit rows.               *)
(*                                                                         *)
(* The argument is that a writer which met no other one had the .tmp to    *)
(* itself from its Load to its rename (Alone, OwnFile), so that no inode   *)
(* and no store in memory holds its override before it is renamed into     *)
(* place (FilesExplained, ViewsExplained), and that whoever saves after it *)
(* has loaded what it left (Passed).                                       *)
(***************************************************************************)
EXTENDS OverrideStore, TLAPS

Pcs == {"idle", "create", "fill", "stat", "load", "open", "write", "rename", "audit", "done",
        "failed", "unlogged", "crashed", "lost"}

\* A writer that has not loaded the store yet.
Before == {"idle", "create", "fill", "stat", "load"}

\* An inode is named after the writer that creates it, when it opens the .tmp.
FreshInodes ==
  /\ \A w \in Writers : pc[w] \in Before \cup {"open"} => w # main /\ w # tmp
  /\ main = tmp => main = None

Alone == \A w \in Writers \ met : Saving(w) => \A v \in Writers \ {w} : ~Saving(v)

OwnFile ==
  \A w \in Writers \ met :
    /\ pc[w] = "write" => tmp # None /\ fd[w] = tmp /\ content[tmp] = Nothing
    /\ pc[w] = "rename" => tmp # None /\ fd[w] = tmp /\ content[tmp] = Whole(view[w])

\* The writers are listed in "started" once, from the moment they have loaded; the
\* order of loading as a value, so that the order of one state and of the next compare.
Listed(order, w) == \E i \in DOMAIN order : order[i] = w
Place(order, w) == CHOOSE i \in DOMAIN order : order[i] = w
NoOlder(order, store, k, w) == store[k] # None /\ Place(order, store[k]) >= Place(order, w)
Distinct(order) == \A i, j \in DOMAIN order : order[i] = order[j] => i = j

StartedOnce ==
  /\ Distinct(started)
  /\ \A w \in Writers : pc[w] \in Before => ~Listed(started, w)
  /\ \A w \in Writers : Saving(w) => Listed(started, w)

\* Only those that add an override, and have loaded, occur in a store.
Adders(jobs, order, store) ==
  \A k \in Keys : store[k] # None => jobs[store[k]] \in Keys /\ Listed(order, store[k])

OnlyAdders ==
  /\ \A i \in Writers : content[i].parses => Adders(job, started, content[i].store)
  /\ \A w \in Writers : Saving(w) => Adders(job, started, view[w])

Added == \A w \in Writers : Saving(w) /\ job[w] \in Keys => view[w][job[w]] = w

Explained(w) == w \in rows \/ pc[w] \in {"audit", "unlogged", "crashed"} \/ w \in met

FilesExplained ==
  \A i, v \in Writers, k \in Keys :
    content[i].parses /\ content[i].store[k] = v => Explained(v) \/ (i = tmp /\ pc[v] = "rename")

ViewsExplained ==
  \A w, v \in Writers, k \in Keys : Saving(w) /\ view[w][k] = v /\ v # w => Explained(v)

\* What an add that met nobody has left is in the file, in the .tmp, and in the
\* memory of everyone who still saves.
Past(w) == job[w] \in Keys /\ pc[w] \in {"audit", "done", "unlogged"}

Passed ==
  \A w \in Writers \ met : Past(w) =>
    /\ Listed(started, w)
    /\ OnDisk.parses => NoOlder(started, OnDisk.store, job[w], w)
    /\ tmp # None /\ content[tmp].parses => NoOlder(started, content[tmp].store, job[w], w)
    /\ \A v \in Writers : Saving(v) => NoOlder(started, view[v], job[w], w)

OnlyInits == \A w \in Writers : pc[w] \in Before \ {"idle"} => job[w] = "init"

StoreInv ==
  /\ TypeOK /\ OnlyInits /\ FreshInodes /\ Alone /\ OwnFile /\ StartedOnce /\ OnlyAdders /\ Added
  /\ FilesExplained /\ ViewsExplained /\ Passed /\ TornOnlyByOverlap

\* Two inits that create config.json at one time have met, and none does once it is there.
ConfigInv ==
  /\ \A v, w \in Writers : v # w /\ Creating(v) /\ Creating(w) => v \in clashed
  /\ \A w \in filled \ clashed : config = Keyed(w) /\ \A v \in Writers : ~Creating(v)
  /\ config = Truncated => \E w \in Writers : pc[w] \in {"fill", "lost"}

-----------------------------------------------------------------------------
(* The types. *)

LEMMA InitTypes == Init => TypeOK
<1> SUFFICES ASSUME Init PROVE TypeOK
  OBVIOUS
<1> EmptyStore \in Stores
  BY DEF EmptyStore, Stores
<1> QED BY DEF Init, TypeOK

LEMMA OnDiskType ==
  ASSUME TypeOK, OnDisk.parses
  PROVE  OnDisk.store \in Stores
<1>1. EmptyStore \in Stores
  BY DEF EmptyStore, Stores
<1>2. CASE main = None
  BY <1>1, <1>2 DEF OnDisk, Whole
<1>3. CASE main # None
  <2>1. content[main] \in {Torn, Nothing} \cup [parses : {TRUE}, store : Stores]
    BY <1>3 DEF TypeOK
  <2>2. OnDisk = content[main]
    BY <1>3 DEF OnDisk
  <2>3. content[main] # Torn /\ content[main] # Nothing
    BY <2>2 DEF Torn, Nothing
  <2>4. content[main] \in [parses : {TRUE}, store : Stores]
    BY <2>1, <2>3
  <2> QED BY <2>2, <2>4
<1> QED BY <1>2, <1>3

LEMMA StepTypes ==
  ASSUME TypeOK, NEW w \in Writers,
         \/ FindNoConfig(w) \/ FindConfig(w) \/ OpenConfig(w) \/ FillConfig(w) \/ LeaveTruncated(w)
         \/ LoadAndAdd(w) \/ RefuseCorrupt(w) \/ InitStat(w) \/ InitLoad(w) \/ InitLoadFails(w)
         \/ OpenTmp(w) \/ WriteTmp(w) \/ WriteFails(w) \/ Rename(w) \/ AuditAdd(w) \/ Crash(w)
  PROVE  TypeOK'
<1> USE DEF TypeOK, storevars, configvars, Moves
<1>1. CASE FindNoConfig(w)
  BY <1>1 DEF FindNoConfig
<1>2. CASE FindConfig(w)
  BY <1>2 DEF FindConfig
<1>3. CASE OpenConfig(w)
  BY <1>3 DEF OpenConfig
<1>4. CASE FillConfig(w)
  BY <1>4 DEF FillConfig
<1>5. CASE LeaveTruncated(w)
  BY <1>5 DEF LeaveTruncated
<1>6. CASE LoadAndAdd(w)
  <2>1. [OnDisk.store EXCEPT ![job[w]] = w] \in Stores
    BY <1>6, OnDiskType DEF LoadAndAdd, Stores
  <2>2. started' \in Seq(Writers) /\ met' \subseteq Writers
    BY <1>6 DEF LoadAndAdd, Overlaps
  <2> QED BY <1>6, <2>1, <2>2 DEF LoadAndAdd
<1>7. CASE RefuseCorrupt(w)
  BY <1>7 DEF RefuseCorrupt
<1>8. CASE InitStat(w)
  BY <1>8 DEF InitStat
<1>9. CASE InitLoad(w)
  <2>1. started' \in Seq(Writers) /\ met' \subseteq Writers
    BY <1>9 DEF InitLoad, Overlaps
  <2> QED BY <1>9, <2>1, OnDiskType DEF InitLoad
<1>10. CASE InitLoadFails(w)
  BY <1>10 DEF InitLoadFails
<1>11. CASE OpenTmp(w)
  BY <1>11 DEF OpenTmp
<1>12. CASE WriteTmp(w)
  <2>1. Whole(view[w]) \in [parses : {TRUE}, store : Stores]
    BY DEF Whole
  <2>2. content' \in [Writers -> {Torn, Nothing} \cup [parses : {TRUE}, store : Stores]]
    <3> DEFINE Files == {Torn, Nothing} \cup [parses : {TRUE}, store : Stores]
    <3>1. PICK f \in {Torn, Whole(view[w])} : content' = [content EXCEPT ![fd[w]] = f]
      BY <1>12 DEF WriteTmp
    <3>2. f \in Files /\ content \in [Writers -> Files]
      BY <2>1
    <3> HIDE DEF Files
    <3>3. content' \in [Writers -> Files]
      BY <3>1, <3>2
    <3> QED BY <3>3 DEF Files
  <2> QED BY <1>12, <2>2 DEF WriteTmp
<1>13. CASE WriteFails(w)
  BY <1>13 DEF WriteFails
<1>14. CASE Rename(w)
  BY <1>14 DEF Rename
<1>15. CASE AuditAdd(w)
  BY <1>15 DEF AuditAdd
<1>16. CASE Crash(w)
  BY <1>16 DEF Crash
<1> QED BY <1>1, <1>2, <1>3, <1>4, <1>5, <1>6, <1>7, <1>8, <1>9, <1>10, <1>11, <1>12, <1>13,
           <1>14, <1>15, <1>16

LEMMA NextTypes == TypeOK /\ [Next]_vars => TypeOK'
<1> SUFFICES ASSUME TypeOK, [Next]_vars PROVE TypeOK'
  OBVIOUS
<1>1. CASE Next
  BY <1>1, StepTypes DEF Next
<1>2. CASE UNCHANGED vars
  BY <1>2 DEF TypeOK, vars, storevars, configvars
<1> QED BY <1>1, <1>2

\* Every writer and every file is at all times in a state the model gives a meaning.
THEOREM OverrideTypes == Spec => []TypeOK
<1> QED BY InitTypes, NextTypes, PTL DEF Spec

-----------------------------------------------------------------------------
(* config.json *)

LEMMA InitConfig == Init => ConfigInv
BY DEF Init, ConfigInv, Creating, Missing, Truncated

LEMMA NextConfig == TypeOK /\ ConfigInv /\ [Next]_vars => ConfigInv'
<1> SUFFICES ASSUME TypeOK, ConfigInv, [Next]_vars PROVE ConfigInv'
  OBVIOUS
<1> USE DEF TypeOK, storevars, configvars, Moves, ConfigInv, Creating, Missing, Truncated, Keyed
<1>1. ASSUME NEW w \in Writers, FindNoConfig(w) PROVE ConfigInv'
  BY <1>1 DEF FindNoConfig
<1>2. ASSUME NEW w \in Writers, FindConfig(w) PROVE ConfigInv'
  BY <1>2 DEF FindConfig
<1>3. ASSUME NEW w \in Writers, OpenConfig(w) PROVE ConfigInv'
  BY <1>3 DEF OpenConfig
<1>4. ASSUME NEW w \in Writers, FillConfig(w) PROVE ConfigInv'
  BY <1>4 DEF FillConfig
<1>5. ASSUME NEW w \in Writers, LeaveTruncated(w) PROVE ConfigInv'
  BY <1>5 DEF LeaveTruncated
<1>6. ASSUME NEW w \in Writers,
             \/ LoadAndAdd(w) \/ RefuseCorrupt(w) \/ InitStat(w) \/ InitLoad(w) \/ InitLoadFails(w)
      PROVE  ConfigInv'
  BY <1>6 DEF LoadAndAdd, RefuseCorrupt, InitStat, InitLoad, InitLoadFails
<1>7. ASSUME NEW w \in Writers,
             \/ OpenTmp(w) \/ WriteTmp(w) \/ WriteFails(w) \/ Rename(w) \/ AuditAdd(w)
      PROVE  ConfigInv'
  BY <1>7 DEF OpenTmp, WriteTmp, WriteFails, Rename, AuditAdd
<1>8. ASSUME NEW w \in Writers, Crash(w) PROVE ConfigInv'
  BY <1>8 DEF Crash, Saving
<1>9. CASE UNCHANGED vars
  BY <1>9 DEF vars
<1> QED BY <1>1, <1>2, <1>3, <1>4, <1>5, <1>6, <1>7, <1>8, <1>9 DEF Next

\* Whatever later inits do, and wherever they crash, the key of the first one to
\* create config.json stays, unless two created it at the same time; and config.json
\* is in pieces only while an init fills it, or after one was lost at that moment.
THEOREM ConfigAlwaysKept == Spec => []ConfigIsKept
<1>1. ConfigInv => ConfigIsKept
  BY DEF ConfigInv, ConfigIsKept
<1> QED BY <1>1, InitTypes, NextTypes, InitConfig, NextConfig, PTL DEF Spec

-----------------------------------------------------------------------------
(* overrides.json *)

\* A step of a writer that has not loaded the store, and does not load it.
Quiet(w) ==
  /\ pc[w] \in Before /\ pc' = [pc EXCEPT ![w] = pc'[w]]
  /\ pc'[w] \in {"failed", "lost"} \/ (pc'[w] \in Before \cup {"done"} /\ job[w] = "init")
  /\ UNCHANGED storevars

LEMMA QuietSteps ==
  ASSUME TypeOK, OnlyInits, NEW w \in Writers,
         \/ FindNoConfig(w) \/ FindConfig(w) \/ OpenConfig(w) \/ FillConfig(w) \/ LeaveTruncated(w)
         \/ RefuseCorrupt(w) \/ InitStat(w) \/ InitLoadFails(w)
  PROVE  Quiet(w)
<1> USE DEF TypeOK, OnlyInits, Quiet, Before, Moves, storevars, configvars
<1>1. CASE FindNoConfig(w)
  BY <1>1 DEF FindNoConfig
<1>2. CASE FindConfig(w)
  BY <1>2 DEF FindConfig
<1>3. CASE OpenConfig(w) \/ FillConfig(w) \/ LeaveTruncated(w)
  BY <1>3 DEF OpenConfig, FillConfig, LeaveTruncated
<1>4. CASE InitStat(w)
  BY <1>4 DEF InitStat
<1>5. CASE RefuseCorrupt(w) \/ InitLoadFails(w)
  BY <1>5 DEF RefuseCorrupt, InitLoadFails
<1> QED BY <1>1, <1>2, <1>3, <1>4, <1>5

\* What a file or a memory holds for a key is a writer or nothing.
LEMMA Values ==
  ASSUME TypeOK
  PROVE  /\ \A i \in Writers, k \in Keys : content[i].parses => content[i].store[k] \in Writers \cup {None}
         /\ \A w \in Writers, k \in Keys : view[w][k] \in Writers \cup {None}
<1>1. ASSUME NEW i \in Writers, NEW k \in Keys, content[i].parses
      PROVE  content[i].store[k] \in Writers \cup {None}
  <2>1. content[i] \in {Torn, Nothing} \cup [parses : {TRUE}, store : Stores]
    BY DEF TypeOK
  <2>2. content[i] # Torn /\ content[i] # Nothing
    BY <1>1 DEF Torn, Nothing
  <2>3. content[i] \in [parses : {TRUE}, store : Stores]
    BY <2>1, <2>2
  <2> QED BY <2>3 DEF Stores
<1> QED BY <1>1 DEF TypeOK, Stores

\* One more writer loads: those before it keep their places, and it is after them all.
LEMMA Appended ==
  ASSUME NEW order \in Seq(Writers), NEW w \in Writers, Distinct(order), ~Listed(order, w)
  PROVE  /\ Distinct(Append(order, w))
         /\ \A x : Listed(Append(order, w), x) <=> Listed(order, x) \/ x = w
         /\ \A store, k, x :
              Listed(order, x) /\ (store[k] # None => Listed(order, store[k])) /\ NoOlder(order, store, k, x)
                => NoOlder(Append(order, w), store, k, x)
         /\ \A store, k, x : Listed(order, x) /\ store[k] = w => NoOlder(Append(order, w), store, k, x)
<1> DEFINE longer == Append(order, w)
<1>1. /\ Len(order) \in Nat /\ DOMAIN order = 1..Len(order)
      /\ DOMAIN longer = 1..(Len(order) + 1)
      /\ longer[Len(order) + 1] = w
      /\ \A i \in DOMAIN order : longer[i] = order[i]
  OBVIOUS
<1>2. \A i \in DOMAIN longer : i \in DOMAIN order \/ i = Len(order) + 1
  BY <1>1
<1> HIDE DEF longer
<1>3. Distinct(longer)
  BY <1>1, <1>2 DEF Distinct, Listed
<1>4. \A x : Listed(longer, x) <=> Listed(order, x) \/ x = w
  BY <1>1, <1>2 DEF Listed
<1>5. ASSUME NEW x, Listed(order, x)
      PROVE  Place(longer, x) = Place(order, x) /\ Place(order, x) \in 1..Len(order)
  <2>1. Place(order, x) \in DOMAIN order /\ order[Place(order, x)] = x
    BY <1>5 DEF Listed, Place
  <2>2. Place(longer, x) \in DOMAIN longer /\ longer[Place(longer, x)] = x
    BY <1>4, <1>5 DEF Listed, Place
  <2>3. Place(order, x) \in DOMAIN longer /\ longer[Place(order, x)] = x
    BY <1>1, <2>1
  <2> QED BY <1>1, <1>3, <2>1, <2>2, <2>3 DEF Distinct
<1>6. Place(longer, w) = Len(order) + 1
  <2>1. Place(longer, w) \in DOMAIN longer /\ longer[Place(longer, w)] = w
    BY <1>4 DEF Listed, Place
  <2> QED BY <1>1, <1>3, <2>1 DEF Distinct
<1>7. w # None
  BY WritersAssumption
<1>8. ASSUME NEW store, NEW k, NEW x, Listed(order, x),
             store[k] # None => Listed(order, store[k]), NoOlder(order, store, k, x)
      PROVE  NoOlder(longer, store, k, x)
  BY <1>5, <1>8 DEF NoOlder
<1>9. ASSUME NEW store, NEW k, NEW x, Listed(order, x), store[k] = w
      PROVE  NoOlder(longer, store, k, x)
  <2>1. Place(longer, x) \in 1..Len(order)
    BY <1>5, <1>9
  <2> QED BY <1>1, <1>6, <1>7, <1>9, <2>1 DEF NoOlder
<1>10. /\ Distinct(longer)
       /\ \A x : Listed(longer, x) <=> Listed(order, x) \/ x = w
       /\ \A store, k, x :
            Listed(order, x) /\ (store[k] # None => Listed(order, store[k])) /\ NoOlder(order, store, k, x)
              => NoOlder(longer, store, k, x)
       /\ \A store, k, x : Listed(order, x) /\ store[k] = w => NoOlder(longer, store, k, x)
  BY <1>3, <1>4, <1>8, <1>9
<1> QED BY <1>10 DEF longer

LEMMA DiskFacts ==
  ASSUME StoreInv, OnDisk.parses
  PROVE  /\ \A k \in Keys : OnDisk.store[k] \in Writers \cup {None}
         /\ \A k \in Keys : OnDisk.store[k] # None => Explained(OnDisk.store[k])
         /\ Adders(job, started, OnDisk.store)
<1>1. CASE main = None
  BY <1>1 DEF OnDisk, Whole, EmptyStore, Adders
<1>2. CASE main # None
  <2>1. main \in Writers /\ OnDisk = content[main] /\ main # tmp
    BY <1>2 DEF OnDisk, StoreInv, TypeOK, FreshInodes
  <2> QED BY <2>1, Values DEF StoreInv, FilesExplained, OnlyAdders
<1> QED BY <1>1, <1>2

\* An explanation is never lost.
Still == \A v \in Writers : Explained(v) => Explained(v)'

\* Loading, with the view an add or an init takes of what it finds.
Taken(w) == IF job[w] \in Keys THEN [OnDisk.store EXCEPT ![job[w]] = w] ELSE OnDisk.store

Loads(w) ==
  /\ pc[w] \in Before /\ OnDisk.parses
  /\ pc' = [pc EXCEPT ![w] = "open"]
  /\ view' = [view EXCEPT ![w] = Taken(w)]
  /\ Overlaps(w)
  /\ UNCHANGED <<job, fd, main, tmp, content, rows>>

LEMMA LoadSteps ==
  ASSUME OnlyInits, NEW w \in Writers, LoadAndAdd(w) \/ InitLoad(w)
  PROVE  Loads(w)
<1> USE DEF OnlyInits, Before, Moves, Loads, Taken
<1>1. CASE LoadAndAdd(w)
  BY <1>1 DEF LoadAndAdd
<1>2. CASE InitLoad(w)
  BY <1>2, WritersAssumption DEF InitLoad
<1> QED BY <1>1, <1>2

LEMMA LoadKeeps ==
  ASSUME StoreInv, TypeOK', NEW w \in Writers, Loads(w)
  PROVE  StoreInv'
<1> USE DEF StoreInv, Saving, Before
<1>1. /\ pc \in [Writers -> Pcs] /\ view \in [Writers -> Stores] /\ started \in Seq(Writers)
      /\ job \in [Writers -> Keys \cup {"init"}]
  BY DEF TypeOK, Pcs
<1>2. /\ started' = Append(started, w) /\ met \subseteq met'
      /\ w \notin met' => \A v \in Writers \ {w} : ~Saving(v)
      /\ \A v \in Writers \ met' : v # w => ~Saving(v)
  BY DEF Loads, Overlaps
<1>3. pc' = [pc EXCEPT ![w] = "open"] /\ view' = [view EXCEPT ![w] = Taken(w)] /\ OnDisk.parses
      /\ pc[w] \in Before
      /\ UNCHANGED <<job, fd, main, tmp, content, rows>>
  BY DEF Loads
<1>4. OnDisk' = OnDisk
  BY <1>3 DEF OnDisk
<1>5. ~Listed(started, w)
  BY <1>3 DEF StartedOnce
<1>6. /\ Distinct(started')
      /\ \A x : Listed(started', x) <=> Listed(started, x) \/ x = w
      /\ \A store, k, x :
           Listed(started, x) /\ (store[k] # None => Listed(started, store[k]))
             /\ NoOlder(started, store, k, x)
             => NoOlder(started', store, k, x)
      /\ \A store, k, x : Listed(started, x) /\ store[k] = w => NoOlder(started', store, k, x)
  BY <1>1, <1>2, <1>5, Appended DEF StartedOnce
<1>7. \A k \in Keys :
        /\ Taken(w)[k] = IF k = job[w] THEN w ELSE OnDisk.store[k]
        /\ OnDisk.store[k] \in Writers \cup {None}
        /\ OnDisk.store[k] # None => Explained(OnDisk.store[k])
                                     /\ job[OnDisk.store[k]] \in Keys /\ Listed(started, OnDisk.store[k])
  BY DiskFacts, OnDiskType, <1>3 DEF Taken, Stores, Adders
<1>8. Still
  BY <1>1, <1>2, <1>3 DEF Still, Explained
<1>9. OnlyInits' /\ FreshInodes'
  BY <1>1, <1>3 DEF OnlyInits, FreshInodes
<1>10. Alone' /\ OwnFile'
  BY <1>1, <1>2, <1>3 DEF Alone, OwnFile
<1>11. StartedOnce'
  BY <1>1, <1>3, <1>6 DEF StartedOnce
<1>12. OnlyAdders'
  <2>1. ASSUME NEW v \in Writers, Saving(v)' PROVE Adders(job, started', view'[v])
    BY <1>1, <1>3, <1>6, <1>7, <2>1, WritersAssumption DEF OnlyAdders, Adders
  <2> QED BY <1>3, <1>6, <2>1 DEF OnlyAdders, Adders
<1>13. Added'
  BY <1>1, <1>3, <1>7 DEF Added
<1>14. FilesExplained'
  BY <1>1, <1>3, <1>8 DEF FilesExplained, Still
<1>15. ViewsExplained'
  <2>1. ASSUME NEW u \in Writers, NEW v \in Writers, NEW k \in Keys, Saving(u)', view'[u][k] = v, v # u
        PROVE  Explained(v)
    BY <1>1, <1>3, <1>7, <2>1, WritersAssumption DEF ViewsExplained
  <2> QED BY <1>8, <2>1 DEF ViewsExplained, Still
<1>16. Passed'
  <2> SUFFICES ASSUME NEW v \in Writers \ met', Past(v)'
               PROVE  /\ Listed(started', v)
                      /\ OnDisk.parses => NoOlder(started', OnDisk.store, job[v], v)
                      /\ tmp # None /\ content[tmp].parses => NoOlder(started', content[tmp].store, job[v], v)
                      /\ \A u \in Writers : Saving(u)' => NoOlder(started', view'[u], job[v], v)
    BY <1>3, <1>4 DEF Passed
  <2>1. v \in Writers \ met /\ Past(v) /\ v # w
    BY <1>1, <1>2, <1>3 DEF Past
  <2>2. job[v] \in Keys /\ Listed(started, v)
    BY <2>1 DEF Passed, Past
  <2>3. OnDisk.parses => NoOlder(started', OnDisk.store, job[v], v)
    BY <1>6, <1>7, <2>1, <2>2 DEF Passed
  <2>4. tmp # None /\ content[tmp].parses => NoOlder(started', content[tmp].store, job[v], v)
    BY <1>6, <2>1, <2>2 DEF Passed, OnlyAdders, Adders, TypeOK
  <2>5. ASSUME NEW u \in Writers \ {w}, Saving(u)' PROVE NoOlder(started', view'[u], job[v], v)
    <3>1. Saving(u) /\ view'[u] = view[u]
      BY <1>1, <1>3, <2>5
    <3> QED BY <1>6, <2>1, <2>2, <3>1 DEF Passed, OnlyAdders, Adders
  <2>6. NoOlder(started', view'[w], job[v], v)
    <3>1. view'[w] = Taken(w)
      BY <1>1, <1>3
    <3>2. CASE job[v] = job[w]
      BY <1>6, <1>7, <2>2, <3>1, <3>2
    <3>3. CASE job[v] # job[w]
      <4>1. view'[w][job[v]] = OnDisk.store[job[v]]
        BY <1>7, <2>2, <3>1, <3>3
      <4> QED BY <1>3, <2>3, <4>1 DEF NoOlder
    <3> QED BY <3>2, <3>3
  <2> QED BY <1>6, <2>2, <2>3, <2>4, <2>5, <2>6
<1>17. TornOnlyByOverlap'
  BY <1>2, <1>3, <1>4 DEF TornOnlyByOverlap
<1> QED BY <1>9, <1>10, <1>11, <1>12, <1>13, <1>14, <1>15, <1>16, <1>17

\* Steps that leave the files and the memories as they are: a quiet one, a row, a crash.
LEMMA RestingKeeps ==
  ASSUME StoreInv, TypeOK', NEW w \in Writers, Quiet(w) \/ AuditAdd(w) \/ Crash(w)
  PROVE  StoreInv'
<1> USE DEF StoreInv, Saving, Before
<1>1. /\ pc \in [Writers -> Pcs] /\ view \in [Writers -> Stores] /\ fd \in [Writers -> Writers \cup {None}]
      /\ job \in [Writers -> Keys \cup {"init"}] /\ DOMAIN content = Writers
  BY DEF TypeOK, Pcs
<1>2. pc' = [pc EXCEPT ![w] = pc'[w]]
      /\ UNCHANGED <<job, view, fd, main, tmp, content, started, met>>
      /\ rows \subseteq rows'
  BY <1>1 DEF Quiet, AuditAdd, Crash, Moves, storevars
<1>3. /\ pc'[w] \in Before => pc[w] \in Before /\ job[w] = "init"
      /\ ~Saving(w)'
      /\ pc'[w] = "open" => FALSE
  BY <1>1 DEF Quiet, AuditAdd, Crash, Moves
<1>4. Explained(w) => Explained(w)'
  BY <1>1 DEF Quiet, AuditAdd, Crash, Moves, Explained, storevars
<1>5. pc[w] = "rename" => pc'[w] = "crashed"
  BY <1>1 DEF Quiet, AuditAdd, Crash, Moves
<1>6. Past(w)' => Past(w)
  BY <1>1, WritersAssumption DEF Quiet, AuditAdd, Crash, Moves, Past, storevars
<1>7. OnDisk' = OnDisk
  BY <1>2 DEF OnDisk
<1>8. Still
  BY <1>1, <1>2, <1>4 DEF Still, Explained
<1>9. OnlyInits' /\ FreshInodes'
  BY <1>1, <1>2, <1>3 DEF OnlyInits, FreshInodes
<1>10. Alone' /\ OwnFile' /\ Added'
  BY <1>1, <1>2, <1>3 DEF Alone, OwnFile, Added
<1>11. StartedOnce' /\ OnlyAdders'
  BY <1>1, <1>2, <1>3 DEF StartedOnce, OnlyAdders
<1>12. FilesExplained'
  <2> SUFFICES ASSUME NEW i \in Writers, NEW v \in Writers, NEW k \in Keys,
                      content[i].parses, content[i].store[k] = v, ~Explained(v)'
               PROVE  i = tmp /\ pc'[v] = "rename"
    BY <1>2 DEF FilesExplained
  <2>1. ~Explained(v) /\ i = tmp /\ pc[v] = "rename"
    BY <1>8 DEF FilesExplained, Still
  <2>2. v # w
    BY <1>1, <1>2, <1>5, <2>1 DEF Explained
  <2> QED BY <1>1, <1>2, <2>1, <2>2
<1>13. ViewsExplained'
  BY <1>1, <1>2, <1>3, <1>8 DEF ViewsExplained, Still
<1>14. Passed'
  <2>1. \A v \in Writers : Past(v)' => Past(v)
    BY <1>1, <1>2, <1>6 DEF Past
  <2>2. \A v \in Writers : Saving(v)' => Saving(v)
    BY <1>1, <1>2, <1>3
  <2> QED BY <1>2, <1>7, <2>1, <2>2 DEF Passed
<1>15. TornOnlyByOverlap'
  BY <1>2, <1>7 DEF TornOnlyByOverlap
<1> QED BY <1>9, <1>10, <1>11, <1>12, <1>13, <1>14, <1>15

LEMMA OpenTmpKeeps ==
  ASSUME StoreInv, TypeOK', NEW w \in Writers, OpenTmp(w)
  PROVE  StoreInv'
<1> USE DEF StoreInv, Saving, Before
<1>1. /\ pc \in [Writers -> Pcs] /\ view \in [Writers -> Stores] /\ fd \in [Writers -> Writers \cup {None}]
      /\ job \in [Writers -> Keys \cup {"init"}] /\ DOMAIN content = Writers
  BY DEF TypeOK, Pcs
<1>2. PICK inode \in Writers :
        /\ inode = IF tmp = None THEN w ELSE tmp
        /\ tmp' = inode /\ fd' = [fd EXCEPT ![w] = inode] /\ content' = [content EXCEPT ![inode] = Nothing]
        /\ pc[w] = "open" /\ pc' = [pc EXCEPT ![w] = "write"]
        /\ UNCHANGED <<job, view, main, rows, started, met>>
  BY DEF OpenTmp, TypeOK, Moves
<1>3. inode # main /\ inode # None
  BY <1>2, WritersAssumption DEF FreshInodes
<1>4. OnDisk' = OnDisk
  BY <1>1, <1>2, <1>3 DEF OnDisk, TypeOK
<1>5. /\ ~Nothing.parses
      /\ \A i \in Writers : content'[i] = IF i = inode THEN Nothing ELSE content[i]
      /\ \A v \in Writers : Saving(v)' <=> Saving(v)
  BY <1>1, <1>2 DEF Nothing
<1>6. Still
  BY <1>1, <1>2 DEF Still, Explained
<1>7. OnlyInits' /\ FreshInodes'
  BY <1>1, <1>2, <1>3 DEF OnlyInits, FreshInodes
<1>8. Alone' /\ Added'
  BY <1>1, <1>2 DEF Alone, Added
<1>9. OwnFile'
  BY <1>1, <1>2, <1>3, <1>5 DEF OwnFile, Alone
<1>10. StartedOnce' /\ OnlyAdders'
  BY <1>1, <1>2, <1>5 DEF StartedOnce, OnlyAdders
<1>11. FilesExplained'
  <2> SUFFICES ASSUME NEW i \in Writers, NEW v \in Writers, NEW k \in Keys,
                      content'[i].parses, content'[i].store[k] = v
               PROVE  Explained(v)'
    BY DEF FilesExplained
  <2>1. i # inode /\ content'[i] = content[i]
    BY <1>5
  <2>2. i # tmp
    BY <1>2, <2>1, WritersAssumption
  <2> QED BY <1>6, <2>1, <2>2 DEF FilesExplained, Still
<1>12. ViewsExplained'
  BY <1>2, <1>5, <1>6 DEF ViewsExplained, Still
<1>13. Passed'
  <2>1. \A v \in Writers : Past(v)' => Past(v)
    BY <1>1, <1>2 DEF Past
  <2> QED BY <1>2, <1>4, <1>5, <2>1 DEF Passed
<1>14. TornOnlyByOverlap'
  BY <1>2, <1>4 DEF TornOnlyByOverlap
<1> QED BY <1>7, <1>8, <1>9, <1>10, <1>11, <1>12, <1>13, <1>14

\* A write, of the view or, when the disk is full or bytes of another one remain, of
\* something that does not parse; alone, it goes into an empty .tmp.
LEMMA WriteKeeps ==
  ASSUME StoreInv, TypeOK', NEW w \in Writers, WriteTmp(w) \/ WriteFails(w)
  PROVE  StoreInv'
<1> USE DEF StoreInv, Saving, Before
<1>1. /\ pc \in [Writers -> Pcs] /\ view \in [Writers -> Stores] /\ fd \in [Writers -> Writers \cup {None}]
      /\ job \in [Writers -> Keys \cup {"init"}] /\ DOMAIN content = Writers
  BY DEF TypeOK, Pcs
<1>2. PICK bytes \in {Torn, Whole(view[w])} :
        /\ content' = [content EXCEPT ![fd[w]] = bytes]
        /\ pc[w] = "write" /\ pc' = [pc EXCEPT ![w] = pc'[w]] /\ pc'[w] \in {"rename", "failed"}
        /\ w \notin met /\ pc'[w] = "rename" => bytes = Whole(view[w])
        /\ pc'[w] = "failed" => bytes = Torn
        /\ UNCHANGED <<job, view, fd, main, tmp, rows, started, met>>
  <2>1. CASE WriteTmp(w)
    <3>1. w \notin met => content[fd[w]] = Nothing
      BY <2>1 DEF WriteTmp, Moves, OwnFile
    <3> QED BY <1>1, <2>1, <3>1 DEF WriteTmp, Moves
  <2>2. CASE WriteFails(w)
    BY <1>1, <2>2 DEF WriteFails, Moves
  <2> QED BY <2>1, <2>2
<1>3. \A i \in Writers : content'[i] = IF i = fd[w] THEN bytes ELSE content[i]
  BY <1>1, <1>2
<1>4. /\ ~Torn.parses /\ Whole(view[w]).parses /\ Whole(view[w]).store = view[w]
      /\ bytes.parses => bytes.store = view[w]
  BY <1>2 DEF Torn, Whole
<1>5. w \notin met => fd[w] = tmp /\ tmp # None /\ fd[w] # main
  BY <1>2 DEF OwnFile, FreshInodes
<1>6. \A v \in Writers \ met : v # w => ~Saving(v) /\ ~Saving(v)'
  BY <1>1, <1>2 DEF Alone
<1>7. Still
  BY <1>1, <1>2 DEF Still, Explained
<1>8. OnlyInits' /\ FreshInodes'
  BY <1>1, <1>2 DEF OnlyInits, FreshInodes
<1>9. Alone' /\ Added'
  BY <1>1, <1>2 DEF Alone, Added
<1>10. OwnFile'
  <2>1. ASSUME NEW v \in Writers \ met, Saving(v)' PROVE v = w /\ pc'[w] = "rename"
    BY <1>1, <1>2, <1>6, <2>1
  <2>2. w \notin met /\ pc'[w] = "rename" => tmp # None /\ fd[w] = tmp /\ content'[tmp] = Whole(view[w])
    BY <1>2, <1>3, <1>5 DEF TypeOK
  <2> QED BY <1>2, <2>1, <2>2 DEF OwnFile
<1>11. StartedOnce'
  BY <1>1, <1>2 DEF StartedOnce
<1>12. OnlyAdders'
  <2>1. Adders(job, started, view[w])
    BY <1>2 DEF OnlyAdders
  <2>2. \A v \in Writers : Saving(v)' => Saving(v)
    BY <1>1, <1>2
  <2>3. \A i \in Writers : content'[i].parses => Adders(job, started, content'[i].store)
    BY <1>3, <1>4, <2>1 DEF OnlyAdders
  <2> QED BY <1>2, <2>2, <2>3 DEF OnlyAdders
<1>13. FilesExplained'
  <2> SUFFICES ASSUME NEW i \in Writers, NEW v \in Writers, NEW k \in Keys,
                      content'[i].parses, content'[i].store[k] = v, ~Explained(v)'
               PROVE  i = tmp /\ pc'[v] = "rename"
    BY <1>2 DEF FilesExplained
  <2>1. ~Explained(v) /\ v \notin met
    BY <1>7 DEF Still, Explained
  <2>2. CASE i # fd[w]
    <3>1. i = tmp /\ pc[v] = "rename"
      BY <1>3, <2>1, <2>2 DEF FilesExplained
    <3> QED BY <1>1, <1>2, <2>1, <3>1
  <2>3. CASE i = fd[w]
    <3>1. view[w][k] = v
      BY <1>3, <1>4, <2>3
    <3>2. v = w
      BY <1>2, <2>1, <3>1 DEF ViewsExplained
    <3>3. bytes # Torn /\ i = tmp
      BY <1>3, <1>4, <1>5, <2>1, <2>3, <3>2
    <3> QED BY <1>2, <3>2, <3>3
  <2> QED BY <2>2, <2>3
<1>14. ViewsExplained'
  BY <1>1, <1>2, <1>7 DEF ViewsExplained, Still
<1>15. Passed'
  <2> SUFFICES ASSUME NEW v \in Writers \ met, Past(v)'
               PROVE  /\ Listed(started, v)
                      /\ OnDisk'.parses => NoOlder(started, OnDisk'.store, job[v], v)
                      /\ tmp # None /\ content'[tmp].parses
                           => NoOlder(started, content'[tmp].store, job[v], v)
                      /\ \A u \in Writers : Saving(u)' => NoOlder(started, view[u], job[v], v)
    BY <1>2 DEF Passed
  <2>1. Past(v)
    BY <1>1, <1>2 DEF Past
  <2>2. NoOlder(started, view[w], job[v], v)
    BY <1>2, <2>1 DEF Passed
  <2>3. \A i \in Writers : content'[i] = content[i] \/ (content'[i].parses => content'[i].store = view[w])
    BY <1>3, <1>4
  <2>4. OnDisk'.parses => NoOlder(started, OnDisk'.store, job[v], v)
    <3>1. CASE main = None
      BY <1>2, <2>1, <3>1 DEF OnDisk, Passed
    <3>2. CASE main # None
      <4>1. main \in Writers /\ OnDisk' = content'[main] /\ OnDisk = content[main]
        BY <1>2, <3>2 DEF OnDisk, TypeOK
      <4> QED BY <2>1, <2>2, <2>3, <4>1 DEF Passed
    <3> QED BY <3>1, <3>2
  <2>5. tmp # None /\ content'[tmp].parses => NoOlder(started, content'[tmp].store, job[v], v)
    BY <2>1, <2>2, <2>3 DEF Passed, TypeOK
  <2>6. \A u \in Writers : Saving(u)' => Saving(u)
    BY <1>1, <1>2
  <2> QED BY <2>1, <2>4, <2>5, <2>6 DEF Passed
<1>16. TornOnlyByOverlap'
  <2>1. CASE met # {}
    BY <1>2, <2>1 DEF TornOnlyByOverlap
  <2>2. CASE met = {}
    <3>1. OnDisk' = OnDisk
      BY <1>2, <1>3, <1>5, <2>2 DEF OnDisk, TypeOK
    <3> QED BY <1>2, <3>1 DEF TornOnlyByOverlap
  <2> QED BY <2>1, <2>2
<1> QED BY <1>8, <1>9, <1>10, <1>11, <1>12, <1>13, <1>14, <1>15, <1>16

\* The rename that finds no .tmp any more leaves everything as it is; its writer has met another.
LEMMA RenameKeeps ==
  ASSUME StoreInv, TypeOK', NEW w \in Writers, Rename(w)
  PROVE  StoreInv'
<1> USE DEF StoreInv, Saving, Before
<1>1. /\ pc \in [Writers -> Pcs] /\ view \in [Writers -> Stores] /\ fd \in [Writers -> Writers \cup {None}]
      /\ job \in [Writers -> Keys \cup {"init"}] /\ DOMAIN content = Writers
  BY DEF TypeOK, Pcs
<1>2. /\ pc[w] = "rename" /\ pc' = [pc EXCEPT ![w] = pc'[w]]
      /\ \/ tmp # None /\ main' = tmp /\ tmp' = None /\ pc'[w] = IF job[w] = "init" THEN "done" ELSE "audit"
         \/ tmp = None /\ pc'[w] = "failed" /\ UNCHANGED <<main, tmp>>
      /\ UNCHANGED <<job, view, fd, content, rows, started, met>>
  BY <1>1 DEF Rename, Moves
<1>3. \A v \in Writers \ met : v # w => ~Saving(v) /\ ~Saving(v)'
  BY <1>1, <1>2 DEF Alone
<1>4. /\ ~Saving(w)' /\ pc'[w] \notin Before
      /\ \A v \in Writers : Saving(v)' => Saving(v) /\ v # w
      /\ \A v \in Writers : v # w => pc'[v] = pc[v]
  BY <1>1, <1>2
<1>5. w \notin met => tmp # None /\ content[tmp] = Whole(view[w])
  BY <1>2 DEF OwnFile
<1>6. Still
  BY <1>1, <1>2, <1>4 DEF Still, Explained
<1>7. tmp # None => OnDisk' = content[tmp]
  BY <1>2 DEF OnDisk
<1>8. tmp = None => OnDisk' = OnDisk
  BY <1>2 DEF OnDisk
<1>9. OnlyInits'
  BY <1>2, <1>4 DEF OnlyInits
<1>10. FreshInodes'
  <2>1. \A v \in Writers : pc'[v] \in Before \cup {"open"} => pc[v] \in Before \cup {"open"} /\ v # None
    BY <1>2, <1>4, WritersAssumption
  <2> QED BY <1>2, <2>1 DEF FreshInodes
<1>11. Alone' /\ Added'
  BY <1>1, <1>2, <1>4 DEF Alone, Added
<1>12. OwnFile'
  BY <1>2, <1>3, <1>4 DEF OwnFile
<1>13. StartedOnce' /\ OnlyAdders'
  BY <1>2, <1>4 DEF StartedOnce, OnlyAdders
<1>14. FilesExplained'
  <2> SUFFICES ASSUME NEW i \in Writers, NEW v \in Writers, NEW k \in Keys,
                      content[i].parses, content[i].store[k] = v
               PROVE  Explained(v)'
    BY <1>2 DEF FilesExplained
  <2>1. CASE Explained(v)
    BY <1>6, <2>1 DEF Still
  <2>2. CASE ~Explained(v)
    <3>1. pc[v] = "rename" /\ v \notin met
      BY <2>2 DEF FilesExplained, Explained
    <3>2. v = w
      BY <1>3, <3>1
    <3>3. job[w] \in Keys
      BY <3>2, WritersAssumption DEF OnlyAdders, Adders
    <3> QED BY <1>2, <1>5, <3>1, <3>2, <3>3, WritersAssumption DEF Explained
  <2> QED BY <2>1, <2>2
<1>15. ViewsExplained'
  BY <1>2, <1>4, <1>6 DEF ViewsExplained, Still
<1>16. Passed'
  <2> SUFFICES ASSUME NEW v \in Writers \ met, Past(v)'
               PROVE  /\ Listed(started, v)
                      /\ OnDisk'.parses => NoOlder(started, OnDisk'.store, job[v], v)
                      /\ tmp' # None /\ content[tmp'].parses
                           => NoOlder(started, content[tmp'].store, job[v], v)
                      /\ \A u \in Writers : Saving(u)' => NoOlder(started, view[u], job[v], v)
    BY <1>2 DEF Passed
  <2>1. CASE v # w
    <3>1. Past(v)
      BY <1>2, <1>4, <2>1 DEF Past
    <3> QED BY <1>2, <1>4, <1>7, <1>8, <3>1 DEF Passed
  <2>2. CASE v = w
    <3>1. job[w] \in Keys /\ Listed(started, w) /\ view[w][job[w]] = w
      BY <1>2, <2>2 DEF Past, StartedOnce, Added
    <3>2. OnDisk'.store = view[w] /\ tmp' = None
      BY <1>2, <1>5, <1>7, <2>2 DEF Whole
    <3>3. Place(started, w) >= Place(started, w)
      <4>1. Place(started, w) \in DOMAIN started /\ DOMAIN started = 1..Len(started) /\ Len(started) \in Nat
        BY <3>1 DEF Listed, Place, TypeOK
      <4> QED BY <4>1
    <3>4. NoOlder(started, view[w], job[w], w)
      BY <3>1, <3>3, WritersAssumption DEF NoOlder
    <3>5. \A u \in Writers : ~Saving(u)'
      BY <1>2, <1>4, <2>2 DEF Alone
    <3> QED BY <2>2, <3>1, <3>2, <3>4, <3>5
  <2> QED BY <2>1, <2>2
<1>17. TornOnlyByOverlap'
  <2>1. CASE met # {}
    BY <1>2, <2>1 DEF TornOnlyByOverlap
  <2>2. CASE met = {}
    BY <1>2, <1>5, <1>7, <2>2 DEF TornOnlyByOverlap, Whole
  <2> QED BY <2>1, <2>2
<1> QED BY <1>9, <1>10, <1>11, <1>12, <1>13, <1>14, <1>15, <1>16, <1>17

LEMMA InitStore == Init => StoreInv
<1> SUFFICES ASSUME Init PROVE StoreInv
  OBVIOUS
<1> USE DEF Init, StoreInv, Before, Saving
<1>1. TypeOK
  BY InitTypes
<1>2. OnlyInits /\ FreshInodes /\ Alone /\ OwnFile /\ Added
  BY WritersAssumption DEF OnlyInits, FreshInodes, Alone, OwnFile, Added
<1>3. StartedOnce
  BY DEF StartedOnce, Distinct, Listed
<1>4. OnlyAdders /\ FilesExplained /\ ViewsExplained
  BY DEF OnlyAdders, FilesExplained, ViewsExplained, Nothing
<1>5. Passed
  BY DEF Passed, Past
<1>6. TornOnlyByOverlap
  BY DEF TornOnlyByOverlap, OnDisk, Whole
<1> QED BY <1>1, <1>2, <1>3, <1>4, <1>5, <1>6

LEMMA NextStore == StoreInv /\ [Next]_vars => StoreInv'
<1> SUFFICES ASSUME StoreInv, [Next]_vars PROVE StoreInv'
  OBVIOUS
<1>1. TypeOK /\ OnlyInits /\ TypeOK'
  BY NextTypes DEF StoreInv
<1>2. ASSUME NEW w \in Writers,
             \/ FindNoConfig(w) \/ FindConfig(w) \/ OpenConfig(w) \/ FillConfig(w) \/ LeaveTruncated(w)
             \/ RefuseCorrupt(w) \/ InitStat(w) \/ InitLoadFails(w) \/ AuditAdd(w) \/ Crash(w)
      PROVE  StoreInv'
  BY <1>1, <1>2, QuietSteps, RestingKeeps
<1>3. ASSUME NEW w \in Writers, LoadAndAdd(w) \/ InitLoad(w) PROVE StoreInv'
  BY <1>1, <1>3, LoadSteps, LoadKeeps
<1>4. ASSUME NEW w \in Writers, OpenTmp(w) PROVE StoreInv'
  BY <1>1, <1>4, OpenTmpKeeps
<1>5. ASSUME NEW w \in Writers, WriteTmp(w) \/ WriteFails(w) PROVE StoreInv'
  BY <1>1, <1>5, WriteKeeps
<1>6. ASSUME NEW w \in Writers, Rename(w) PROVE StoreInv'
  BY <1>1, <1>6, RenameKeeps
<1>7. CASE UNCHANGED vars
  <2> USE <1>1, <1>7 DEF vars, storevars, StoreInv, Saving, Before
  <2>1. OnDisk' = OnDisk
    BY DEF OnDisk
  <2>2. OnlyInits' /\ FreshInodes' /\ Alone' /\ OwnFile' /\ Added' /\ StartedOnce' /\ OnlyAdders'
    BY DEF OnlyInits, FreshInodes, Alone, OwnFile, Added, StartedOnce, OnlyAdders
  <2>3. FilesExplained' /\ ViewsExplained'
    BY DEF FilesExplained, ViewsExplained, Explained
  <2>4. Passed' /\ TornOnlyByOverlap'
    BY <2>1 DEF Passed, Past, TornOnlyByOverlap
  <2> QED BY <2>2, <2>3, <2>4
<1> QED BY <1>2, <1>3, <1>4, <1>5, <1>6, <1>7 DEF Next

\* However many write at any pace, crash or meet a full disk, overrides.json can fail to
\* parse only after two of them overlapped.
THEOREM NeverTornAlone == Spec => []TornOnlyByOverlap
<1>1. StoreInv => TornOnlyByOverlap
  BY DEF StoreInv
<1> QED BY <1>1, InitStore, NextStore, PTL DEF Spec

\* An add that met no other writer is never lost to what others do later.
THEOREM AddsAlwaysStay == Spec => []UndisturbedAddsStay
<1>1. StoreInv => UndisturbedAddsStay
  <2>1. \A store, k, w : NoOlder(started, store, k, w) <=> Holds(store, k, w)
    BY DEF NoOlder, Holds, Place, Position
  <2> QED BY <2>1 DEF StoreInv, Passed, Past, UndisturbedAddsStay
<1> QED BY <1>1, InitStore, NextStore, PTL DEF Spec

\* No override is in force without its audit row and without a reason for that.
THEOREM UnloggedAlwaysExplained == Spec => []UnloggedIsExplained
<1>1. StoreInv => UnloggedIsExplained
  BY DiskFacts, WritersAssumption DEF StoreInv, UnloggedIsExplained, Explained
<1> QED BY <1>1, InitStore, NextStore, PTL DEF Spec
===============================================================================
