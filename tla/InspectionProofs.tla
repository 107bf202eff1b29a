--------------------------- MODULE InspectionProofs ---------------------------
(***************************************************************************)
(* Proofs about Inspection, for any jobs, registries, limits and clocks:   *)
(* the ceiling of the token buckets, the budgets of the scan and of the    *)
(* MCP lookup, the verdict on the forums, the limits and the judgement of  *)
(* the archive scan, the time a call may take, and what Gate 1 takes for   *)
(* the publication.                                                        *)
(*                                                                         *)
(* A bucket remembers neither its grants nor the rate; what makes the      *)
(* ceiling inductive is that the tokens left and the grants since any of   *)
(* them never add up to more than a full bucket and what accumulated       *)
(* since.  A budget is kept because every step that takes time belongs to  *)
(* the one call or fetch that has the deadline.  The verdict is earned     *)
(* because a hit, once read, is in hand, in a result, or its forum counts  *)
(* as unchecked.                                                           *)
(*                                                                         *)
(* What a scan keeps is charged when it is read, and it keeps of each path *)
(* what some stream leaves there: the only one's, if one alone has the     *)
(* path.  A call is in time because what it has taken is no more than its  *)
(* finished attempts and the waits between them.  A date has been          *)
(* published because each date in a document that several answers were     *)
(* decoded into is one that one of them gave for that version.             *)
(***************************************************************************)
EXTENDS Inspection, DataInduction

-----------------------------------------------------------------------------
(* The bucket. *)

Full == Burst * Period
Tokens(k) == k * Period

\* The tokens left and the grants since the i-th fit in the bucket and what came since.
Accounted(i) ==
  /\ grants[i] \in Nat /\ grants[i] <= last
  /\ tokens + Tokens(Len(grants) - i + 1) <= Full + (last - grants[i])

BucketInv ==
  /\ now \in Nat /\ last \in Nat /\ last <= now
  /\ tokens \in Int /\ tokens <= Full
  /\ grants \in Seq(Nat)
  /\ \A i \in 1..Len(grants) : Accounted(i)
  /\ GrantsKeepCeiling

\* A full bucket holds a token.
LEMMA BucketSize == Period \in Nat /\ Full \in Nat /\ Period <= Full
<1>1. Burst \in Nat /\ Period \in Nat /\ Burst > 0 /\ Period > 0
  BY BucketAssumption
<1>2. (Burst - 1) * Period >= 0
  BY <1>1
<1>3. Burst * Period = (Burst - 1) * Period + Period
  BY <1>1
<1> QED BY <1>1, <1>2, <1>3 DEF Full

\* Multiplying by Period, spelled out for the solver.
LEMMA Periods ==
  ASSUME NEW k \in Int
  PROVE  /\ Tokens(k) \in Int /\ Tokens(k + 1) = Tokens(k) + Period
         /\ (k - Burst) * Period = Tokens(k) - Full
BY BucketAssumption DEF Tokens, Full

LEMMA OneToken == Tokens(1) = Period
BY BucketAssumption DEF Tokens

\* What has accumulated is no more than the time since allows.
LEMMA RefilledIsBounded ==
  ASSUME BucketInv
  PROVE  Refilled \in Int /\ Refilled <= Full /\ Refilled <= tokens + (now - last)
BY BucketSize DEF BucketInv, Refilled, Full

\* A grant keeps the account, and the ceiling with every grant before it.
LEMMA WaitKeepsCeiling ==
  ASSUME BucketInv, Wait
  PROVE  BucketInv' /\ now <= now'
<1> DEFINE wait == IF Refilled >= Period THEN 0 ELSE Period - Refilled
           n == Len(grants)
<1>1. /\ now' = now + wait /\ last' = now + wait
      /\ tokens' = Refilled - Period /\ grants' = Append(grants, now + wait)
  BY DEF Wait
<1>2. Refilled \in Int /\ Refilled <= Full /\ Refilled <= tokens + (now - last)
  BY RefilledIsBounded
<1>3. wait \in Nat /\ Refilled - Period + wait >= 0 /\ now \in Nat /\ n \in Nat
  BY <1>2, BucketSize DEF BucketInv
<1>4. /\ grants' \in Seq(Nat) /\ Len(grants') = n + 1 /\ grants'[n + 1] = now + wait
      /\ \A i \in 1..n : grants'[i] = grants[i]
  BY <1>1, <1>3 DEF BucketInv
<1>5. ASSUME NEW i \in 1..n
      PROVE  /\ n - i + 1 \in Int /\ n + 1 - i + 1 = (n - i + 1) + 1
             /\ Tokens(n - i + 1) \in Int
             /\ grants[i] \in Nat /\ grants[i] <= now
             /\ Refilled + Tokens(n - i + 1) <= Full + (now - grants[i])
  <2>1. Accounted(i) /\ n - i + 1 \in Int /\ n + 1 - i + 1 = (n - i + 1) + 1
    BY <1>3 DEF BucketInv
  <2>2. now \in Nat /\ last \in Nat /\ last <= now /\ tokens \in Int
    BY DEF BucketInv
  <2>3. Tokens(n - i + 1) \in Int
    BY <2>1, Periods
  <2> QED BY <2>1, <2>2, <2>3, <1>2, BucketSize DEF Accounted
<1> HIDE DEF wait, n
<1>6. /\ now' \in Nat /\ last' \in Nat /\ last' <= now' /\ now <= now'
      /\ tokens' \in Int /\ tokens' <= Full
  BY <1>1, <1>2, <1>3, BucketSize
<1>7. ASSUME NEW i \in 1..(n + 1)
      PROVE  Accounted(i)'
  <2>1. CASE i = n + 1
    <3>1. Len(grants') - i + 1 = 1
      BY <2>1, <1>3, <1>4
    <3>2. tokens' + Period <= Full + (last' - grants'[i])
      BY <2>1, <1>1, <1>2, <1>3, <1>4, BucketSize
    <3>3. Tokens(Len(grants') - i + 1) = Period
      BY ONLY <3>1, OneToken, Zenon
    <3>4. grants'[i] \in Nat /\ grants'[i] <= last'
      BY <2>1, <1>1, <1>3, <1>4
    <3> QED BY <3>2, <3>3, <3>4 DEF Accounted
  <2>2. CASE i \in 1..n
    <3> DEFINE k == n - i + 1
               x == Tokens(k)
    <3>1. k \in Int /\ Len(grants') - i + 1 = k + 1
      BY <2>2, <1>3, <1>4
    <3>2. Refilled + x <= Full + (now - grants[i]) /\ grants[i] \in Nat /\ grants[i] <= now
      BY <1>5, <2>2
    <3> HIDE DEF k
    <3>5. x \in Int /\ Tokens(k + 1) = x + Period
      BY <3>1, Periods
    <3>6. Tokens(Len(grants') - i + 1) = x + Period
      BY ONLY <3>1, <3>5, Zenon
    <3> HIDE DEF x
    <3>3. tokens' + (x + Period) <= Full + (last' - grants[i]) /\ grants[i] <= last'
      BY <1>1, <1>2, <1>3, <3>2, <3>5, BucketSize
    <3>4. grants'[i] = grants[i]
      BY <1>4, <2>2
    <3> QED BY <3>2, <3>3, <3>4, <3>6 DEF Accounted
  <2> QED BY <1>3, <2>1, <2>2
<1>8. GrantsKeepCeiling'
  <2> SUFFICES ASSUME NEW i \in 1..(n + 1), NEW j \in 1..(n + 1), i <= j
               PROVE  ((j - i + 1) - Burst) * Period <= grants'[j] - grants'[i]
    BY <1>3, <1>4 DEF GrantsKeepCeiling
  <2> DEFINE m == j - i + 1
  <2>m. m \in Int /\ m = j - i + 1
    BY <1>3
  <2> SUFFICES (m - Burst) * Period <= grants'[j] - grants'[i]
    OBVIOUS
  <2> HIDE DEF m
  <2>1. CASE j \in 1..n
    <3>1. i \in 1..n /\ DOMAIN grants = 1..n
      BY <2>1, <1>3 DEF BucketInv, n
    <3>2. (m - Burst) * Period <= grants[j] - grants[i]
      BY <2>1, <3>1 DEF BucketInv, GrantsKeepCeiling, m
    <3> QED BY <2>1, <3>1, <3>2, <1>4
  <2>2. CASE i = n + 1
    <3>1. j = i /\ m = 1
      BY <2>2, <2>m, <1>3
    <3>2. (1 - Burst) * Period = Tokens(1) - Full
      BY Periods
    <3>3. (m - Burst) * Period = Period - Full
      BY ONLY <3>1, <3>2, OneToken, Zenon
    <3>4. grants'[j] - grants'[i] = 0
      BY <2>2, <3>1, <1>3, <1>4
    <3> QED BY <3>3, <3>4, BucketSize
  <2>3. CASE i \in 1..n /\ j = n + 1
    <3> DEFINE k == n - i + 1
               x == Tokens(k)
    <3>1. k \in Int /\ k + 1 \in Int /\ m = k + 1
      BY <2>3, <2>m, <1>3
    <3>2. Refilled + x <= Full + (now - grants[i]) /\ grants[i] \in Nat /\ x \in Int
      BY <1>5, <2>3
    <3>3. grants'[j] = now + wait /\ grants'[i] = grants[i]
      BY <1>4, <2>3
    <3> HIDE DEF k
    <3>4. Tokens(m) = x + Period
      <4>1. Tokens(k + 1) = x + Period
        BY <3>1, Periods
      <4> QED BY ONLY <4>1, <3>1, Zenon
    <3>5. (m - Burst) * Period = Tokens(m) - Full
      BY <2>m, Periods
    <3> HIDE DEF x
    <3>6. (x + Period) - Full <= (now + wait) - grants[i]
      BY <1>2, <1>3, <3>2, BucketSize
    <3> QED BY <3>3, <3>4, <3>5, <3>6
  <2> QED BY <1>3, <2>1, <2>2, <2>3
<1> QED BY <1>4, <1>6, <1>7, <1>8 DEF BucketInv

\* Whatever else takes time leaves the bucket as it is.
LEMMA OtherStepsKeepCeiling ==
  ASSUME BucketInv, UNCHANGED bucketvars, now' \in Nat, now <= now'
  PROVE  BucketInv'
<1>1. tokens' = tokens /\ last' = last /\ grants' = grants
  BY DEF bucketvars
<1>2. last' <= now'
  BY <1>1 DEF BucketInv
<1> QED BY <1>1, <1>2 DEF BucketInv, GrantsKeepCeiling, Accounted

-----------------------------------------------------------------------------
(* The budgets. *)

\* A call of GetJSON: an attempt there is a backoff for, and at most one deadline.
CallOK(g) ==
  /\ {"pc", "attempt", "deadline"} \subseteq DOMAIN g
  /\ g.attempt \in 0..MaxRetries /\ (g.pc = "backoff" => g.attempt # 0)
  /\ g.deadline \subseteq Nat /\ \A s, t \in g.deadline : s = t

ArtifactOK(m) == {"pc", "began"} \subseteq DOMAIN m /\ m.began \in Nat

\* Whoever has a call in hand waits for it, and while Gate 8 locates the call has the
\* deadline of the scan.
BudgetInv ==
  /\ CallOK(get) /\ ArtifactOK(me)
  /\ get.pc # "idle" => me.pc \in {"resolving", "locating"}
  /\ me.pc = "locating" => get.deadline = {Deadline}
  /\ InBudget

LookupInv == BucketInv /\ BudgetInv

LEMMA NoCall == CallOK(NoGet) /\ NoGet.pc = "idle"
BY ClientAssumption DEF CallOK, NoGet

LEMMA FreshArtifact ==
  ASSUME NEW n
  PROVE  ArtifactOK(Fresh(n)) /\ Fresh(n).pc = "resolve"
BY DEF ArtifactOK, Fresh

\* An artifact that is decided has no call in hand and no deadline to keep.
LEMMA DecidedIsIdle ==
  ASSUME Decided
  PROVE  /\ get' = NoGet /\ ArtifactOK(me')
         /\ me'.pc \in {"resolve", "forums", "done"}
BY DEF Decided, Fresh, ArtifactOK

LEMMA NewCall ==
  ASSUME NEW url, NEW deadline, deadline \subseteq Nat, \A s, t \in deadline : s = t,
         Call(url, deadline)
  PROVE  CallOK(get') /\ get'.pc = "send" /\ get'.deadline = deadline
BY ClientAssumption DEF Call, CallOK, NoGet

LEMMA FailureKeepsDeadline ==
  ASSUME NEW g, CallOK(g), NEW err, Failed(g, err)
  PROVE  CallOK(get') /\ get'.deadline = g.deadline /\ get'.pc # "idle"
<1>1. {"pc", "attempt", "deadline"} \subseteq DOMAIN g
  BY DEF CallOK
<1>2. CASE Returns(g, err)
  <2>1. /\ get' = [g EXCEPT !.pc = "done", !.err = err] /\ DOMAIN get' = DOMAIN g
        /\ get'.pc = "done" /\ get'.attempt = g.attempt /\ get'.deadline = g.deadline
    BY <1>1, <1>2 DEF Returns
  <2> QED BY <1>1, <2>1 DEF CallOK
<1>3. CASE g.attempt # MaxRetries /\ get' = [g EXCEPT !.pc = "backoff", !.attempt = @ + 1]
  <2>1. /\ DOMAIN get' = DOMAIN g
        /\ get'.pc = "backoff" /\ get'.attempt = g.attempt + 1 /\ get'.deadline = g.deadline
    BY <1>1, <1>3
  <2>2. g.attempt \in 0..MaxRetries /\ MaxRetries \in Nat
    BY ClientAssumption DEF CallOK
  <2>3. g.attempt + 1 \in 0..MaxRetries /\ g.attempt + 1 # 0
    BY <1>3, <2>2
  <2> QED BY <1>1, <2>1, <2>3 DEF CallOK
<1> QED BY <1>2, <1>3 DEF Failed

\* What an answer adds to a call has nothing to do with its deadline.
LEMMA AnswerKeepsDeadline ==
  ASSUME CallOK(get), NEW doc, NEW at
  PROVE  LET g == [get EXCEPT !.doc = doc, !.at = at] IN
         CallOK(g) /\ g.deadline = get.deadline
<1> DEFINE g == [get EXCEPT !.doc = doc, !.at = at]
<1>1. /\ DOMAIN g = DOMAIN get
      /\ g.pc = get.pc /\ g.attempt = get.attempt /\ g.deadline = get.deadline
  BY DEF CallOK
<1> HIDE DEF g
<1>2. CallOK(g) /\ g.deadline = get.deadline
  BY <1>1 DEF CallOK
<1> QED BY <1>2 DEF g

\* Every step of a call ends by its deadline.
LEMMA FetchingKeepsBudget ==
  ASSUME LookupInv, Fetching
  PROVE  BudgetInv' /\ now' \in Nat /\ now <= now' /\ UNCHANGED bucketvars
<1> DEFINE Timely == /\ now' \in Nat /\ now <= now' /\ \A t \in get.deadline : now' <= t
           Kept == CallOK(get') /\ get'.deadline = get.deadline /\ get'.pc # "idle"
           Ended == Timely /\ Kept /\ get.pc # "idle"
<1>1. /\ now \in Nat /\ CallOK(get) /\ ArtifactOK(me) /\ me' = me
      /\ get.deadline \subseteq Nat /\ \A s, t \in get.deadline : s = t
      /\ Durations \subseteq Nat /\ UNCHANGED bucketvars
  BY ClientAssumption DEF LookupInv, BucketInv, BudgetInv, CallOK, Fetching
<1>2. ASSUME get.pc # "idle" PROVE \A t \in get.deadline : now <= t
  BY <1>2 DEF LookupInv, BudgetInv, InBudget
<1>3. ASSUME NEW d \in Durations, ~Cut(d), Elapse(d) PROVE Timely
  BY <1>1, <1>3 DEF Cut, Elapse
<1>4. ASSUME get.pc # "idle", now' \in get.deadline PROVE Timely
  BY <1>1, <1>2, <1>4
<1>5. ASSUME AttemptFails PROVE Ended
  <2>1. PICK err : Failed(get, err)
    BY <1>5 DEF AttemptFails
  <2> QED BY <1>1, <1>3, <1>5, <2>1, FailureKeepsDeadline DEF AttemptFails
<1>6. ASSUME AttemptCut PROVE Ended
  <2>1. get.pc = "send" /\ now' \in get.deadline /\ Failed(get, "unreachable")
    BY <1>6 DEF AttemptCut
  <2> QED BY <1>1, <1>4, <2>1, FailureKeepsDeadline
<1>7. ASSUME BackOff PROVE Ended
  <2>1. get.pc = "backoff" /\ get.attempt \in 1..MaxRetries
    BY <1>1, <1>7, ClientAssumption DEF BackOff, CallOK
  <2>2. PICK d \in Backoff[get.attempt] :
          IF Cut(d) THEN now' \in get.deadline /\ Returns(get, "unreachable")
                    ELSE Elapse(d) /\ get' = [get EXCEPT !.pc = "send"]
    BY <1>7 DEF BackOff
  <2>3. d \in Nat
    BY <2>1, ClientAssumption
  <2>4. /\ get'.pc # "idle" /\ get'.pc # "backoff" /\ DOMAIN get' = DOMAIN get
        /\ get'.attempt = get.attempt /\ get'.deadline = get.deadline
    BY <1>1, <2>2 DEF Returns, CallOK
  <2>5. Kept
    BY <1>1, <2>4 DEF CallOK
  <2>6. Timely
    BY <1>1, <1>4, <2>1, <2>2, <2>3 DEF Cut, Elapse
  <2> QED BY <2>1, <2>5, <2>6
<1>8. ASSUME AttemptMistyped(Served, Lists) PROVE Ended
  <2>1. PICK fields \in SUBSET {"tags", "dates"} :
          Failed([get EXCEPT !.doc = Decode(@, Served, fields, Lists),
                             !.at = @ \cup {registry}], "unparsable")
    BY <1>8 DEF AttemptMistyped
  <2> DEFINE g == [get EXCEPT !.doc = Decode(@, Served, fields, Lists), !.at = @ \cup {registry}]
  <2>2. CallOK(g) /\ g.deadline = get.deadline
    BY <1>1, AnswerKeepsDeadline
  <2>3. Kept
    <3> HIDE DEF g
    <3> QED BY <2>1, <2>2, FailureKeepsDeadline DEF g
  <2>4. get.pc = "send" /\ Timely
    BY <1>3, <1>8 DEF AttemptMistyped
  <2> QED BY <2>3, <2>4
<1>9. ASSUME AttemptAnswers(Served, Lists) PROVE Ended
  <2> DEFINE g == [get EXCEPT !.doc = Decode(@, Served, {"tags", "dates"}, Lists),
                              !.at = @ \cup {registry}]
  <2>1. get.pc = "send" /\ Timely /\ Returns(g, "none")
    BY <1>3, <1>9 DEF AttemptAnswers
  <2>2. CallOK(g) /\ g.deadline = get.deadline
    BY <1>1, AnswerKeepsDeadline
  <2> HIDE DEF g
  <2>3. /\ get'.pc = "done" /\ DOMAIN get' = DOMAIN g
        /\ get'.attempt = g.attempt /\ get'.deadline = g.deadline
    BY <2>1, <2>2 DEF Returns, CallOK
  <2>4. Kept
    BY <2>2, <2>3 DEF CallOK
  <2> QED BY <2>1, <2>4
<1>10. Ended
  BY <1>5, <1>6, <1>7, <1>8, <1>9 DEF Fetching
<1>11. me.pc \in {"resolving", "locating"} /\ (me.pc = "locating" => get.deadline = {Deadline})
  BY <1>10 DEF LookupInv, BudgetInv
<1>12. Deadline' = Deadline
  BY <1>1 DEF Deadline
<1>13. InBudget'
  BY <1>1, <1>10, <1>11, <1>12 DEF InBudget
<1> QED BY <1>1, <1>10, <1>11, <1>12, <1>13 DEF BudgetInv

\* Without a call in hand, only a scan has a deadline.
LEMMA IdleKeepsBudget ==
  ASSUME CallOK(get'), get'.pc = "idle", ArtifactOK(me'), me'.pc \notin {"locating", "fetch"}
  PROVE  BudgetInv'
BY DEF BudgetInv, InBudget

LEMMA DecidedKeepsBudget ==
  ASSUME Decided
  PROVE  BudgetInv'
BY IdleKeepsBudget, DecidedIsIdle, NoCall

\* A call that Gate 1 makes; that of an MCP server has a deadline.
LEMMA AskRegistryKeepsBudget ==
  ASSUME LookupInv, AskRegistry
  PROVE  BudgetInv'
<1> DEFINE deadline == IF job.eco = "mcp" THEN {now + EnrichTimeout} ELSE {}
<1>1. /\ now \in Nat /\ now' = now /\ ArtifactOK(me) /\ Call(FirstUrl, deadline)
      /\ me' = [me EXCEPT !.pc = "resolving", !.wanted = job.version]
  BY DEF LookupInv, BucketInv, BudgetInv, AskRegistry
<1>2. /\ deadline \subseteq Nat /\ \A s, t \in deadline : s = t
      /\ \A t \in deadline : now <= t
  BY <1>1, InspectionAssumption
<1> HIDE DEF deadline
<1>3. CallOK(get') /\ get'.deadline = deadline
  BY <1>1, <1>2, NewCall
<1>4. me'.pc = "resolving" /\ ArtifactOK(me')
  BY <1>1 DEF ArtifactOK
<1> QED BY <1>1, <1>2, <1>3, <1>4 DEF BudgetInv, InBudget

\* A second question of Gate 1 has no deadline at all.
LEMMA ResolveEndsKeepsBudget ==
  ASSUME LookupInv, ResolveEnds
  PROVE  BudgetInv'
<1>1. ArtifactOK(me) /\ me.pc = "resolving"
  BY DEF LookupInv, BudgetInv, ResolveEnds
<1>2. CASE AskAgain({})
  <2>1. CallOK(get') /\ get'.deadline = {}
    BY <1>2, NewCall DEF AskAgain
  <2>2. me'.pc = "resolving" /\ ArtifactOK(me')
    BY <1>1, <1>2 DEF AskAgain, ArtifactOK
  <2> QED BY <2>1, <2>2 DEF BudgetInv, InBudget
<1>3. CASE Resolved(Key, Max(get.doc.dates[Key]), Seen)
  <2>1. get' = NoGet /\ me'.pc = "dated" /\ ArtifactOK(me')
    BY <1>1, <1>3 DEF Resolved, ArtifactOK
  <2> QED BY <2>1, NoCall, IdleKeepsBudget
<1>4. CASE Decided
  BY <1>4, DecidedKeepsBudget
<1> QED BY <1>2, <1>3, <1>4 DEF ResolveEnds

\* The scan begins when its budget does.
LEMMA StartScanKeepsBudget ==
  ASSUME LookupInv, StartScan
  PROVE  BudgetInv'
<1>1. /\ now \in Nat /\ now' = now /\ ArtifactOK(me) /\ me.pc = "locate"
      /\ CallOK(get) /\ get.pc = "idle" /\ Budget \in Nat
  BY InspectionAssumption DEF LookupInv, BucketInv, BudgetInv, StartScan
<1>2. CASE Decided
  BY <1>2, DecidedKeepsBudget
<1>3. CASE /\ me' = [me EXCEPT !.pc = "fetch", !.began = now, !.located = job.version]
           /\ get' = get
  <2>1. me'.pc = "fetch" /\ me'.began = now /\ ArtifactOK(me')
    BY <1>1, <1>3 DEF ArtifactOK
  <2> QED BY <1>1, <1>3, <2>1 DEF BudgetInv, InBudget, Deadline
<1>4. CASE /\ me' = [me EXCEPT !.pc = "locating", !.began = now]
           /\ Call(FirstUrl, {now + Budget})
  <2>1. me'.pc = "locating" /\ me'.began = now /\ ArtifactOK(me')
    BY <1>1, <1>4 DEF ArtifactOK
  <2>2. {now + Budget} \subseteq Nat
    BY <1>1
  <2>3. CallOK(get') /\ get'.deadline = {now + Budget}
    BY <1>4, <2>2, NewCall
  <2>4. Deadline' = now + Budget /\ now <= now + Budget
    BY <1>1, <2>1 DEF Deadline
  <2> QED BY <1>1, <2>1, <2>3, <2>4 DEF BudgetInv, InBudget
<1> QED BY <1>2, <1>3, <1>4 DEF StartScan

\* Whatever Gate 8 asks again has the deadline of its first question.
LEMMA LocateEndsKeepsBudget ==
  ASSUME LookupInv, LocateEnds
  PROVE  BudgetInv'
<1>1. /\ now \in Nat /\ now' = now /\ ArtifactOK(me) /\ me.pc = "locating"
      /\ Deadline \in Nat /\ now <= Deadline
  BY InspectionAssumption DEF LookupInv, BucketInv, BudgetInv, InBudget, LocateEnds, ArtifactOK, Deadline
<1>2. CASE AskAgain({Deadline})
  <2>1. CallOK(get') /\ get'.deadline = {Deadline}
    BY <1>1, <1>2, NewCall DEF AskAgain
  <2>2. me'.pc = "locating" /\ me'.began = me.began /\ ArtifactOK(me')
    BY <1>1, <1>2 DEF AskAgain, ArtifactOK
  <2>3. Deadline' = Deadline
    BY <2>2 DEF Deadline
  <2> QED BY <1>1, <2>1, <2>2, <2>3 DEF BudgetInv, InBudget
<1>3. CASE /\ me' = [me EXCEPT !.pc = "fetch", !.located = Target(get.doc)]
           /\ get' = NoGet
  <2>1. me'.pc = "fetch" /\ me'.began = me.began /\ ArtifactOK(me')
    BY <1>1, <1>3 DEF ArtifactOK
  <2>2. Deadline' = Deadline
    BY <2>1 DEF Deadline
  <2> QED BY <1>1, <1>3, <2>1, <2>2, NoCall DEF BudgetInv, InBudget
<1>4. CASE Decided
  BY <1>4, DecidedKeepsBudget
<1> QED BY <1>2, <1>3, <1>4 DEF LocateEnds

\* A fetch ends by the deadline, or with it.
LEMMA FetchKeepsBudget ==
  ASSUME LookupInv, Fetch \/ FetchFails
  PROVE  BudgetInv' /\ now' \in Nat /\ now <= now' /\ UNCHANGED bucketvars
<1>0. me.pc = "fetch"
  BY DEF Fetch, FetchFails
<1>1. /\ now \in Nat /\ CallOK(get) /\ get.pc = "idle" /\ Durations \subseteq Nat
      /\ Deadline \in Nat /\ now <= Deadline
  <2>1. now \in Nat /\ CallOK(get) /\ get.pc = "idle" /\ now <= Deadline /\ me.began \in Nat
    BY <1>0 DEF LookupInv, BucketInv, BudgetInv, InBudget, ArtifactOK
  <2>2. Durations \subseteq Nat /\ Budget \in Nat
    BY ClientAssumption, InspectionAssumption
  <2> QED BY <2>1, <2>2 DEF Deadline
<1>2. CASE Fetch
  <2>1. PICK d \in Durations : now' = now + d
    BY <1>2 DEF Fetch, Elapse
  <2>2. me'.pc = "scan" /\ ArtifactOK(me') /\ get' = get /\ UNCHANGED bucketvars
    BY <1>2 DEF Fetch, Fresh, ArtifactOK
  <2> QED BY <1>1, <2>1, <2>2, IdleKeepsBudget
<1>3. CASE FetchFails
  <2>1. PICK d \in Durations : now' = IF now + d <= Deadline THEN now + d ELSE Deadline
    BY <1>3 DEF FetchFails
  <2>2. Decided /\ UNCHANGED bucketvars
    BY <1>3 DEF FetchFails
  <2> QED BY <1>1, <2>1, <2>2, DecidedKeepsBudget
<1> QED BY <1>2, <1>3

\* What takes no time and starts no call.
LEMMA OtherStepsKeepBudget ==
  ASSUME LookupInv,
         \/ ResolveUnasked \/ TakeToken \/ Judged \/ Scanning \/ ScanEnds \/ Foruming
         \/ RegistryChanges
  PROVE  BudgetInv'
<1>1. now \in Nat /\ CallOK(get) /\ ArtifactOK(me)
  BY DEF LookupInv, BucketInv, BudgetInv
<1>2. CASE ResolveUnasked
  <2>1. CASE Decided
    BY <2>1, DecidedKeepsBudget
  <2>2. CASE Resolved(None, 0, {})
    <3>1. get' = NoGet /\ me'.pc = "dated" /\ ArtifactOK(me')
      BY <1>1, <2>2 DEF Resolved, ArtifactOK
    <3> QED BY <3>1, NoCall, IdleKeepsBudget
  <2> QED BY <1>2, <2>1, <2>2 DEF ResolveUnasked
<1>3. CASE TakeToken
  <2>1. get.pc = "idle" /\ get' = get /\ me'.pc = "governed" /\ ArtifactOK(me')
    BY <1>1, <1>3 DEF TakeToken, LookupInv, BudgetInv, ArtifactOK
  <2> QED BY <1>1, <2>1, IdleKeepsBudget
<1>4. CASE Judged
  <2>1. CASE Decided
    BY <2>1, DecidedKeepsBudget
  <2>2. CASE me' = [me EXCEPT !.pc = "locate"] /\ get' = get
    <3>1. get.pc = "idle" /\ me'.pc = "locate" /\ ArtifactOK(me')
      BY <1>1, <1>4, <2>2 DEF Judged, LookupInv, BudgetInv, ArtifactOK
    <3> QED BY <1>1, <2>2, <3>1, IdleKeepsBudget
  <2> QED BY <1>4, <2>1, <2>2 DEF Judged
<1>5. CASE Scanning
  <2>1. get' = get /\ me' = me /\ now' = now
    BY <1>5 DEF Scanning
  <2> QED BY <2>1 DEF LookupInv, BudgetInv, InBudget, CallOK, ArtifactOK, Deadline
<1>6. CASE ScanEnds
  BY <1>6, DecidedKeepsBudget DEF ScanEnds
<1>7. CASE Foruming
  <2>1. me.pc = "forums" /\ get.pc = "idle" /\ get' = get
    BY <1>7 DEF Foruming, LookupInv, BudgetInv
  <2>2. me'.pc \in {"forums", "done"} /\ ArtifactOK(me')
    BY <1>1, <1>7, <2>1 DEF Foruming, ArtifactOK
  <2> QED BY <1>1, <2>1, <2>2, IdleKeepsBudget
<1>8. CASE RegistryChanges
  <2>1. /\ get' = get /\ now' = now /\ DOMAIN me' = DOMAIN me
        /\ me'.pc = me.pc /\ me'.began = me.began
    BY <1>1, <1>8 DEF RegistryChanges, ArtifactOK
  <2> QED BY <2>1 DEF LookupInv, BudgetInv, InBudget, CallOK, ArtifactOK, Deadline
<1> QED BY <1>2, <1>3, <1>4, <1>5, <1>6, <1>7, <1>8

-----------------------------------------------------------------------------
LEMMA InitiallyInBudget == Init => LookupInv
<1> SUFFICES ASSUME Init PROVE LookupInv
  OBVIOUS
<1>1. BucketInv
  BY BucketSize DEF Init, BucketInit, BucketInv, GrantsKeepCeiling, Full
<1>2. BudgetInv
  BY NoCall, FreshArtifact DEF Init, BudgetInv, InBudget
<1> QED BY <1>1, <1>2 DEF LookupInv

LEMMA StepsKeepBudget == LookupInv /\ [Next]_vars => LookupInv'
<1> SUFFICES ASSUME LookupInv, [Next]_vars PROVE LookupInv'
  OBVIOUS
<1>1. now \in Nat /\ BucketInv
  BY DEF LookupInv, BucketInv
<1>2. ASSUME UNCHANGED <<now, bucketvars>> PROVE BucketInv'
  BY <1>1, <1>2, OtherStepsKeepCeiling
<1>3. CASE Fetching
  BY <1>1, <1>3, FetchingKeepsBudget, OtherStepsKeepCeiling DEF LookupInv
<1>4. CASE Fetch \/ FetchFails
  BY <1>1, <1>4, FetchKeepsBudget, OtherStepsKeepCeiling DEF LookupInv
<1>5. CASE TakeToken
  BY <1>1, <1>5, WaitKeepsCeiling, OtherStepsKeepBudget DEF LookupInv, TakeToken
<1>6. CASE \/ ResolveUnasked \/ Judged \/ Scanning \/ ScanEnds \/ Foruming \/ RegistryChanges
  <2>1. UNCHANGED <<now, bucketvars>>
    BY <1>6 DEF ResolveUnasked, Judged, Scanning, ScanEnds, Foruming, RegistryChanges
  <2> QED BY <1>2, <1>6, <2>1, OtherStepsKeepBudget DEF LookupInv
<1>7. CASE AskRegistry \/ ResolveEnds \/ StartScan \/ LocateEnds
  <2>1. UNCHANGED <<now, bucketvars>>
    BY <1>7 DEF AskRegistry, ResolveEnds, StartScan, LocateEnds
  <2>2. BudgetInv'
    BY <1>7, AskRegistryKeepsBudget, ResolveEndsKeepsBudget, StartScanKeepsBudget, LocateEndsKeepsBudget
  <2> QED BY <1>2, <2>1, <2>2 DEF LookupInv
<1>8. CASE UNCHANGED vars
  <2>1. UNCHANGED <<now, bucketvars>> /\ get' = get /\ me' = me
    BY <1>8 DEF vars
  <2>2. BudgetInv'
    BY <2>1 DEF LookupInv, BudgetInv, InBudget, CallOK, ArtifactOK, Deadline
  <2> QED BY <1>2, <2>1, <2>2 DEF LookupInv
<1> QED BY <1>3, <1>4, <1>5, <1>6, <1>7, <1>8 DEF Next, Step

\* However slow or quick the calls come, the grants of a bucket keep to the ceiling of
\* the registry: TokenBucket.Wait counts a deficit twice, and never too little.
THEOREM GrantsAlwaysKeepCeiling == Spec => []GrantsKeepCeiling
<1>1. LookupInv => GrantsKeepCeiling
  BY DEF LookupInv, BucketInv
<1> QED BY <1>1, InitiallyInBudget, StepsKeepBudget, PTL DEF Spec

\* The scan of Gate 8 and the MCP lookup never run past their deadlines, whatever is
\* retried, waited for or asked again.
THEOREM AlwaysInBudget == Spec => []InBudget
<1>1. LookupInv => InBudget
  BY DEF LookupInv, BudgetInv
<1> QED BY <1>1, InitiallyInBudget, StepsKeepBudget, PTL DEF Spec

-----------------------------------------------------------------------------
(* The forums' verdict. *)

Outcomes == [ok : BOOLEAN, hit : BOOLEAN]
ForumFields == DOMAIN NoForums

\* A hit that was read is still in hand, or in a result; or its forum was given up.
HitIsKept(f) ==
  f.found => f.hit \/ \E i \in DOMAIN f.results : f.results[i].hit \/ ~f.results[i].ok

\* A forum in the middle of its queries.
Midway(f) ==
  /\ DOMAIN f = ForumFields
  /\ f.pc = "ask" /\ f.at \in 1..Len(Forums) /\ f.asked \in Nat
  /\ {f.ok, f.hit, f.found} \subseteq BOOLEAN /\ f.verdict = "none"
  /\ f.results \in Seq(Outcomes) /\ Len(f.results) = f.at - 1
  /\ f.hit => f.found /\ f.ok
  /\ \A i \in DOMAIN f.results : f.results[i].hit /\ f.results[i].ok => f.found
  /\ HitIsKept(f)

ForumInv ==
  /\ VerdictIsEarned
  /\ forums = NoForums \/ Midway(forums) \/ forums.pc = "done"

LEMMA ForumCount == Len(Forums) = 5
BY DEF Forums

\* The same state of a scan, but for the hit in hand.
SameScan(f, g) ==
  /\ DOMAIN g = ForumFields /\ g.pc = f.pc /\ g.at = f.at /\ g.results = f.results
  /\ g.found = f.found /\ g.verdict = f.verdict

\* The result of a forum keeps its hits, or counts it as unchecked.
LEMMA ForumEndsWell ==
  ASSUME NEW f, Midway(f), NEW g, SameScan(f, g), g.hit \in BOOLEAN,
         NEW ok \in BOOLEAN, ok => f.ok /\ g.hit = f.hit,
         ForumEnds(g, ok)
  PROVE  ForumInv'
<1> DEFINE result == [ok |-> ok, hit |-> g.hit]
           results == Append(f.results, result)
           rest == [g EXCEPT !.at = @ + 1, !.asked = 0, !.ok = FALSE, !.hit = FALSE]
<1>1. /\ DOMAIN f = ForumFields /\ f.at \in 1..Len(Forums) /\ f.pc = "ask" /\ f.verdict = "none"
      /\ f.results \in Seq(Outcomes) /\ Len(f.results) = f.at - 1 /\ f.found \in BOOLEAN
      /\ f.hit => f.found
      /\ f.found => f.hit \/ \E i \in DOMAIN f.results : f.results[i].hit \/ ~f.results[i].ok
      /\ \A i \in DOMAIN f.results : f.results[i].hit /\ f.results[i].ok => f.found
  BY DEF Midway, HitIsKept
<1>2. ForumFields = {"pc", "at", "asked", "ok", "hit", "results", "found", "token", "verdict"}
  BY DEF ForumFields, NoForums
<1>3. /\ g.at = f.at /\ g.results = f.results
      /\ DOMAIN rest = ForumFields /\ rest.pc = "ask" /\ rest.at = f.at + 1 /\ rest.asked = 0
      /\ rest.ok = FALSE /\ rest.hit = FALSE /\ rest.found = f.found /\ rest.verdict = "none"
  BY <1>1, <1>2 DEF SameScan
<1>4. forums' = IF f.at < Len(Forums) THEN [rest EXCEPT !.results = results]
                ELSE [rest EXCEPT !.pc = "done", !.results = results, !.verdict = Aggregate(results)]
  BY <1>3 DEF ForumEnds
<1> HIDE DEF rest
<1>5. /\ results \in Seq(Outcomes) /\ Len(results) = f.at /\ DOMAIN results = 1..f.at
      /\ results[f.at].ok = ok /\ results[f.at].hit = g.hit
      /\ \A i \in DOMAIN f.results : i \in DOMAIN results /\ results[i] = f.results[i]
      /\ \A i \in DOMAIN results : i = f.at \/ i \in DOMAIN f.results
  BY <1>1, ForumCount DEF Outcomes
<1> HIDE DEF results
<1>6. f.found => \E i \in DOMAIN results : results[i].hit \/ ~results[i].ok
  <2>1. CASE f.hit
    <3>1. f.at \in DOMAIN results
      BY <1>1, <1>5, ForumCount
    <3>2. results[f.at].hit \/ ~results[f.at].ok
      BY <1>5, <2>1, Zenon
    <3> QED BY <3>1, <3>2
  <2>2. CASE ~f.hit
    BY <1>1, <1>5, <2>2
  <2> QED BY <2>1, <2>2
<1>7. \A i \in DOMAIN results : results[i].hit /\ results[i].ok => f.found
  BY <1>1, <1>5
<1>8. CASE f.at < Len(Forums)
  <2>1. /\ DOMAIN forums' = ForumFields /\ forums'.pc = "ask" /\ forums'.at = f.at + 1
        /\ forums'.asked = 0 /\ forums'.ok = FALSE /\ forums'.hit = FALSE
        /\ forums'.found = f.found /\ forums'.verdict = "none" /\ forums'.results = results
    BY <1>2, <1>3, <1>4, <1>8
  <2>2. f.at + 1 \in 1..Len(Forums) /\ f.at + 1 - 1 = f.at
    BY <1>1, <1>8, ForumCount
  <2>3. HitIsKept(forums')
    BY <1>6, <2>1 DEF HitIsKept
  <2>4. Midway(forums')
    <3>1. /\ {forums'.ok, forums'.hit, forums'.found} \subseteq BOOLEAN
          /\ forums'.hit => forums'.found /\ forums'.ok
      BY <1>1, <2>1
    <3>2. \A i \in DOMAIN forums'.results :
            forums'.results[i].hit /\ forums'.results[i].ok => forums'.found
      BY <1>7, <2>1, Zenon
    <3>3. /\ forums'.at \in 1..Len(Forums) /\ forums'.asked \in Nat
          /\ forums'.results \in Seq(Outcomes) /\ Len(forums'.results) = forums'.at - 1
      BY <1>5, <2>1, <2>2
    <3> QED BY <2>1, <2>3, <3>1, <3>2, <3>3 DEF Midway
  <2>5. VerdictIsEarned'
    BY <2>1 DEF VerdictIsEarned
  <2> QED BY <2>4, <2>5 DEF ForumInv
<1>9. CASE ~(f.at < Len(Forums))
  <2>1. /\ forums'.pc = "done" /\ forums'.found = f.found
        /\ forums'.verdict = Aggregate(results) /\ forums'.results = results
    BY <1>2, <1>3, <1>4, <1>9
  <2>2. f.at = Len(Forums)
    BY <1>1, <1>9, ForumCount
  <2>3. Aggregate(results) = "FLAG" => f.found
    BY <1>7 DEF Aggregate
  <2>4. Aggregate(results) = "CLEAN" => ~f.found /\ Unchecked(results) = {}
    BY <1>6 DEF Aggregate, Unchecked
  <2>5. VerdictIsEarned'
    BY <1>5, <2>1, <2>2, <2>3, <2>4 DEF VerdictIsEarned
  <2> QED BY <2>1, <2>5 DEF ForumInv
<1> QED BY <1>8, <1>9

\* A query that ends does so with what its forum has had so far.
LEMMA QueryEndsWell ==
  ASSUME NEW f, Midway(f), QueryEnds(f)
  PROVE  ForumInv'
<1> DEFINE g == [f EXCEPT !.asked = @ + 1]
<1>1. /\ DOMAIN f = ForumFields /\ f.asked \in Nat
      /\ ForumFields = {"pc", "at", "asked", "ok", "hit", "results", "found", "token", "verdict"}
  BY DEF Midway, ForumFields, NoForums
<1>2. /\ DOMAIN g = ForumFields /\ g.asked \in Nat /\ g.pc = f.pc /\ g.at = f.at /\ g.ok = f.ok
      /\ g.hit = f.hit /\ g.results = f.results /\ g.found = f.found /\ g.verdict = f.verdict
  BY <1>1
<1>3. forums' = g \/ ForumEnds(g, g.ok)
  BY DEF QueryEnds
<1> HIDE DEF g
<1>4. Midway(g)
  BY <1>2 DEF Midway, HitIsKept
<1>5. CASE forums' = g
  BY <1>4, <1>5 DEF ForumInv, VerdictIsEarned, Midway
<1>6. CASE ForumEnds(g, g.ok)
  <2>1. g.ok \in BOOLEAN /\ g.hit \in BOOLEAN /\ SameScan(g, g)
    BY <1>2, <1>4 DEF Midway, SameScan
  <2> QED BY <1>4, <1>6, <2>1, ForumEndsWell
<1> QED BY <1>3, <1>5, <1>6

LEMMA ForumStepKeepsVerdict ==
  ASSUME ForumInv, ForumStep
  PROVE  ForumInv'
<1>1. forums.pc = "ask" /\ Midway(forums)
  <2>1. forums.pc = "ask"
    BY DEF ForumStep, NoToken, QueryFails, QueryAnswers, TokenRefused, ForumPanics, MayAsk, Asking
  <2>2. forums # NoForums
    BY <2>1 DEF NoForums
  <2> QED BY <2>1, <2>2 DEF ForumInv
<1>2. /\ DOMAIN forums = ForumFields /\ forums.hit \in BOOLEAN /\ forums.found \in BOOLEAN
      /\ ForumFields = {"pc", "at", "asked", "ok", "hit", "results", "found", "token", "verdict"}
  BY <1>1 DEF Midway, ForumFields, NoForums
<1>3. CASE NoToken \/ TokenRefused
  <2>1. SameScan(forums, forums) /\ ForumEnds(forums, FALSE)
    BY <1>2, <1>3 DEF SameScan, NoToken, TokenRefused
  <2> QED BY <1>1, <1>2, <2>1, ForumEndsWell
<1>4. CASE QueryFails
  BY <1>1, <1>4, QueryEndsWell DEF QueryFails
<1>5. CASE QueryAnswers
  <2>1. PICK hit \in BOOLEAN :
          QueryEnds([forums EXCEPT !.ok = TRUE, !.hit = @ \/ hit, !.found = @ \/ hit])
    BY <1>5 DEF QueryAnswers
  <2> DEFINE f == [forums EXCEPT !.ok = TRUE, !.hit = @ \/ hit, !.found = @ \/ hit]
  <2>2. /\ DOMAIN f = ForumFields /\ f.asked = forums.asked /\ f.pc = forums.pc /\ f.at = forums.at
        /\ f.ok = TRUE /\ f.hit = (forums.hit \/ hit) /\ f.results = forums.results
        /\ f.found = (forums.found \/ hit) /\ f.verdict = forums.verdict
    BY <1>2
  <2> HIDE DEF f
  <2>3. /\ f.hit => f.found /\ f.ok
        /\ forums.found => f.found /\ (f.found => forums.found \/ f.hit)
        /\ {f.ok, f.hit, f.found} \subseteq BOOLEAN
    BY <1>1, <2>2 DEF Midway
  <2>4. \A i \in DOMAIN f.results : f.results[i].hit /\ f.results[i].ok => f.found
    BY <1>1, <2>2, <2>3, Zenon DEF Midway
  <2>5. HitIsKept(f)
    <3>1. CASE f.hit
      BY <3>1 DEF HitIsKept
    <3>2. CASE ~f.hit
      <4>1. ~forums.hit /\ HitIsKept(forums)
        BY <1>1, <2>2, <3>2 DEF Midway
      <4> QED BY <2>2, <2>3, <3>2, <4>1, Zenon DEF HitIsKept
    <3> QED BY <3>1, <3>2
  <2>6. Midway(f)
    BY <1>1, <2>2, <2>3, <2>4, <2>5 DEF Midway
  <2> QED BY <2>1, <2>6, QueryEndsWell DEF f
<1>6. CASE ForumPanics
  <2> DEFINE g == [forums EXCEPT !.hit = FALSE]
  <2>1. SameScan(forums, g) /\ g.hit = FALSE
    BY <1>2 DEF SameScan
  <2>2. ForumEnds(g, FALSE)
    BY <1>6 DEF ForumPanics
  <2> HIDE DEF g
  <2> QED BY <1>1, <2>1, <2>2, ForumEndsWell
<1> QED BY <1>3, <1>4, <1>5, <1>6, Zenon DEF ForumStep

LEMMA StepsKeepVerdict == ForumInv /\ [Next]_vars => ForumInv'
<1> SUFFICES ASSUME ForumInv, [Next]_vars PROVE ForumInv'
  OBVIOUS
<1>1. CASE UNCHANGED forums
  BY <1>1 DEF ForumInv, VerdictIsEarned, Midway, HitIsKept
<1>2. CASE ForumStep
  BY <1>2, ForumStepKeepsVerdict
<1>3. CASE AskForums
  <2>1. PICK token \in BOOLEAN : forums' = [NoForums EXCEPT !.pc = "ask", !.token = token]
    BY <1>3 DEF AskForums
  <2>2. /\ DOMAIN forums' = ForumFields /\ forums'.pc = "ask" /\ forums'.at = 1 /\ forums'.asked = 0
        /\ forums'.ok = FALSE /\ forums'.hit = FALSE /\ forums'.found = FALSE
        /\ forums'.results = <<>> /\ forums'.verdict = "none"
    BY <2>1 DEF NoForums, ForumFields
  <2>3. /\ forums'.results \in Seq(Outcomes) /\ Len(forums'.results) = forums'.at - 1
        /\ DOMAIN forums'.results = {}
    BY <2>2
  <2>4. HitIsKept(forums') /\ forums'.at \in 1..Len(Forums)
    BY <2>2, ForumCount DEF HitIsKept
  <2>5. {forums'.ok, forums'.hit, forums'.found} \subseteq BOOLEAN
    <3>1. forums'.ok \in BOOLEAN /\ forums'.hit \in BOOLEAN /\ forums'.found \in BOOLEAN
      BY <2>2, Zenon
    <3> QED BY <3>1
  <2>6. \A i \in DOMAIN forums'.results :
          forums'.results[i].hit /\ forums'.results[i].ok => forums'.found
    BY <2>3
  <2>7. Midway(forums')
    BY <2>2, <2>3, <2>4, <2>5, <2>6 DEF Midway
  <2> QED BY <2>2, <2>7 DEF ForumInv, VerdictIsEarned
<1>4. UNCHANGED forums \/ ForumStep \/ AskForums
  BY DEF Next, Step, ResolveUnasked, TakeToken, AskRegistry, Fetching, ResolveEnds, Judged, StartScan,
         LocateEnds, FetchFails, Fetch, Scanning, ScanEnds, Foruming, RegistryChanges, vars
<1> QED BY <1>1, <1>2, <1>3, <1>4

\* Whatever the forums answer, refuse or panic over, CLEAN means that all five answered
\* and that no answer had a hit; FLAG that one had.
THEOREM VerdictAlwaysEarned == Spec => []VerdictIsEarned
<1>1. Init => ForumInv
  BY DEF Init, ForumInv, VerdictIsEarned, NoForums
<1>2. ForumInv => VerdictIsEarned
  BY DEF ForumInv
<1> QED BY <1>1, <1>2, StepsKeepVerdict, PTL DEF Spec

-----------------------------------------------------------------------------
(* The limits of the scan. *)

ScanFields == DOMAIN NoScan

LEMMA ScanFieldsAre ==
  ScanFields = {"pc", "eco", "zip", "levels", "entries", "total", "out", "sizes", "left",
                "inside", "streamed", "opened"}
BY DEF ScanFields, NoScan

Allowances(n) == MaxTotal * n

\* What is kept in memory was charged, and what was charged is within the limit.
Charged(sizes, total) ==
  /\ total \in Nat /\ total <= MaxTotal
  /\ IsFiniteSet(DOMAIN sizes) /\ \A p \in DOMAIN sizes : sizes[p] \in Nat
  /\ SumFunction(sizes) <= total

\* What was streamed and what the open streams may still deliver are the allowances of
\* the streams opened.  The members of a zip archive are charged alone.
Allowed(zip, levels, streamed, opened, total) ==
  /\ zip \in BOOLEAN /\ streamed \in Nat /\ opened \in Nat
  /\ levels \in Seq(Nat) /\ Len(levels) <= MaxDepth
  /\ streamed + SumFunction(levels) <= Allowances(opened)
  /\ zip => levels = <<>> /\ streamed <= total /\ opened = 1

ScanOK(s) ==
  /\ DOMAIN s = ScanFields
  /\ Charged(s.sizes, s.total)
  /\ Allowed(s.zip, s.levels, s.streamed, s.opened, s.total)
  /\ s.entries \in Nat /\ s.entries <= MaxEntries /\ s.opened <= s.entries + 1
  /\ s.pc = "walk" /\ ~s.zip => s.levels # <<>>

LEMMA Limits ==
  /\ MaxTotal \in Nat /\ MaxEntries \in Nat /\ MaxDepth \in Nat /\ MaxDepth >= 1
  /\ Sizes \subseteq Nat
BY ArchiveAssumption

LEMMA OneAllowance ==
  ASSUME NEW n \in Nat
  PROVE  Allowances(n) \in Nat /\ Allowances(n + 1) = Allowances(n) + MaxTotal
BY Limits DEF Allowances

LEMMA FirstAllowance == Allowances(0) = 0 /\ Allowances(1) = MaxTotal
BY Limits DEF Allowances

LEMMA NothingSummed == SumFunction(<<>>) = 0 /\ SumFunction(NoFiles) = 0
<1>1. DOMAIN <<>> = {} /\ DOMAIN NoFiles = {}
  BY DEF NoFiles
<1> QED BY <1>1, SumOfNone

\* Before a scan starts, and where it fails.
LEMMA NoScanOK ==
  ASSUME NEW s, s = NoScan \/ s = [NoScan EXCEPT !.pc = "failed"]
  PROVE  ScanOK(s)
<1>1. /\ DOMAIN s = ScanFields /\ s.pc # "walk" /\ s.zip = FALSE /\ s.levels = <<>> /\ s.entries = 0
      /\ s.total = 0 /\ s.sizes = NoFiles /\ s.streamed = 0 /\ s.opened = 0
  BY DEF NoScan, ScanFields
<1>2. Charged(s.sizes, s.total)
  <2>1. DOMAIN NoFiles = {} /\ IsFiniteSet(DOMAIN NoFiles)
    BY FS_EmptySet DEF NoFiles
  <2> QED BY <1>1, <2>1, NothingSummed, Limits DEF Charged
<1>3. Allowed(s.zip, s.levels, s.streamed, s.opened, s.total)
  <2>1. s.levels \in Seq(Nat) /\ Len(s.levels) <= MaxDepth
    BY <1>1, Limits
  <2>2. s.zip \in BOOLEAN /\ ~s.zip
    BY <1>1, Zenon
  <2>3. s.streamed + SumFunction(s.levels) <= Allowances(s.opened)
    BY <1>1, NothingSummed, FirstAllowance
  <2> QED BY <1>1, <2>1, <2>2, <2>3 DEF Allowed
<1>4. s.entries \in Nat /\ s.entries <= MaxEntries /\ s.opened <= s.entries + 1
  BY <1>1, Limits
<1> QED BY <1>1, <1>2, <1>3, <1>4 DEF ScanOK

LEMMA OpenKeepsLimits ==
  ASSUME NEW eco, NEW zip \in BOOLEAN, Open(eco, zip)
  PROVE  ScanOK(scan')
<1> DEFINE levels == IF zip THEN <<>> ELSE <<MaxTotal>>
           s == [NoScan EXCEPT !.pc = "walk", !.eco = eco, !.zip = zip, !.opened = 1,
                               !.inside = <<1>>, !.levels = levels]
<1>1. CASE Fails
  BY <1>1, NoScanOK DEF Fails
<1>2. CASE scan' = s
  <2>1. /\ DOMAIN s = ScanFields /\ s.pc = "walk" /\ s.zip = zip /\ s.levels = levels
        /\ s.entries = 0 /\ s.total = 0 /\ s.sizes = NoFiles /\ s.streamed = 0 /\ s.opened = 1
    BY DEF NoScan, ScanFields
  <2> HIDE DEF s
  <2>2. Charged(s.sizes, s.total)
    <3>1. DOMAIN NoFiles = {} /\ IsFiniteSet(DOMAIN NoFiles)
      BY FS_EmptySet DEF NoFiles
    <3> QED BY <2>1, <3>1, NothingSummed, Limits DEF Charged
  <2>3. /\ levels \in Seq(Nat) /\ Len(levels) <= MaxDepth
        /\ (zip => levels = <<>>) /\ (~zip => levels # <<>>)
    BY Limits
  <2>4. SumFunction(levels) <= MaxTotal
    <3>1. CASE zip
      BY <3>1, NothingSummed, Limits
    <3>2. CASE ~zip
      <4>1. levels = Append(<<>>, MaxTotal) /\ <<>> \in Seq(Nat)
        BY <3>2
      <4>2. SumFunction(levels) = 0 + MaxTotal
        BY <4>1, Limits, SumAppend, NothingSummed
      <4> QED BY <4>2, Limits
    <3> QED BY <3>1, <3>2
  <2>5. SumFunction(levels) \in Nat
    BY <2>3, SumOfSequence
  <2> HIDE DEF levels
  <2>6. Allowed(s.zip, s.levels, s.streamed, s.opened, s.total)
    <3>1. s.streamed + SumFunction(s.levels) <= Allowances(s.opened)
      BY <2>1, <2>4, <2>5, FirstAllowance, Limits
    <3>2. s.zip \in BOOLEAN /\ (s.zip => s.levels = <<>>)
      BY <2>1, <2>3
    <3> QED BY <2>1, <2>3, <3>1, <3>2 DEF Allowed
  <2> QED BY <1>2, <2>1, <2>2, <2>3, <2>6, Limits DEF ScanOK
<1> QED BY <1>1, <1>2 DEF Open, Walks

\* n bytes of the stream in front.
LEMMA ConsumedIsAllowed ==
  ASSUME NEW s, ScanOK(s), NEW n \in Nat, ~s.zip => s.levels # <<>> /\ n <= s.levels[Len(s.levels)],
         NEW total \in Nat, total <= MaxTotal, s.zip => s.total + n <= total
  PROVE  LET t == Consume(s, n) IN
         /\ DOMAIN t = ScanFields /\ t.streamed = s.streamed + n
         /\ t.pc = s.pc /\ t.eco = s.eco /\ t.zip = s.zip /\ t.entries = s.entries
         /\ t.total = s.total /\ t.out = s.out /\ t.sizes = s.sizes /\ t.left = s.left
         /\ t.opened = s.opened
         /\ Len(t.levels) = Len(s.levels) /\ (~s.zip => t.levels # <<>>)
         /\ Allowed(t.zip, t.levels, t.streamed, t.opened, total)
<1> DEFINE t == Consume(s, n)
<1>1. /\ DOMAIN t = ScanFields /\ t.streamed = s.streamed + n
      /\ t.pc = s.pc /\ t.eco = s.eco /\ t.zip = s.zip /\ t.entries = s.entries
      /\ t.total = s.total /\ t.out = s.out /\ t.sizes = s.sizes /\ t.left = s.left
      /\ t.opened = s.opened
      /\ t.levels = IF s.zip THEN s.levels ELSE Lowered(s.levels, n)
  BY ScanFieldsAre DEF ScanOK, Consume
<1> HIDE DEF t
<1>2. /\ s.zip \in BOOLEAN /\ s.streamed \in Nat /\ s.opened \in Nat /\ s.total \in Nat
      /\ s.levels \in Seq(Nat) /\ Len(s.levels) <= MaxDepth
      /\ s.streamed + SumFunction(s.levels) <= Allowances(s.opened)
      /\ s.zip => s.levels = <<>> /\ s.streamed <= s.total /\ s.opened = 1
      /\ s.total <= MaxTotal
  BY DEF ScanOK, Allowed, Charged
<1>3. Allowances(s.opened) \in Nat /\ SumFunction(s.levels) \in Nat
  BY <1>2, OneAllowance, SumOfSequence
<1>4. CASE s.zip
  <2>1. t.levels = <<>> /\ t.zip = s.zip /\ t.opened = 1
    BY <1>1, <1>2, <1>4, Zenon
  <2>2. t.streamed \in Nat /\ t.streamed <= total /\ t.streamed <= MaxTotal
    <3>1. s.streamed <= s.total /\ s.total + n <= total
      BY <1>2, <1>4
    <3> QED BY <1>1, <1>2, <3>1, Limits
  <2>3. t.levels \in Seq(Nat) /\ Len(t.levels) = 0 /\ Len(t.levels) <= MaxDepth /\ t.opened \in Nat
    BY <2>1, Limits
  <2>4. t.streamed + SumFunction(t.levels) <= Allowances(t.opened)
    BY <2>1, <2>2, NothingSummed, FirstAllowance, Limits
  <2>5. Allowed(t.zip, t.levels, t.streamed, t.opened, total)
    BY <1>2, <2>1, <2>2, <2>3, <2>4 DEF Allowed
  <2>6. Len(t.levels) = Len(s.levels)
    BY <1>2, <1>4, <2>1
  <2> QED BY <1>1, <1>4, <2>5, <2>6 DEF t
<1>5. CASE ~s.zip
  <2> DEFINE m == Len(s.levels)
             x == s.levels[m] - n
  <2>1. s.levels # <<>> /\ n <= s.levels[m] /\ m \in 1..Len(s.levels) /\ s.levels[m] \in Nat
    BY <1>2, <1>5
  <2>2. x \in Nat /\ x + n = s.levels[m]
    BY <2>1
  <2>3. t.levels = [s.levels EXCEPT ![m] = x]
    BY <1>1, <1>5 DEF Lowered
  <2> HIDE DEF x
  <2>4. SumFunction(t.levels) = SumFunction(s.levels) - s.levels[m] + x
    BY <1>2, <2>1, <2>2, <2>3, SumChangeLast
  <2>5. t.levels \in Seq(Nat) /\ Len(t.levels) = m /\ t.levels # <<>>
    BY <1>2, <2>1, <2>2, <2>3
  <2>6. SumFunction(t.levels) \in Nat
    BY <2>5, SumOfSequence
  <2>7. t.streamed + SumFunction(t.levels) <= Allowances(t.opened)
    <3>1. Allowances(t.opened) = Allowances(s.opened)
      BY <1>1, Zenon
    <3>2. s.levels[m] \in Nat /\ x <= s.levels[m] /\ n <= s.levels[m]
      BY <2>1, <2>2
    <3>3. s.streamed + n + (SumFunction(s.levels) - s.levels[m] + x) = s.streamed + SumFunction(s.levels)
      <4>1. s.streamed \in Nat
        BY <1>2
      <4> HIDE DEF m
      <4> QED BY ONLY <4>1, <1>3, <2>2, <3>2
    <3> QED BY <1>1, <1>2, <2>4, <3>1, <3>3
  <2>8. t.streamed \in Nat /\ t.opened \in Nat /\ Len(t.levels) <= MaxDepth
    BY <1>1, <1>2, <2>5
  <2>9. t.zip \in BOOLEAN /\ ~t.zip
    BY <1>1, <1>2, <1>5, Zenon
  <2>10. Allowed(t.zip, t.levels, t.streamed, t.opened, total)
    BY <2>5, <2>7, <2>8, <2>9 DEF Allowed
  <2> QED BY <1>1, <2>5, <2>10 DEF t
<1> QED BY <1>4, <1>5

\* An entry that is read, if the limits allow it.
LEMMA ReadIsAllowed ==
  ASSUME ScanOK(scan), AtEntry, NEW n \in Nat, CanRead(n)
  PROVE  LET t == Read(n) IN
         /\ DOMAIN t = ScanFields /\ t.total = scan.total + n /\ t.total \in Nat /\ t.total <= MaxTotal
         /\ t.pc = scan.pc /\ t.eco = scan.eco /\ t.zip = scan.zip /\ t.entries = scan.entries
         /\ t.out = scan.out /\ t.sizes = scan.sizes /\ t.left = scan.left
         /\ t.opened = scan.opened
         /\ Len(t.levels) = Len(scan.levels) /\ (~scan.zip => t.levels # <<>>)
         /\ Allowed(t.zip, t.levels, t.streamed, t.opened, t.total)
<1> DEFINE c == Consume(scan, n)
           t == Read(n)
<1>1. /\ ~scan.zip => scan.levels # <<>> /\ n <= scan.levels[Len(scan.levels)]
      /\ scan.total + n \in Nat /\ scan.total + n <= MaxTotal
  <2>1. scan.total \in Nat
    BY DEF ScanOK, Charged
  <2> QED BY <2>1 DEF CanRead, Delivers, Top, Last, AtEntry, ScanOK
<1>2. /\ DOMAIN c = ScanFields /\ c.streamed = scan.streamed + n
      /\ c.pc = scan.pc /\ c.eco = scan.eco /\ c.zip = scan.zip /\ c.entries = scan.entries
      /\ c.total = scan.total /\ c.out = scan.out /\ c.sizes = scan.sizes /\ c.left = scan.left
      /\ c.opened = scan.opened
      /\ Len(c.levels) = Len(scan.levels) /\ (~scan.zip => c.levels # <<>>)
      /\ Allowed(c.zip, c.levels, c.streamed, c.opened, scan.total + n)
  BY <1>1, ConsumedIsAllowed
<1> HIDE DEF c
<1>3. /\ DOMAIN t = ScanFields /\ t.total = c.total + n
      /\ t.pc = c.pc /\ t.eco = c.eco /\ t.zip = c.zip /\ t.entries = c.entries
      /\ t.out = c.out /\ t.sizes = c.sizes /\ t.left = c.left /\ t.opened = c.opened
      /\ t.levels = c.levels /\ t.streamed = c.streamed
  BY <1>2, ScanFieldsAre DEF Read, c
<1> HIDE DEF t
<1> QED BY <1>1, <1>2, <1>3 DEF t

\* The charge of an entry grows with what it keeps.
LEMMA PutIsCharged ==
  ASSUME NEW sizes, NEW total, Charged(sizes, total), NEW p, NEW n \in Nat, total + n <= MaxTotal
  PROVE  Charged(Put(sizes, p, n), total + n)
<1> DEFINE v == [x \in DOMAIN sizes \cup {p} |-> IF x = p THEN n ELSE sizes[x]]
<1>1. /\ total \in Nat /\ IsFiniteSet(DOMAIN sizes) /\ \A x \in DOMAIN sizes : sizes[x] \in Nat
      /\ SumFunction(sizes) <= total /\ SumFunction(sizes) \in Nat
  BY SumOfNaturals DEF Charged
<1>2. /\ IsFiniteSet(DOMAIN v) /\ \A x \in DOMAIN v : v[x] \in Nat
      /\ SumFunction(v) \in Nat /\ SumFunction(v) <= SumFunction(sizes) + n
  BY <1>1, SumPut
<1>3. Put(sizes, p, n) = v
  BY DEF Put
<1> HIDE DEF v
<1> QED BY <1>1, <1>2, <1>3 DEF Charged

LEMMA MoreIsCharged ==
  ASSUME NEW sizes, NEW total, Charged(sizes, total), NEW n \in Nat, total + n <= MaxTotal
  PROVE  Charged(sizes, total + n)
<1>1. SumFunction(sizes) \in Nat
  BY SumOfNaturals DEF Charged
<1> QED BY <1>1 DEF Charged

\* An entry that is counted keeps the limits if what it took does.
LEMMA CountedKeepsLimits ==
  ASSUME NEW s, DOMAIN s = ScanFields, Charged(s.sizes, s.total),
         Allowed(s.zip, s.levels, s.streamed, s.opened, s.total),
         s.entries \in Nat, s.entries < MaxEntries, s.opened <= s.entries + 1,
         ~s.zip => s.levels # <<>>
  PROVE  ScanOK(Counted(s))
<1> DEFINE t == Counted(s)
<1>1. /\ DOMAIN t = ScanFields /\ t.entries = s.entries + 1
      /\ t.zip = s.zip /\ t.levels = s.levels /\ t.streamed = s.streamed /\ t.opened = s.opened
      /\ t.total = s.total /\ t.sizes = s.sizes
  BY ScanFieldsAre DEF Counted
<1> HIDE DEF t
<1>2. t.entries \in Nat /\ t.entries <= MaxEntries /\ t.opened <= t.entries + 1
  BY <1>1, Limits DEF Allowed
<1>3. ScanOK(t)
  BY <1>1, <1>2 DEF ScanOK
<1> QED BY <1>3 DEF t

LEMMA WalkKeepsLimits ==
  ASSUME ScanOK(scan), WalkArchive
  PROVE  ScanOK(scan')
<1>1. /\ DOMAIN scan = ScanFields /\ scan.entries \in Nat /\ scan.entries <= MaxEntries
      /\ scan.opened <= scan.entries + 1 /\ scan.opened \in Nat
      /\ scan.total \in Nat /\ scan.total <= MaxTotal
      /\ Charged(scan.sizes, scan.total)
      /\ Allowed(scan.zip, scan.levels, scan.streamed, scan.opened, scan.total)
      /\ scan.levels \in Seq(Nat) /\ Len(scan.levels) <= MaxDepth
  BY DEF ScanOK, Charged, Allowed
<1>2. CASE ScanFails
  BY <1>2, NoScanOK DEF ScanFails, Fails
<1>3. CASE EndOfArchive
  <2> DEFINE s == scan.levels
             rest == SubSeq(s, 1, Len(s) - 1)
  <2>1. AtEntry /\ scan.pc = "walk"
    BY <1>3 DEF EndOfArchive, AtEntry
  <2>2. CASE Len(s) <= 1 /\ scan' = [scan EXCEPT !.pc = "done", !.levels = <<>>]
    <3>1. /\ DOMAIN scan' = ScanFields /\ scan'.pc = "done" /\ scan'.levels = <<>>
          /\ scan'.zip = scan.zip /\ scan'.entries = scan.entries /\ scan'.opened = scan.opened
          /\ scan'.streamed = scan.streamed /\ scan'.total = scan.total /\ scan'.sizes = scan.sizes
      BY <1>1, <2>2, ScanFieldsAre
    <3>2. SumFunction(<<>>) <= SumFunction(s) /\ SumFunction(<<>>) = 0
      BY <1>1, NothingSummed, SumOfSequence
    <3>3. Allowed(scan.zip, <<>>, scan.streamed, scan.opened, scan.total)
      <4>1. <<>> \in Seq(Nat) /\ Len(<<>>) <= MaxDepth
        BY Limits
      <4>2. scan.streamed + SumFunction(<<>>) <= Allowances(scan.opened)
        <5>1. /\ scan.streamed \in Nat /\ SumFunction(s) \in Nat /\ Allowances(scan.opened) \in Nat
              /\ scan.streamed + SumFunction(s) <= Allowances(scan.opened)
          BY <1>1, SumOfSequence, OneAllowance DEF Allowed
        <5> HIDE DEF s
        <5> QED BY <3>2, <5>1
      <4> QED BY <1>1, <4>1, <4>2 DEF Allowed
    <3>4. ~(scan'.pc = "walk" /\ ~scan'.zip)
      BY <3>1
    <3> QED BY <1>1, <3>1, <3>3, <3>4 DEF ScanOK
  <2>3. CASE Len(s) > 1 /\ scan' = [scan EXCEPT !.levels = rest, !.inside = Front(@)]
    <3>1. /\ DOMAIN scan' = ScanFields /\ scan'.pc = "walk" /\ scan'.levels = rest
          /\ scan'.zip = scan.zip /\ scan'.entries = scan.entries /\ scan'.opened = scan.opened
          /\ scan'.streamed = scan.streamed /\ scan'.total = scan.total /\ scan'.sizes = scan.sizes
      BY <1>1, <2>1, <2>3, ScanFieldsAre
    <3>2. /\ rest \in Seq(Nat) /\ rest # <<>> /\ Len(rest) <= MaxDepth
          /\ s # <<>> /\ s[Len(s)] \in Nat
      <4>1. /\ s \in Seq(Nat) /\ Len(s) \in Nat /\ Len(s) > 1 /\ Len(s) <= MaxDepth
        BY <1>1, <2>3
      <4>2. rest \in Seq(Nat) /\ Len(rest) = Len(s) - 1 /\ s # <<>> /\ s[Len(s)] \in Nat
        BY <4>1
      <4>3. rest # <<>> /\ Len(rest) <= MaxDepth
        <5> HIDE DEF s, rest
        <5>1. Len(rest) > 0
          BY <4>1, <4>2
        <5> QED BY <4>1, <4>2, <5>1, Limits
      <4> QED BY <4>2, <4>3
    <3>3. SumFunction(s) = SumFunction(rest) + s[Len(s)] /\ SumFunction(rest) \in Nat
      BY <1>1, <3>2, SumLast, SumOfSequence
    <3>4. Allowed(scan.zip, rest, scan.streamed, scan.opened, scan.total)
      <4>1. scan.streamed + SumFunction(rest) <= Allowances(scan.opened)
        <5>1. /\ scan.streamed \in Nat /\ SumFunction(s) \in Nat /\ Allowances(scan.opened) \in Nat
              /\ scan.streamed + SumFunction(s) <= Allowances(scan.opened)
          BY <1>1, SumOfSequence, OneAllowance DEF Allowed
        <5> HIDE DEF s, rest
        <5> QED BY <3>2, <3>3, <5>1
      <4>2. ~scan.zip
        BY <1>1, <3>2 DEF Allowed
      <4> QED BY <1>1, <3>2, <4>1, <4>2 DEF Allowed
    <3> QED BY <1>1, <3>1, <3>2, <3>4 DEF ScanOK
  <2> QED BY <1>3, <2>2, <2>3 DEF EndOfArchive, Walks, Front
<1>4. CASE SkipEntry
  <2>1. PICK n \in Sizes \cup {0} :
          Delivers(n) /\ scan' = Counted(IF scan.zip THEN scan ELSE Consume(scan, n))
    BY <1>4 DEF SkipEntry, Walks
  <2>2. n \in Nat /\ scan.entries < MaxEntries /\ AtEntry
    BY <1>4, Limits DEF SkipEntry
  <2>3. CASE scan.zip
    BY <1>1, <2>1, <2>2, <2>3, CountedKeepsLimits
  <2>4. CASE ~scan.zip
    <3> DEFINE c == Consume(scan, n)
    <3>1. scan.levels # <<>> /\ n <= scan.levels[Len(scan.levels)]
      BY <2>1, <2>2, <2>4 DEF Delivers, Top, Last, ScanOK, AtEntry
    <3>2. /\ DOMAIN c = ScanFields /\ c.zip = scan.zip /\ c.entries = scan.entries
          /\ c.total = scan.total /\ c.sizes = scan.sizes /\ c.opened = scan.opened
          /\ c.levels # <<>>
          /\ Allowed(c.zip, c.levels, c.streamed, c.opened, scan.total)
      BY <1>1, <2>2, <2>4, <3>1, ConsumedIsAllowed
    <3> HIDE DEF c
    <3>3. ScanOK(Counted(c))
      BY <1>1, <2>2, <3>2, CountedKeepsLimits
    <3> QED BY <2>1, <2>4, <3>3 DEF c
  <2> QED BY <2>1, <2>3, <2>4
<1>5. CASE HookEntry
  <2>1. PICK p \in InterestingFor[scan.eco] \cup LocatedIn[scan.eco], spelling \in Spellings,
             file \in Files, n \in Sizes :
          ReadFile(p, spelling, file, n) \/ PassByHook(p, spelling, file)
    BY <1>5 DEF HookEntry
  <2>2. n \in Nat /\ scan.entries < MaxEntries /\ AtEntry /\ scan.pc = "walk"
    BY <1>5, Limits DEF HookEntry, AtEntry
  <2>3. CASE ReadFile(p, spelling, file, n)
    <3> DEFINE r == Read(n)
               s == [r EXCEPT !.out = Put(@, p, file), !.sizes = Put(@, p, n),
                           !.left = Put(@, Unpacked(p, spelling), file)]
    <3>1. CanRead(n) /\ scan' = Counted(s)
      BY <2>3 DEF ReadFile, Walks
    <3>2. /\ DOMAIN r = ScanFields /\ r.total = scan.total + n /\ r.total <= MaxTotal
          /\ r.zip = scan.zip /\ r.entries = scan.entries /\ r.sizes = scan.sizes
          /\ r.opened = scan.opened /\ (~scan.zip => r.levels # <<>>)
          /\ Allowed(r.zip, r.levels, r.streamed, r.opened, r.total)
      BY <2>2, <3>1, ReadIsAllowed
    <3> HIDE DEF r
    <3>3. /\ DOMAIN s = ScanFields /\ s.total = r.total /\ s.zip = r.zip /\ s.entries = r.entries
          /\ s.opened = r.opened /\ s.levels = r.levels /\ s.streamed = r.streamed
          /\ s.sizes = Put(scan.sizes, p, n)
      BY <3>2, ScanFieldsAre
    <3> HIDE DEF s
    <3>4. Charged(s.sizes, s.total)
      BY <1>1, <2>2, <3>2, <3>3, PutIsCharged
    <3> QED BY <1>1, <2>2, <3>1, <3>2, <3>3, <3>4, CountedKeepsLimits
  <2>4. CASE PassByHook(p, spelling, file)
    <3> DEFINE s == [scan EXCEPT !.left = Put(@, Unpacked(p, spelling), file)]
    <3>1. scan' = Counted(s)
      BY <2>4 DEF PassByHook, Walks
    <3>2. /\ DOMAIN s = ScanFields /\ s.total = scan.total /\ s.zip = scan.zip
          /\ s.entries = scan.entries /\ s.opened = scan.opened /\ s.levels = scan.levels
          /\ s.streamed = scan.streamed /\ s.sizes = scan.sizes
      BY <1>1, ScanFieldsAre
    <3> HIDE DEF s
    <3>3. ~scan.zip => scan.levels # <<>>
      BY <2>2 DEF ScanOK
    <3> QED BY <1>1, <2>2, <3>1, <3>2, <3>3, CountedKeepsLimits
  <2> QED BY <2>1, <2>3, <2>4
<1>6. CASE NestedArchive
  <2>1. PICK n \in Sizes :
          CanRead(n) /\ scan' = [Counted(Read(n)) EXCEPT
                                   !.levels = Append(@, MaxTotal - Counted(Read(n)).total), !.opened = @ + 1,
                                   !.inside = Append(@, Counted(Read(n)).opened + 1)]
    BY <1>6 DEF NestedArchive, Walks
  <2>2. /\ n \in Nat /\ scan.entries < MaxEntries /\ AtEntry /\ ~scan.zip
        /\ Len(scan.levels) < MaxDepth /\ scan.pc = "walk"
    BY <1>6, Limits DEF NestedArchive, AtEntry
  <2> DEFINE r == Read(n)
             room == MaxTotal - r.total
  <2>3. /\ DOMAIN r = ScanFields /\ r.total = scan.total + n /\ r.total \in Nat /\ r.total <= MaxTotal
        /\ r.pc = scan.pc /\ r.zip = scan.zip /\ r.entries = scan.entries /\ r.sizes = scan.sizes
        /\ r.opened = scan.opened /\ Len(r.levels) = Len(scan.levels)
        /\ Allowed(r.zip, r.levels, r.streamed, r.opened, r.total)
    BY <2>1, <2>2, ReadIsAllowed
  <2> HIDE DEF r
  <2>4. /\ DOMAIN scan' = ScanFields /\ scan'.total = r.total /\ scan'.zip = r.zip
        /\ scan'.entries = r.entries + 1 /\ scan'.opened = r.opened + 1 /\ scan'.pc = r.pc
        /\ scan'.levels = Append(r.levels, room) /\ scan'.streamed = r.streamed
        /\ scan'.sizes = r.sizes
    BY <2>1, <2>3, ScanFieldsAre DEF Counted, r
  <2>5. room \in Nat /\ room <= MaxTotal
    BY <2>3, Limits
  <2> HIDE DEF room
  <2>6. /\ r.levels \in Seq(Nat) /\ r.streamed \in Nat /\ r.opened \in Nat
        /\ r.streamed + SumFunction(r.levels) <= Allowances(r.opened)
    BY <2>3 DEF Allowed
  <2>7. /\ SumFunction(scan'.levels) = SumFunction(r.levels) + room /\ SumFunction(r.levels) \in Nat
        /\ Allowances(scan'.opened) = Allowances(r.opened) + MaxTotal /\ Allowances(r.opened) \in Nat
    BY <2>4, <2>5, <2>6, SumAppend, SumOfSequence, OneAllowance
  <2>8. /\ scan'.levels \in Seq(Nat) /\ Len(scan'.levels) <= MaxDepth /\ scan'.levels # <<>>
        /\ scan'.opened \in Nat
    <3>1. Len(r.levels) < MaxDepth /\ Len(r.levels) \in Nat /\ scan'.opened = r.opened + 1
      BY <2>2, <2>3, <2>4, <2>6
    <3>2. /\ scan'.levels \in Seq(Nat) /\ Len(scan'.levels) = Len(r.levels) + 1
          /\ scan'.levels # <<>>
      <4> DEFINE s == r.levels
                 t == Append(s, room)
      <4>1. s \in Seq(Nat)
        BY <2>6
      <4> HIDE DEF s
      <4>2. t \in Seq(Nat) /\ Len(t) = Len(s) + 1 /\ t # <<>>
        BY ONLY <2>5, <4>1
      <4> QED BY <2>4, <4>2 DEF s
    <3> QED BY <2>6, <3>1, <3>2, Limits
  <2>9. scan'.streamed + SumFunction(scan'.levels) <= Allowances(scan'.opened)
    BY <2>4, <2>5, <2>6, <2>7, Limits
  <2>10. Allowed(scan'.zip, scan'.levels, scan'.streamed, scan'.opened, scan'.total)
    <3>1. scan'.zip \in BOOLEAN /\ ~scan'.zip /\ scan'.streamed \in Nat
      BY <1>1, <2>2, <2>3, <2>4, <2>6 DEF Allowed
    <3> QED BY <2>8, <2>9, <3>1 DEF Allowed
  <2>11. Charged(scan'.sizes, scan'.total)
    BY <1>1, <2>2, <2>3, <2>4, MoreIsCharged
  <2>12. /\ scan'.entries \in Nat /\ scan'.entries <= MaxEntries /\ scan'.opened <= scan'.entries + 1
    BY <1>1, <2>2, <2>3, <2>4, Limits
  <2> QED BY <2>4, <2>8, <2>10, <2>11, <2>12 DEF ScanOK
<1> QED BY <1>2, <1>3, <1>4, <1>5, <1>6 DEF WalkArchive

LEMMA LimitsHold ==
  ASSUME NEW s, ScanOK(s)
  PROVE  /\ SumFunction(s.sizes) <= s.total /\ s.total <= MaxTotal
         /\ s.streamed <= MaxTotal * s.opened
         /\ s.opened <= s.entries + 1 /\ s.entries <= MaxEntries
         /\ Len(s.levels) <= MaxDepth
<1>1. /\ s.streamed \in Nat /\ SumFunction(s.levels) \in Nat /\ Allowances(s.opened) \in Nat
      /\ s.streamed + SumFunction(s.levels) <= Allowances(s.opened)
  BY SumOfSequence, OneAllowance DEF ScanOK, Allowed
<1>2. s.streamed <= Allowances(s.opened)
  BY <1>1
<1> QED BY <1>2 DEF ScanOK, Charged, Allowed, Allowances

LimitInv == ScanOK(scan)

LEMMA StepsKeepLimits == LimitInv /\ [Next]_vars => LimitInv'
<1> SUFFICES ASSUME ScanOK(scan), [Next]_vars PROVE ScanOK(scan')
  BY DEF LimitInv
<1>1. CASE UNCHANGED scan
  BY <1>1
<1>2. CASE scan' = NoScan
  BY <1>2, NoScanOK
<1>3. CASE WalkArchive
  BY <1>3, WalkKeepsLimits
<1>4. CASE Fetch
  BY <1>4, OpenKeepsLimits DEF Fetch
<1>5. UNCHANGED scan \/ scan' = NoScan \/ WalkArchive \/ Fetch
  BY DEF Next, Step, ResolveUnasked, TakeToken, AskRegistry, Fetching, ResolveEnds, Judged, StartScan,
         LocateEnds, FetchFails, Scanning, ScanEnds, Foruming, RegistryChanges, vars,
         Decided, Resolved, AskAgain
<1> QED BY <1>1, <1>2, <1>3, <1>4, <1>5

\* Whatever archive is fetched, entry by entry and archive in archive, the scan keeps to
\* the limits of archive.go on what it keeps in memory, streams and looks at.
THEOREM ScanAlwaysBounded == Spec => []ScanIsBounded
<1>1. Init => LimitInv
  BY NoScanOK DEF Init, LimitInv
<1>2. LimitInv => ScanIsBounded
  BY LimitsHold DEF LimitInv, ScanIsBounded
<1> QED BY <1>1, <1>2, StepsKeepLimits, PTL DEF Spec

-----------------------------------------------------------------------------
(* What the scan judges. *)

\* The ecosystems whose packages are scanned.
Hooked == {"npm", "pypi", "cargo", "gem"}

\* Of a scan, each file that unpacking one of its streams leaves at a path of hooks has
\* been read, or another of the same cleaned path; the one that alone has its path is kept.
ReadAsLeft(s) ==
  /\ DOMAIN s = ScanFields
  /\ s.pc \in {"walk", "done"} =>
       /\ s.eco \in Hooked
       /\ \A k \in DOMAIN s.left : k[3] \in DOMAIN s.out /\ k[3] \in LocatedIn[s.eco]
       /\ \A p \in DOMAIN s.out :
            \E k \in DOMAIN s.left : k[3] = p /\ s.left[k] = s.out[p]

JudgeInv ==
  /\ ReadAsLeft(scan) /\ "pc" \in DOMAIN me
  /\ me.pc = "locate" => job.eco \in Scripted
  /\ me.pc = "locating" => job.eco \in {"npm", "pypi"}
  /\ me.pc = "fetch" => job.eco \in Hooked

\* Every path that may hold a hook is read.
LEMMA HookPathsAreRead == \A eco \in Hooked : LocatedIn[eco] = InterestingFor[eco]
BY DEF LocatedIn, InterestingFor, Hooked

LEMMA NoScanIsRead ==
  ASSUME NEW s, s = NoScan \/ s = [NoScan EXCEPT !.pc = "failed"]
  PROVE  ReadAsLeft(s)
<1>1. DOMAIN s = ScanFields /\ s.pc \notin {"walk", "done"}
  BY DEF NoScan, ScanFields
<1> QED BY <1>1 DEF ReadAsLeft

LEMMA OpenReadsAsLeft ==
  ASSUME NEW eco \in Hooked, NEW zip, Open(eco, zip)
  PROVE  ReadAsLeft(scan')
<1> DEFINE levels == IF zip THEN <<>> ELSE <<MaxTotal>>
           s == [NoScan EXCEPT !.pc = "walk", !.eco = eco, !.zip = zip, !.opened = 1,
                               !.inside = <<1>>, !.levels = levels]
<1>1. CASE Fails
  BY <1>1, NoScanIsRead DEF Fails
<1>2. CASE scan' = s
  <2>1. /\ DOMAIN s = ScanFields /\ s.eco = eco /\ s.out = NoFiles /\ s.left = NoFiles
    BY DEF NoScan, ScanFields
  <2>2. DOMAIN NoFiles = {}
    BY DEF NoFiles
  <2> HIDE DEF s
  <2> QED BY <1>2, <2>1, <2>2 DEF ReadAsLeft
<1> QED BY <1>1, <1>2 DEF Open, Walks

LEMMA WalkReadsAsLeft ==
  ASSUME ReadAsLeft(scan), WalkArchive
  PROVE  ReadAsLeft(scan')
<1>1. DOMAIN scan = ScanFields
  BY DEF ReadAsLeft
<1>2. CASE ScanFails
  BY <1>2, NoScanIsRead DEF ScanFails, Fails
<1>3. scan.pc = "walk" /\ scan.eco \in Hooked
  BY DEF WalkArchive, ScanFails, EndOfArchive, SkipEntry, HookEntry, NestedArchive, AtEntry, ReadAsLeft
<1>4. CASE EndOfArchive \/ SkipEntry \/ NestedArchive
  <2>1. /\ DOMAIN scan' = ScanFields /\ scan'.eco = scan.eco
        /\ scan'.left = scan.left /\ scan'.out = scan.out
    BY <1>1, <1>4, ScanFieldsAre
       DEF EndOfArchive, SkipEntry, NestedArchive, Walks, Counted, Consume, Read
  <2> QED BY <1>3, <2>1 DEF ReadAsLeft
<1>5. CASE HookEntry
  <2>1. PICK p \in InterestingFor[scan.eco], spelling \in Spellings, file \in Files, n \in Sizes :
          ReadFile(p, spelling, file, n)
    BY <1>3, <1>5, HookPathsAreRead DEF HookEntry
  <2> DEFINE u == Unpacked(p, spelling)
  <2>2. /\ DOMAIN scan' = ScanFields /\ scan'.eco = scan.eco
        /\ scan'.left = Put(scan.left, u, file) /\ scan'.out = Put(scan.out, p, file)
    BY <1>1, <2>1, ScanFieldsAre DEF ReadFile, Walks, Counted, Consume, Read
  <2>3. u[3] = p /\ p \in LocatedIn[scan.eco]
    BY <1>3, HookPathsAreRead DEF Unpacked
  <2> HIDE DEF u
  <2>4. /\ DOMAIN scan'.out = DOMAIN scan.out \cup {p} /\ scan'.out[p] = file
        /\ \A q \in DOMAIN scan.out \ {p} : scan'.out[q] = scan.out[q]
        /\ DOMAIN scan'.left = DOMAIN scan.left \cup {u} /\ scan'.left[u] = file
        /\ \A k \in DOMAIN scan.left \ {u} : scan'.left[k] = scan.left[k]
    BY <2>2 DEF Put
  <2>5. \A k \in DOMAIN scan'.left : k[3] \in DOMAIN scan'.out /\ k[3] \in LocatedIn[scan.eco]
    BY <1>3, <2>3, <2>4 DEF ReadAsLeft
  <2>6. ASSUME NEW q \in DOMAIN scan'.out
        PROVE  \E k \in DOMAIN scan'.left : k[3] = q /\ scan'.left[k] = scan'.out[q]
    <3>1. CASE q = p
      BY <2>3, <2>4, <3>1
    <3>2. CASE q # p
      <4>1. PICK k \in DOMAIN scan.left : k[3] = q /\ scan.left[k] = scan.out[q]
        BY <1>3, <2>4, <3>2 DEF ReadAsLeft
      <4>2. k # u
        BY <2>3, <3>2, <4>1
      <4> QED BY <2>4, <3>2, <4>1, <4>2
    <3> QED BY <3>1, <3>2
  <2> QED BY <1>3, <2>2, <2>5, <2>6 DEF ReadAsLeft
<1> QED BY <1>2, <1>4, <1>5 DEF WalkArchive

LEMMA StepsKeepJudgment == JudgeInv /\ [Next]_vars => JudgeInv'
<1> SUFFICES ASSUME JudgeInv, [Next]_vars PROVE JudgeInv'
  OBVIOUS
<1>1. ReadAsLeft(scan) /\ "pc" \in DOMAIN me
  BY DEF JudgeInv
<1>2. CASE Decided /\ job' = job
  <2>1. scan' = NoScan /\ "pc" \in DOMAIN me' /\ me'.pc \in {"resolve", "forums", "done"}
    BY <1>2 DEF Decided, Fresh
  <2> QED BY <2>1, NoScanIsRead DEF JudgeInv
<1>3. ASSUME UNCHANGED <<scan, job>>, "pc" \in DOMAIN me', me'.pc = me.pc \/ me'.pc \notin {"locate", "locating", "fetch"}
      PROVE  JudgeInv'
  BY <1>3 DEF JudgeInv
<1>4. CASE Judged \/ ResolveUnasked \/ TakeToken \/ AskRegistry \/ Fetching \/ ResolveEnds
           \/ RegistryChanges \/ Foruming \/ FetchFails \/ ScanEnds \/ UNCHANGED vars
  <2>1. \/ Decided /\ job' = job
        \/ /\ UNCHANGED <<scan, job>> /\ "pc" \in DOMAIN me'
           /\ \/ me'.pc = me.pc \/ me'.pc \notin {"locate", "locating", "fetch"}
              \/ me'.pc = "locate" /\ job.eco \in Scripted
    BY <1>1, <1>4 DEF Judged, ResolveUnasked, TakeToken, AskRegistry, Fetching, ResolveEnds, RegistryChanges,
          Foruming, FetchFails, ScanEnds, Resolved, AskAgain, vars
  <2> QED BY <1>1, <1>2, <1>3, <2>1 DEF JudgeInv
<1>5. CASE StartScan
  <2>1. \/ Decided /\ job' = job
        \/ /\ UNCHANGED <<scan, job>> /\ "pc" \in DOMAIN me' /\ job.eco # "docker"
           /\ me'.pc = IF job.eco \in Governed THEN "fetch" ELSE "locating"
           /\ me.pc = "locate"
    BY <1>1, <1>5 DEF StartScan
  <2> QED BY <1>1, <1>2, <2>1 DEF JudgeInv, Scripted, Hooked, Governed
<1>6. CASE LocateEnds
  <2>1. \/ Decided /\ job' = job
        \/ /\ UNCHANGED <<scan, job>> /\ "pc" \in DOMAIN me'
           /\ me'.pc \in {"locating", "fetch"} /\ me.pc = "locating"
    BY <1>1, <1>6 DEF LocateEnds, AskAgain
  <2> QED BY <1>1, <1>2, <2>1 DEF JudgeInv, Hooked
<1>7. CASE Fetch
  <2>1. PICK zip : Open(job.eco, zip)
    BY <1>7 DEF Fetch
  <2>2. job.eco \in Hooked /\ "pc" \in DOMAIN me' /\ me'.pc = "scan"
    BY <1>7 DEF Fetch, JudgeInv, Fresh
  <2> QED BY <2>1, <2>2, OpenReadsAsLeft DEF JudgeInv
<1>8. CASE Scanning
  <2>1. WalkArchive /\ me' = me /\ job' = job
    BY <1>8 DEF Scanning
  <2> QED BY <1>1, <2>1, WalkReadsAsLeft DEF JudgeInv
<1> QED BY <1>4, <1>5, <1>6, <1>7, <1>8 DEF Next, Step

\* A scan that finishes blocks a package of which a hook that unpacking one of its
\* streams leaves, and whose cleaned path no other stream or spelling has, fetches and
\* executes, or executes what it hides.
THEOREM ScanAlwaysJudges == Spec => []ScanJudgesWhatStays
<1>1. Init => JudgeInv
  BY NoScanIsRead DEF Init, JudgeInv, Fresh
<1>2. JudgeInv => ScanJudgesWhatStays
  <2> SUFFICES ASSUME JudgeInv, scan.pc = "done",
                      NEW k \in DOMAIN scan.left, Alone(k),
                      NEW h \in HooksOf(scan.eco, scan.left[k]), High(h) \/ Hidden(h)
               PROVE  Blocks(Detect(Locate(scan.eco, scan.out)))
    BY DEF ScanJudgesWhatStays
  <2> DEFINE p == k[3]
  <2>1. p \in DOMAIN scan.out /\ p \in LocatedIn[scan.eco]
    BY DEF JudgeInv, ReadAsLeft
  <2>2. scan.out[p] = scan.left[k]
    <3>1. PICK j \in DOMAIN scan.left : j[3] = p /\ scan.left[j] = scan.out[p]
      BY <2>1 DEF JudgeInv, ReadAsLeft
    <3>2. j = k
      BY <3>1 DEF Alone
    <3> QED BY <3>1, <3>2
  <2> HIDE DEF p
  <2>3. h \in Locate(scan.eco, scan.out)
    BY <2>1, <2>2 DEF Locate
  <2> QED BY <2>3 DEF Detect, Blocks
<1> QED BY <1>1, <1>2, StepsKeepJudgment, PTL DEF Spec

-----------------------------------------------------------------------------
(* A call of GetJSON, and the time it takes. *)

\* The greatest and the least of some numbers.
LEMMA MaxOfNumbers ==
  ASSUME NEW S, S \subseteq Nat, IsFiniteSet(S), S # {}
  PROVE  Max(S) \in S /\ \A x \in S : x <= Max(S)
<1> DEFINE F == {T \in SUBSET Nat : T # {} => \E m \in T : \A x \in T : x <= m}
<1>1. ASSUME NEW T \in SUBSET Nat, IsFiniteSet(T), \A x \in T : T \ {x} \in F
      PROVE  T \in F
  <2> SUFFICES ASSUME T # {} PROVE \E m \in T : \A x \in T : x <= m
    OBVIOUS
  <2>1. PICK a \in T : TRUE
    OBVIOUS
  <2>2. CASE T \ {a} = {}
    BY <2>1, <2>2
  <2>3. CASE T \ {a} # {}
    <3>1. PICK m \in T \ {a} : \A x \in T \ {a} : x <= m
      BY <1>1, <2>1, <2>3
    <3>2. CASE a <= m
      BY <3>1, <3>2
    <3>3. CASE ~(a <= m)
      <4>1. \A x \in T : x <= a
        BY <2>1, <3>1, <3>3
      <4> QED BY <2>1, <4>1
    <3> QED BY <3>2, <3>3
  <2> QED BY <2>2, <2>3
<1>2. S \in F
  <2> HIDE DEF F
  <2> QED BY <1>1, SetInduction
<1>3. \E m \in S : \A x \in S : m >= x
  BY <1>2
<1>4. Max(S) \in S /\ \A x \in S : Max(S) >= x
  BY <1>3 DEF Max
<1> QED BY <1>4

LEMMA MinOfNumbers ==
  ASSUME NEW S, S \subseteq Nat, S # {}
  PROVE  Min(S) \in S /\ \A x \in S : Min(S) <= x
<1>1. \E m \in S : \A x \in S : m <= x
  BY LeastNumber
<1> QED BY <1>1 DEF Min

\* What the first k waits take at most.
Waited(k) == SumFunction([n \in 1..k |-> Max(Backoff[n])])
Attempts(k) == k * Timeout

LEMMA LongestWaits ==
  ASSUME NEW n \in 1..MaxRetries
  PROVE  /\ Backoff[n] \subseteq Nat /\ Max(Backoff[n]) \in Nat
         /\ \A d \in Backoff[n] : d <= Max(Backoff[n])
BY ClientAssumption, MaxOfNumbers

LEMMA WaitedOnce ==
  /\ Waited(0) = 0
  /\ \A k \in 0..MaxRetries : Waited(k) \in Nat
  /\ \A k \in 1..MaxRetries : Waited(k) = Waited(k - 1) + Max(Backoff[k])
<1> DEFINE waits(k) == [n \in 1..k |-> Max(Backoff[n])]
<1>1. ASSUME NEW k \in 0..MaxRetries PROVE waits(k) \in Seq(Nat) /\ Len(waits(k)) = k
  <2>1. k \in Nat /\ 1..k \subseteq 1..MaxRetries
    BY ClientAssumption
  <2>2. \A n \in 1..k : Max(Backoff[n]) \in Nat
    BY <2>1, LongestWaits
  <2> QED BY <2>1, <2>2
<1>2. Waited(0) = 0
  <2>1. DOMAIN waits(0) = {}
    OBVIOUS
  <2> HIDE DEF waits
  <2>2. SumFunction(waits(0)) = 0
    BY <2>1, SumOfNone
  <2> QED BY <2>2 DEF waits, Waited
<1>3. \A k \in 0..MaxRetries : Waited(k) \in Nat
  <2> SUFFICES ASSUME NEW k \in 0..MaxRetries PROVE Waited(k) \in Nat
    OBVIOUS
  <2> DEFINE s == waits(k)
  <2>1. s \in Seq(Nat)
    BY <1>1
  <2>2. Waited(k) = SumFunction(s)
    BY DEF Waited
  <2> HIDE DEF s
  <2> QED BY <2>1, <2>2, SumOfSequence
<1>4. ASSUME NEW k \in 1..MaxRetries PROVE Waited(k) = Waited(k - 1) + Max(Backoff[k])
  <2> DEFINE s == waits(k)
  <2>1. s \in Seq(Nat) /\ Len(s) = k /\ k >= 1 /\ k \in Nat
    BY <1>1, ClientAssumption
  <2>2. s[k] = Max(Backoff[k]) /\ \A n \in 1..(k - 1) : s[n] = Max(Backoff[n])
    BY <2>1
  <2>3. Waited(k) = SumFunction(s)
    BY DEF Waited
  <2> HIDE DEF s
  <2>4. SubSeq(s, 1, k - 1) = [n \in 1..(k - 1) |-> Max(Backoff[n])]
    <3>1. SubSeq(s, 1, k - 1) = [n \in 1..(k - 1) |-> s[n]]
      BY <2>1
    <3> QED BY <2>2, <3>1
  <2>5. s # <<>>
    BY <2>1
  <2> QED BY <2>1, <2>2, <2>3, <2>4, <2>5, SumLast DEF Waited
<1> QED BY <1>2, <1>3, <1>4

LEMMA AttemptsAre ==
  ASSUME NEW k \in Nat
  PROVE  Attempts(k) \in Nat /\ Attempts(k + 1) = Attempts(k) + Timeout
BY ClientAssumption DEF Attempts

\* Fewer attempts take no longer.
LEMMA FewerIsShorter ==
  \A k \in 0..MaxRetries :
    Attempts(k + 1) + Waited(k) <= Attempts(MaxRetries + 1) + LongestWait
<1> DEFINE r == MaxRetries
           Span(k) == Attempts(k + 1) + Waited(k)
           S == {m \in Nat : m <= r => Span(r - m) <= Span(r)}
<1>0. r \in Nat /\ Timeout \in Nat
  BY ClientAssumption
<1>1. 0 \in S
  <2>1. Attempts(r + 1) \in Nat /\ Waited(r) \in Nat /\ r - 0 = r
    BY <1>0, WaitedOnce, AttemptsAre
  <2> HIDE DEF r
  <2> QED BY <2>1
<1>2. ASSUME NEW m \in Nat, m \in S PROVE m + 1 \in S
  <2> SUFFICES ASSUME m + 1 <= r PROVE Span(r - (m + 1)) <= Span(r)
    OBVIOUS
  <2> DEFINE k == r - (m + 1)
  <2>1. k \in 0..r /\ k + 1 \in 1..r /\ k + 1 = r - m /\ m <= r /\ k \in Nat /\ (k + 1) - 1 = k
    BY <1>0
  <2>2. Span(k + 1) <= Span(r)
    BY <1>2, <2>1
  <2> HIDE DEF k
  <2>3. /\ Waited(k + 1) = Waited(k) + Max(Backoff[k + 1]) /\ Max(Backoff[k + 1]) \in Nat
        /\ Waited(k) \in Nat /\ Waited(k + 1) \in Nat /\ Waited(r) \in Nat
    BY <1>0, <2>1, WaitedOnce, LongestWaits
  <2>4. /\ Attempts(k + 1 + 1) = Attempts(k + 1) + Timeout /\ Attempts(k + 1) \in Nat
        /\ Attempts(r + 1) \in Nat
    BY <1>0, <2>1, AttemptsAre
  <2>5. Span(k) <= Span(k + 1)
    <3> HIDE DEF r
    <3> QED BY <1>0, <2>3, <2>4
  <2>6. Span(k) \in Nat /\ Span(k + 1) \in Nat /\ Span(r) \in Nat
    <3> HIDE DEF r
    <3> QED BY <1>0, <2>3, <2>4
  <2> HIDE DEF Span
  <2>7. Span(k) <= Span(r)
    BY <2>2, <2>5, <2>6
  <2> QED BY <2>7 DEF k
<1> HIDE DEF S
<1>3. Nat \subseteq S
  BY <1>1, <1>2, NumberInduction
<1>4. ASSUME NEW k \in 0..r PROVE Span(k) <= Span(r)
  <2>1. r - k \in Nat /\ r - k <= r /\ r - (r - k) = k
    BY <1>0
  <2>2. r - k <= r => Span(r - (r - k)) <= Span(r)
    BY <1>3, <2>1 DEF S
  <2> HIDE DEF r, Span
  <2> QED BY <2>1, <2>2
<1> QED BY <1>4 DEF LongestWait, Waited

GetFields == DOMAIN NoGet

LEMMA GetFieldsAre ==
  GetFields = {"pc", "url", "attempt", "deadline", "began", "err", "doc", "at"}
BY DEF GetFields, NoGet

\* A call that is tried again, or ends.
Goes(g, h) ==
  \/ h.pc = "done" /\ h.attempt = g.attempt
  \/ h.pc = "backoff" /\ g.attempt # MaxRetries /\ h.attempt = g.attempt + 1

\* What no step of a call changes.
SameCall(g, h) ==
  /\ DOMAIN h = GetFields
  /\ h.url = g.url /\ h.deadline = g.deadline /\ h.began = g.began

LEMMA FailedGoes ==
  ASSUME NEW g, DOMAIN g = GetFields, NEW err, err # "none", Failed(g, err)
  PROVE  /\ SameCall(g, get') /\ Goes(g, get')
         /\ get'.doc = g.doc /\ get'.at = g.at /\ (get'.pc = "done" => get'.err # "none")
<1>1. CASE get' = [g EXCEPT !.pc = "done", !.err = err]
  BY <1>1, GetFieldsAre DEF SameCall, Goes
<1>2. CASE g.attempt # MaxRetries /\ get' = [g EXCEPT !.pc = "backoff", !.attempt = @ + 1]
  BY <1>2, GetFieldsAre DEF SameCall, Goes
<1> QED BY <1>1, <1>2 DEF Failed, Returns

\* What an attempt may decode into the document in hand.
Reads(g, h, served, lists) ==
  \E fields \in SUBSET {"tags", "dates"} :
    /\ h.doc = Decode(g.doc, served, fields, lists) /\ h.at = g.at \cup {registry}
    /\ h.pc = "done" /\ h.err = "none" => fields = {"tags", "dates"}

Learns(g, h, served, lists) ==
  \/ h.doc = g.doc /\ h.at = g.at /\ ~(h.pc = "done" /\ h.err = "none")
  \/ Reads(g, h, served, lists)

\* The steps of a call.
LEMMA FetchingSteps ==
  ASSUME LookupInv, DOMAIN get = GetFields, Fetching
  PROVE  /\ now' \in Nat /\ SameCall(get, get') /\ Learns(get, get', Served, Lists)
         /\ \/ get.pc = "send" /\ Goes(get, get') /\ now' <= now + Timeout
            \/ /\ get.pc = "backoff" /\ get'.pc \in {"send", "done"} /\ get'.attempt = get.attempt
               /\ \E d \in Backoff[get.attempt] : now' <= now + d
<1>1. /\ now \in Nat /\ get.deadline \subseteq Nat /\ \A s, t \in get.deadline : s = t
      /\ get.attempt \in 0..MaxRetries /\ (get.pc = "backoff" => get.attempt # 0)
      /\ Durations \subseteq 0..Timeout /\ Timeout \in Nat /\ now' \in Nat
  BY ClientAssumption, FetchingKeepsBudget DEF LookupInv, BucketInv, BudgetInv, CallOK
<1>2. ASSUME NEW d \in Nat, Cut(d), now' \in get.deadline PROVE now' <= now + d
  BY <1>1, <1>2 DEF Cut
<1>3. ASSUME NEW d \in Durations PROVE d \in Nat /\ now + d <= now + Timeout
  BY <1>1
<1>4. CASE AttemptFails
  <2>1. PICK err \in {"unreachable", "limited", "unparsable"} \cup Terminal : Failed(get, err)
    BY <1>4 DEF AttemptFails
  <2>2. err # "none" /\ get.pc = "send"
    BY <1>4 DEF AttemptFails, Terminal
  <2>3. now' <= now + Timeout
    BY <1>3, <1>4 DEF AttemptFails, Elapse
  <2> QED BY <1>1, <2>1, <2>2, <2>3, FailedGoes DEF Learns
<1>5. CASE AttemptCut
  <2>1. get.pc = "send" /\ Failed(get, "unreachable")
    BY <1>5 DEF AttemptCut
  <2>2. PICK d \in Durations : Cut(d) /\ now' \in get.deadline
    BY <1>5 DEF AttemptCut
  <2>3. now' <= now + Timeout
    <3>1. d \in Nat /\ now + d <= now + Timeout /\ now' <= now + d
      BY <1>2, <1>3, <2>2
    <3> QED BY <1>1, <3>1
  <2> QED BY <1>1, <2>1, <2>3, FailedGoes DEF Learns
<1>6. CASE BackOff
  <2>1. get.pc = "backoff" /\ get.attempt \in 1..MaxRetries
    BY <1>1, <1>6, ClientAssumption DEF BackOff
  <2>2. PICK d \in Backoff[get.attempt] :
          IF Cut(d) THEN now' \in get.deadline /\ Returns(get, "unreachable")
                    ELSE Elapse(d) /\ get' = [get EXCEPT !.pc = "send"]
    BY <1>6 DEF BackOff
  <2>3. d \in Nat
    BY <2>1, ClientAssumption
  <2>4. now' <= now + d
    BY <1>1, <1>2, <2>2, <2>3 DEF Elapse
  <2>5. /\ get'.pc \in {"send", "done"} /\ get'.attempt = get.attempt /\ SameCall(get, get')
        /\ get'.doc = get.doc /\ get'.at = get.at /\ ~(get'.pc = "done" /\ get'.err = "none")
    BY <2>2, GetFieldsAre DEF Returns, SameCall
  <2> QED BY <1>1, <2>1, <2>2, <2>4, <2>5 DEF Learns
<1>7. CASE AttemptMistyped(Served, Lists)
  <2>1. PICK fields \in SUBSET {"tags", "dates"} :
          Failed([get EXCEPT !.doc = Decode(@, Served, fields, Lists),
                             !.at = @ \cup {registry}], "unparsable")
    BY <1>7 DEF AttemptMistyped
  <2> DEFINE g == [get EXCEPT !.doc = Decode(@, Served, fields, Lists), !.at = @ \cup {registry}]
  <2>2. /\ DOMAIN g = GetFields /\ g.doc = Decode(get.doc, Served, fields, Lists)
        /\ g.at = get.at \cup {registry} /\ g.pc = get.pc /\ g.attempt = get.attempt
        /\ g.url = get.url /\ g.deadline = get.deadline /\ g.began = get.began
    BY GetFieldsAre
  <2>3. /\ SameCall(g, get') /\ Goes(g, get')
        /\ get'.doc = g.doc /\ get'.at = g.at /\ (get'.pc = "done" => get'.err # "none")
    <3> HIDE DEF g
    <3> QED BY <2>1, <2>2, FailedGoes DEF g
  <2> HIDE DEF g
  <2>4. SameCall(get, get') /\ Goes(get, get') /\ Learns(get, get', Served, Lists)
    BY <2>2, <2>3 DEF SameCall, Goes, Learns, Reads
  <2>5. get.pc = "send" /\ now' <= now + Timeout
    BY <1>3, <1>7 DEF AttemptMistyped, Elapse
  <2> QED BY <1>1, <2>4, <2>5
<1>8. CASE AttemptAnswers(Served, Lists)
  <2> DEFINE fields == {"tags", "dates"}
             g == [get EXCEPT !.doc = Decode(@, Served, fields, Lists), !.at = @ \cup {registry}]
  <2>1. get.pc = "send" /\ Returns(g, "none") /\ now' <= now + Timeout
    BY <1>3, <1>8 DEF AttemptAnswers, Elapse
  <2>2. /\ DOMAIN g = GetFields /\ g.doc = Decode(get.doc, Served, fields, Lists)
        /\ g.at = get.at \cup {registry} /\ g.attempt = get.attempt
        /\ g.url = get.url /\ g.deadline = get.deadline /\ g.began = get.began
    BY GetFieldsAre
  <2> HIDE DEF g
  <2>3. /\ DOMAIN get' = DOMAIN g /\ get'.pc = "done" /\ get'.doc = g.doc /\ get'.at = g.at
        /\ get'.attempt = g.attempt /\ get'.url = g.url /\ get'.deadline = g.deadline
        /\ get'.began = g.began
    BY <2>1, <2>2, GetFieldsAre DEF Returns
  <2>4. Reads(get, get', Served, Lists)
    BY <2>2, <2>3 DEF Reads
  <2>5. SameCall(get, get') /\ Goes(get, get')
    BY <2>2, <2>3 DEF SameCall, Goes
  <2> QED BY <1>1, <2>1, <2>4, <2>5 DEF Learns
<1> QED BY <1>4, <1>5, <1>6, <1>7, <1>8 DEF Fetching

\* A call that was called, and one that was not.
LEMMA CallsAre ==
  /\ DOMAIN NoGet = GetFields /\ NoGet.pc = "idle"
  /\ \A url, deadline :
       Call(url, deadline) =>
         /\ DOMAIN get' = GetFields /\ get'.pc = "send" /\ get'.url = url /\ get'.attempt = 0
         /\ get'.deadline = deadline /\ get'.began = now /\ get'.doc = EmptyDoc /\ get'.at = {}
BY DEF GetFields, NoGet, Call

\* At most what this many attempts and the waits between them take.
Timely(g, t) ==
  /\ DOMAIN g = GetFields
  /\ g.pc # "idle" => g.began \in Nat
  /\ g.pc = "send" => t - g.began <= Attempts(g.attempt) + Waited(g.attempt)
  /\ g.pc = "backoff" => t - g.began <= Attempts(g.attempt) + Waited(g.attempt - 1)
  /\ g.pc = "done" => t - g.began <= Attempts(g.attempt + 1) + Waited(g.attempt)
  /\ g.pc \in {"idle", "send", "backoff", "done"}

TimeInv == LookupInv /\ Timely(get, now)

LEMMA FetchingIsTimely ==
  ASSUME TimeInv, Fetching
  PROVE  Timely(get', now')
<1>1. LookupInv /\ Timely(get, now) /\ DOMAIN get = GetFields
  BY DEF TimeInv, Timely
<1>2. /\ now' \in Nat /\ SameCall(get, get')
      /\ \/ get.pc = "send" /\ Goes(get, get') /\ now' <= now + Timeout
         \/ /\ get.pc = "backoff" /\ get'.pc \in {"send", "done"} /\ get'.attempt = get.attempt
            /\ \E d \in Backoff[get.attempt] : now' <= now + d
  BY <1>1, FetchingSteps
<1> DEFINE k == get.attempt
           b == get.began
<1>3. k \in 0..MaxRetries /\ k \in Nat /\ now \in Nat /\ Timeout \in Nat /\ (get.pc = "backoff" => k # 0)
  BY <1>1, ClientAssumption DEF LookupInv, BucketInv, BudgetInv, CallOK
<1>4. b \in Nat /\ get'.began = b /\ DOMAIN get' = GetFields
  BY <1>1, <1>2 DEF Timely, SameCall
<1>5. Attempts(k) \in Nat /\ Attempts(k + 1) = Attempts(k) + Timeout /\ Waited(k) \in Nat
  BY <1>3, WaitedOnce, AttemptsAre
<1>6. CASE get.pc = "send"
  <2>1. Goes(get, get') /\ now' <= now + Timeout
    BY <1>2, <1>6
  <2>2. now - b <= Attempts(k) + Waited(k)
    BY <1>1, <1>6 DEF Timely
  <2>3. now' - b <= Attempts(k + 1) + Waited(k)
    <3> HIDE DEF k, b
    <3> QED BY <1>2, <1>3, <1>4, <1>5, <2>1, <2>2
  <2>4. CASE get'.pc = "done" /\ get'.attempt = k
    BY <1>4, <2>3, <2>4 DEF Timely
  <2>5. CASE get'.pc = "backoff" /\ get'.attempt = k + 1
    <3>1. get'.attempt - 1 = k
      BY <1>3, <2>5
    <3> QED BY <1>4, <2>3, <2>5, <3>1 DEF Timely
  <2> QED BY <2>1, <2>4, <2>5 DEF Goes
<1>7. CASE get.pc = "backoff"
  <2>1. PICK d \in Backoff[k] : now' <= now + d
    BY <1>2, <1>7
  <2>2. k \in 1..MaxRetries /\ k - 1 \in 0..MaxRetries
    BY <1>3, <1>7, ClientAssumption
  <2>3. d \in Nat /\ d <= Max(Backoff[k]) /\ Max(Backoff[k]) \in Nat
    BY <2>2, LongestWaits
  <2>4. Waited(k) = Waited(k - 1) + Max(Backoff[k]) /\ Waited(k - 1) \in Nat
    BY <2>2, WaitedOnce
  <2>5. now - b <= Attempts(k) + Waited(k - 1)
    BY <1>1, <1>7 DEF Timely
  <2>6. now' - b <= Attempts(k) + Waited(k) /\ now' - b <= Attempts(k + 1) + Waited(k)
    <3> HIDE DEF k, b
    <3> QED BY <1>2, <1>3, <1>4, <1>5, <2>1, <2>3, <2>4, <2>5
  <2>7. get'.pc \in {"send", "done"} /\ get'.attempt = k
    BY <1>2, <1>7
  <2> QED BY <1>4, <2>6, <2>7 DEF Timely
<1> QED BY <1>2, <1>6, <1>7

LEMMA NewCallIsTimely ==
  ASSUME now \in Nat, NEW url, NEW deadline, Call(url, deadline)
  PROVE  Timely(get', now)
<1>1. /\ DOMAIN get' = GetFields /\ get'.pc = "send" /\ get'.attempt = 0 /\ get'.began = now
  BY CallsAre
<1>2. Attempts(0) \in Nat /\ Waited(0) = 0 /\ now - now = 0
  BY WaitedOnce, AttemptsAre
<1>3. get'.began \in Nat /\ now - get'.began <= Attempts(get'.attempt) + Waited(get'.attempt)
  BY <1>1, <1>2
<1> QED BY <1>1, <1>3 DEF Timely

LEMMA StepsKeepTime == TimeInv /\ [Next]_vars => TimeInv'
<1> SUFFICES ASSUME TimeInv, [Next]_vars PROVE Timely(get', now')
  BY StepsKeepBudget DEF TimeInv
<1>1. LookupInv /\ Timely(get, now) /\ now \in Nat
  BY DEF TimeInv, LookupInv, BucketInv
<1>2. ASSUME DOMAIN get' = GetFields, get'.pc = "idle" PROVE Timely(get', now')
  BY <1>2 DEF Timely
<1>3. CASE get' = NoGet
  BY <1>2, <1>3, CallsAre
<1>4. CASE get' = get /\ get.pc = "idle"
  BY <1>1, <1>2, <1>4 DEF Timely
<1>5. CASE get' = get /\ now' = now
  BY <1>1, <1>5
<1>6. CASE Fetching
  BY <1>6, FetchingIsTimely
<1>7. CASE now' = now /\ \E url, deadline : Call(url, deadline)
  BY <1>1, <1>7, NewCallIsTimely
<1>8. CASE TakeToken \/ Fetch \/ FetchFails
  <2>1. get.pc = "idle" /\ (get' = get \/ get' = NoGet)
    BY <1>1, <1>8 DEF LookupInv, BudgetInv, TakeToken, Fetch, FetchFails, Decided
  <2> QED BY <1>3, <1>4, <2>1
<1>9. CASE UNCHANGED vars \/ RegistryChanges \/ ResolveUnasked \/ Judged \/ Scanning \/ ScanEnds \/ Foruming
  <2>1. now' = now /\ (get' = get \/ get' = NoGet)
    BY <1>9 DEF vars, RegistryChanges, ResolveUnasked, Judged, Scanning, ScanEnds, Foruming, Decided, Resolved
  <2> QED BY <1>3, <1>5, <2>1
<1>10. CASE AskRegistry \/ ResolveEnds \/ StartScan \/ LocateEnds
  <2>1. now' = now /\ (get' = get \/ get' = NoGet \/ \E url, deadline : Call(url, deadline))
    BY <1>10 DEF AskRegistry, ResolveEnds, StartScan, LocateEnds, Decided, Resolved, AskAgain
  <2> QED BY <1>3, <1>5, <1>7, <2>1
<1> QED BY <1>6, <1>8, <1>9, <1>10 DEF Next, Step

\* No call of GetJSON takes longer than all its attempts and all its backoffs, whatever
\* jitter and deadline do to them.
THEOREM CallsAlwaysInTime == Spec => []InTime
<1>1. Init => TimeInv
  <2> SUFFICES ASSUME Init PROVE TimeInv
    OBVIOUS
  <2>1. get = NoGet
    BY DEF Init
  <2>2. Timely(get, now)
    BY <2>1, CallsAre DEF Timely
  <2> QED BY <2>2, InitiallyInBudget DEF TimeInv
<1>2. TimeInv => InTime
  <2> SUFFICES ASSUME TimeInv, get.pc # "idle"
               PROVE  now - get.began <= Attempts(MaxRetries + 1) + LongestWait
    BY DEF InTime, Attempts
  <2> DEFINE k == get.attempt
             b == get.began
  <2>1. /\ k \in 0..MaxRetries /\ k \in Nat /\ now \in Nat /\ b \in Nat /\ Timeout \in Nat
        /\ (get.pc = "backoff" => k # 0)
    BY ClientAssumption DEF TimeInv, Timely, LookupInv, BucketInv, BudgetInv, CallOK
  <2>2. Attempts(k) \in Nat /\ Attempts(k + 1) = Attempts(k) + Timeout /\ Waited(k) \in Nat
    BY <2>1, WaitedOnce, AttemptsAre
  <2>3. Attempts(k + 1) + Waited(k) <= Attempts(MaxRetries + 1) + LongestWait
    BY <2>1, FewerIsShorter
  <2>4. now - b <= Attempts(k + 1) + Waited(k)
    <3>1. CASE get.pc = "done"
      BY <3>1 DEF TimeInv, Timely
    <3>2. CASE get.pc = "send"
      <4>1. now - b <= Attempts(k) + Waited(k)
        BY <3>2 DEF TimeInv, Timely
      <4> HIDE DEF k, b
      <4> QED BY <2>1, <2>2, <4>1
    <3>3. CASE get.pc = "backoff"
      <4>1. now - b <= Attempts(k) + Waited(k - 1)
        BY <3>3 DEF TimeInv, Timely
      <4>2. k \in 1..MaxRetries /\ k - 1 \in 0..MaxRetries
        BY <2>1, <3>3, ClientAssumption
      <4>3. /\ Waited(k) = Waited(k - 1) + Max(Backoff[k]) /\ Waited(k - 1) \in Nat
            /\ Max(Backoff[k]) \in Nat
        BY <4>2, WaitedOnce, LongestWaits
      <4> HIDE DEF k, b
      <4> QED BY <2>1, <2>2, <4>1, <4>3
    <3> QED BY <3>1, <3>2, <3>3 DEF TimeInv, Timely
  <2>5. Attempts(MaxRetries + 1) \in Nat /\ LongestWait \in Nat
    <3>1. MaxRetries \in 0..MaxRetries /\ MaxRetries + 1 \in Nat
      BY ClientAssumption
    <3>2. LongestWait = Waited(MaxRetries)
      BY DEF LongestWait, Waited
    <3> QED BY <3>1, <3>2, AttemptsAre, WaitedOnce
  <2> HIDE DEF k, b
  <2> QED BY <2>1, <2>2, <2>3, <2>4, <2>5 DEF b
<1> QED BY <1>1, <1>2, StepsKeepTime, PTL DEF Spec

-----------------------------------------------------------------------------
(* What the registries answered, and what is made of it. *)

ArtifactFields == DOMAIN Fresh(1)
Keys == Versions \cup {None, "digest", "tag", "elsewhere"}

LEMMA ArtifactFieldsAre ==
  ArtifactFields = {"pc", "at", "wanted", "key", "date", "located", "began", "seen", "moved"}
BY DEF ArtifactFields, Fresh

LEMMA JobsAre ==
  ASSUME NEW j \in Jobs
  PROVE  /\ j.eco \in {"npm", "pypi", "cargo", "gem", "go", "github", "docker", "mcp"}
         /\ j.version \in Keys /\ (j.eco # "docker" => j.version \in Versions \cup {None})
         /\ Contents[j.eco] \subseteq Documents
         /\ j.segments \in Nat /\ j.segments >= 1 /\ j.changes \in Nat
         /\ {"published_at", "pushed_at", "created_at", "tag_last_pushed", "last_updated"} \subseteq Versions
BY JobsAssumption DEF Keys

\* A document, field by field.
LEMMA DocumentsAre ==
  /\ \A d : d \in Documents <=>
       /\ d = [tags |-> d.tags, dates |-> d.dates]
       /\ d.tags \in [1..2 -> Versions \cup {None}]
       /\ d.dates \in [Versions -> SUBSET (Nat \cup {Bad})]
  /\ EmptyDoc \in Documents
  /\ EmptyDoc.tags = <<None, None>> /\ \A v \in Versions : EmptyDoc.dates[v] = {}
<1>1. \A d : d \in Documents <=>
       /\ d = [tags |-> d.tags, dates |-> d.dates]
       /\ d.tags \in [1..2 -> Versions \cup {None}]
       /\ d.dates \in [Versions -> SUBSET (Nat \cup {Bad})]
  BY DEF Documents
<1>2. EmptyDoc.tags = <<None, None>> /\ EmptyDoc.dates = [v \in Versions |-> {}]
  BY DEF EmptyDoc
<1>3. <<None, None>> \in [1..2 -> Versions \cup {None}]
  OBVIOUS
<1>4. EmptyDoc \in Documents
  BY <1>2, <1>3 DEF Documents, EmptyDoc
<1> QED BY <1>1, <1>2, <1>4

LEMMA ServedIsDocument ==
  ASSUME registry \in Documents
  PROVE  /\ Served \in Documents
         /\ \A i \in 1..2 : Served.tags[i] # None => Served.tags[i] = registry.tags[i]
         /\ \A v \in Versions : Served.dates[v] # {} => Served.dates[v] = registry.dates[v]
<1>1. /\ Served.tags = registry.tags \/ Served.tags = EmptyDoc.tags
      /\ Served.dates = [v \in Versions |-> IF v \in DatesAt(get.url, me.wanted)
                                            THEN registry.dates[v] ELSE {}]
      /\ Served = [tags |-> Served.tags, dates |-> Served.dates]
  BY DEF Served
<1>2. Served.tags \in [1..2 -> Versions \cup {None}]
  BY <1>1, DocumentsAre
<1>3. Served.dates \in [Versions -> SUBSET (Nat \cup {Bad})]
  BY <1>1, DocumentsAre
<1>4. Served \in Documents
  BY <1>1, <1>2, <1>3, DocumentsAre
<1>5. \A i \in 1..2 : Served.tags[i] # None => Served.tags[i] = registry.tags[i]
  BY <1>1, DocumentsAre
<1>6. \A v \in Versions : Served.dates[v] # {} => Served.dates[v] = registry.dates[v]
  BY <1>1
<1> QED BY <1>4, <1>5, <1>6

\* Whatever a document in hand says, one of the answers said.
FromAnswers(doc, at) ==
  /\ \A i \in 1..2 : doc.tags[i] # None => \E m \in at : m.tags[i] = doc.tags[i]
  /\ \A v \in Versions : doc.dates[v] # {} => \E m \in at : m.dates[v] = doc.dates[v]

LEMMA DecodedFromAnswers ==
  ASSUME registry \in Documents, NEW doc \in Documents, NEW at, FromAnswers(doc, at),
         NEW fields, NEW lists
  PROVE  LET d == Decode(doc, Served, fields, lists) IN
         d \in Documents /\ FromAnswers(d, at \cup {registry})
<1> DEFINE d == Decode(doc, Served, fields, lists)
<1>1. /\ Served.tags \in [1..2 -> Versions \cup {None}]
      /\ Served.dates \in [Versions -> SUBSET (Nat \cup {Bad})]
      /\ doc.tags \in [1..2 -> Versions \cup {None}]
      /\ doc.dates \in [Versions -> SUBSET (Nat \cup {Bad})]
  BY ServedIsDocument, DocumentsAre
<1>2. /\ d = [tags |-> d.tags, dates |-> d.dates]
      /\ d.tags = [i \in 1..2 |-> IF "tags" \in fields /\ ("tags" \in lists \/ Served.tags[i] # None)
                                  THEN Served.tags[i] ELSE doc.tags[i]]
      /\ d.dates = [v \in Versions |-> IF "dates" \in fields /\ ("dates" \in lists \/ Served.dates[v] # {})
                                       THEN Served.dates[v] ELSE doc.dates[v]]
  BY DEF Decode
<1> HIDE DEF d
<1>3. /\ d.tags \in [1..2 -> Versions \cup {None}]
      /\ \A i \in 1..2 : d.tags[i] = Served.tags[i] \/ d.tags[i] = doc.tags[i]
  BY <1>1, <1>2
<1>4. /\ d.dates \in [Versions -> SUBSET (Nat \cup {Bad})]
      /\ \A v \in Versions : d.dates[v] = Served.dates[v] \/ d.dates[v] = doc.dates[v]
  BY <1>1, <1>2
<1>5. d \in Documents
  BY <1>2, <1>3, <1>4, DocumentsAre
<1>6. ASSUME NEW i \in 1..2, d.tags[i] # None PROVE \E m \in at \cup {registry} : m.tags[i] = d.tags[i]
  BY <1>3, <1>6, ServedIsDocument DEF FromAnswers
<1>7. ASSUME NEW v \in Versions, d.dates[v] # {} PROVE \E m \in at \cup {registry} : m.dates[v] = d.dates[v]
  BY <1>4, <1>7, ServedIsDocument DEF FromAnswers
<1>8. FromAnswers(d, at \cup {registry})
  BY <1>6, <1>7 DEF FromAnswers
<1> QED BY <1>5, <1>8 DEF d

\* The questions an ecosystem asks.
Urls ==
  [npm |-> {"versions"}, cargo |-> {"versions"}, gem |-> {"versions"}, go |-> {"release"},
   pypi |-> {"project", "release"}, github |-> {"latest", "repo"}, docker |-> {"tag"},
   mcp |-> {"servers"}]

\* A call that ended well ends with an answer that decides what there is no date of, and,
\* where both are lists, everything.
EndsWith(g, eco, m) ==
  /\ g.url = "latest" /\ g.doc.dates["published_at"] = {} => m.dates["published_at"] = {}
  /\ eco = "gem" =>
       g.doc.tags = m.tags /\ \A v \in Versions : g.doc.dates[v] = m.dates[v]

\* A call of GetJSON about some job.
Informed(g, eco) ==
  /\ DOMAIN g = GetFields /\ g.doc \in Documents /\ g.at \subseteq Documents
  /\ FromAnswers(g.doc, g.at)
  /\ g.pc = "idle" => g.at = {}
  /\ g.pc = "done" /\ g.err = "none" => \E m \in g.at : EndsWith(g, eco, m)

LEMMA StartsInformed ==
  ASSUME NEW g, DOMAIN g = GetFields, g.pc # "done", g.doc = EmptyDoc, g.at = {}, NEW eco
  PROVE  Informed(g, eco)
<1>1. FromAnswers(EmptyDoc, {})
  <2>1. \A i \in 1..2 : EmptyDoc.tags[i] = None
    BY DocumentsAre
  <2> QED BY <2>1, DocumentsAre DEF FromAnswers
<1> QED BY <1>1, DocumentsAre DEF Informed

LEMMA FetchingInforms ==
  ASSUME LookupInv, registry \in Documents, job \in Jobs, Informed(get, job.eco), Fetching,
         get.url \in Urls[job.eco]
  PROVE  Informed(get', job.eco) /\ get'.url = get.url /\ (get'.at = get.at \/ get'.at = get.at \cup {registry})
<1>1. DOMAIN get = GetFields /\ get.doc \in Documents /\ get.at \subseteq Documents /\ FromAnswers(get.doc, get.at)
  BY DEF Informed
<1>2. SameCall(get, get') /\ Learns(get, get', Served, Lists)
  BY <1>1, FetchingSteps
<1>3. DOMAIN get' = GetFields /\ get'.url = get.url /\ get'.pc # "idle"
  BY <1>1, <1>2, FetchingSteps DEF SameCall, Goes
<1>4. CASE get'.doc = get.doc /\ get'.at = get.at /\ ~(get'.pc = "done" /\ get'.err = "none")
  BY <1>1, <1>3, <1>4 DEF Informed
<1>5. CASE Reads(get, get', Served, Lists)
  <2>1. PICK fields \in SUBSET {"tags", "dates"} :
          /\ get'.doc = Decode(get.doc, Served, fields, Lists) /\ get'.at = get.at \cup {registry}
          /\ get'.pc = "done" /\ get'.err = "none" => fields = {"tags", "dates"}
    BY <1>5 DEF Reads
  <2>2. get'.doc \in Documents /\ FromAnswers(get'.doc, get'.at)
    BY <1>1, <2>1, DecodedFromAnswers
  <2>3. ASSUME fields = {"tags", "dates"} PROVE EndsWith(get', job.eco, registry)
    <3>1. ASSUME get.url = "latest", get'.doc.dates["published_at"] = {}
          PROVE  registry.dates["published_at"] = {}
      <4>1. "published_at" \in Versions
        BY JobsAssumption
      <4>2. Served.dates["published_at"] = registry.dates["published_at"]
        BY <3>1, <4>1 DEF Served, DatesAt
      <4>3. get'.doc.dates["published_at"] =
              IF "dates" \in Lists \/ Served.dates["published_at"] # {}
              THEN Served.dates["published_at"] ELSE get.doc.dates["published_at"]
        BY <2>1, <2>3, <4>1 DEF Decode
      <4> QED BY <3>1, <4>2, <4>3
    <3>2. ASSUME job.eco = "gem"
          PROVE  get'.doc.tags = registry.tags /\ \A v \in Versions : get'.doc.dates[v] = registry.dates[v]
      <4>1. get.url = "versions" /\ Lists = {"tags", "dates"}
        BY <3>2 DEF Urls, Lists
      <4>2. Served.tags = registry.tags /\ \A v \in Versions : Served.dates[v] = registry.dates[v]
        BY <4>1 DEF Served, DatesAt
      <4>3. /\ get'.doc.tags = [i \in 1..2 |-> Served.tags[i]]
            /\ \A v \in Versions : get'.doc.dates[v] = Served.dates[v]
        BY <2>1, <2>3, <4>1 DEF Decode
      <4>4. registry.tags = [i \in 1..2 |-> registry.tags[i]]
        BY DocumentsAre
      <4> QED BY <4>2, <4>3, <4>4
    <3> QED BY <1>3, <3>1, <3>2 DEF EndsWith
  <2> QED BY <1>1, <1>3, <2>1, <2>2, <2>3 DEF Informed
<1> QED BY <1>2, <1>3, <1>4, <1>5 DEF Learns

\* The version an artifact is asked about was named to penrush, or by a tag, which only
\* the registry can have changed since.
Named(j, r) == IF j.version # None THEN j.version ELSE r.tags[1]

WantedIsNamed(m, j, r) ==
  m.pc \in {"resolving", "dated", "locate", "locating"} =>
    /\ j.version # None => m.wanted = j.version
    /\ j.version = None /\ m.wanted # None =>
         j.eco = "pypi" /\ \E d \in m.seen : d.tags[1] = m.wanted
    /\ m.wanted # None /\ ~m.moved => m.wanted = Named(j, r)

\* A repository's pushes are only asked for when it was seen without a dated release.
QuestionIsDue(m, g, j) ==
  m.pc \in {"resolving", "locating"} =>
    /\ g.url \in Urls[j.eco] /\ (g.url = "project" => j.version = None)
    /\ g.url = "repo" => \E d \in m.seen : ~Dated(d, "published_at")

\* Without a version, cargo and gem have two tags to choose from, and locate nothing.
ByName(j) == j.eco \in {"npm", "pypi"} \/ j.version # None

\* What Gate 1 found and what Gate 8 located is that version.
FoundIsNamed(m, j, r) ==
  /\ m.pc \in {"dated", "locate", "locating", "fetch"} =>
       /\ j.eco # "docker" => m.key # None
       /\ j.eco \in Hooked /\ ByName(j) /\ ~m.moved => m.key = Named(j, r)
  /\ m.pc = "fetch" /\ j.eco \in Hooked /\ m.located # None /\ ~m.moved =>
       ByName(j) /\ m.located = Named(j, r)

ArtifactTyped(m, j) ==
  /\ DOMAIN m = ArtifactFields /\ m.at \in 1..j.segments
  /\ {m.key, m.located, m.wanted} \subseteq Keys /\ m.seen \subseteq Documents

\* AgedAsPublished, of any artifact and job.
AgedOf(m, j) ==
  LET AgedAt(d) == Dated(d, m.key) /\ Max(d.dates[m.key]) = m.date
      TaggedAt(d) == j.version # None \/ m.key \in {d.tags[1], d.tags[2]} IN
  m.key # None =>
    CASE j.eco = "gem" -> \E d \in m.seen : AgedAt(d) /\ TaggedAt(d)
      [] j.eco \in {"npm", "cargo", "pypi"} ->
           (\E d \in m.seen : AgedAt(d)) /\ (\E d \in m.seen : TaggedAt(d))
      [] j.eco = "github" ->
           /\ \E d \in m.seen : AgedAt(d)
           /\ m.key # "published_at" => \E d \in m.seen : ~Dated(d, "published_at")
      [] OTHER -> \E d \in m.seen : AgedAt(d)

ArtifactKnows(m, g, j, r) ==
  /\ ArtifactTyped(m, j) /\ WantedIsNamed(m, j, r) /\ QuestionIsDue(m, g, j)
  /\ FoundIsNamed(m, j, r) /\ AgedOf(m, j)
  /\ ~m.moved => g.at \subseteq {r}

KnownInv ==
  /\ job \in Jobs /\ registry \in Contents[job.eco] /\ changes \in 0..job.changes
  /\ Informed(get, job.eco) /\ ArtifactKnows(me, get, job, registry)

LEMMA KnownIsAged == KnownInv => AgedAsPublished
BY DEF KnownInv, ArtifactKnows, AgedOf, AgedAsPublished

\* A fresh artifact knows nothing, and there is nothing it has to know.
LEMMA FreshKnows ==
  ASSUME NEW j \in Jobs, NEW n \in 1..j.segments, NEW m,
         m = Fresh(n) \/ \E pc \in {"governed", "forums", "done", "scan"} : m = [Fresh(n) EXCEPT !.pc = pc],
         NEW g, g.at = {}, NEW r
  PROVE  ArtifactKnows(m, g, j, r)
<1>1. /\ DOMAIN m = ArtifactFields /\ m.at = n /\ m.key = None /\ m.located = None /\ m.wanted = None
      /\ m.seen = {} /\ m.pc \notin {"resolving", "dated", "locate", "locating", "fetch"}
  BY DEF Fresh, ArtifactFields
<1> QED BY <1>1 DEF ArtifactKnows, ArtifactTyped, WantedIsNamed, QuestionIsDue, FoundIsNamed, AgedOf, Keys

LEMMA DecidedKnows ==
  ASSUME KnownInv, Decided, UNCHANGED <<job, registry, changes>>
  PROVE  KnownInv'
<1>1. job \in Jobs /\ job.segments \in Nat /\ me.at \in 1..job.segments
  BY JobsAre DEF KnownInv, ArtifactKnows, ArtifactTyped
<1>2. get' = NoGet /\ NoGet.at = {} /\ NoGet.doc = EmptyDoc /\ DOMAIN NoGet = GetFields /\ NoGet.pc = "idle"
  BY DEF Decided, NoGet, GetFields
<1>3. Informed(get', job.eco)
  BY <1>2, StartsInformed
<1>4. PICK n \in 1..job.segments :
        me' = Fresh(n) \/ \E pc \in {"forums", "done"} : me' = [Fresh(n) EXCEPT !.pc = pc]
  <2>1. CASE me.at < job.segments
    <3>1. me.at + 1 \in 1..job.segments /\ me' = Fresh(me.at + 1)
      BY <1>1, <2>1 DEF Decided
    <3> QED BY <3>1
  <2>2. CASE ~(me.at < job.segments)
    BY <1>1, <2>2 DEF Decided
  <2> QED BY <2>1, <2>2
<1>5. ArtifactKnows(me', get', job, registry)
  BY <1>1, <1>2, <1>4, FreshKnows
<1> QED BY <1>3, <1>5 DEF KnownInv

\* The version that an answer is about.
LEMMA TargetIsNamed ==
  ASSUME KnownInv, me.pc \in {"resolving", "locating"}, job.eco # "docker",
         Target(get.doc) # None
  PROVE  /\ Target(get.doc) \in Versions
         /\ job.version # None => Target(get.doc) = job.version
         /\ job.version = None =>
              \E d \in me.seen \cup get.at : Target(get.doc) \in {d.tags[1], d.tags[2]}
         /\ job.eco \in Hooked /\ ByName(job) /\ ~me.moved => Target(get.doc) = Named(job, registry)
         /\ job.version = None /\ job.eco = "gem" => Target(get.doc) \in {get.doc.tags[1], get.doc.tags[2]}
<1>1. /\ WantedIsNamed(me, job, registry) /\ FromAnswers(get.doc, get.at)
      /\ get.doc \in Documents /\ get.at \subseteq Documents /\ me.seen \subseteq Documents
      /\ (~me.moved => get.at \subseteq {registry})
      /\ job.version \in Versions \cup {None}
  BY JobsAre DEF KnownInv, ArtifactKnows, ArtifactTyped, Informed
<1>2. \A d \in Documents : d.tags[1] \in Versions \cup {None} /\ d.tags[2] \in Versions \cup {None}
  BY DocumentsAre
<1>3. CASE me.wanted # None
  <2>1. Target(get.doc) = me.wanted
    BY <1>3 DEF Target
  <2> QED BY <1>1, <1>2, <1>3, <2>1 DEF WantedIsNamed, Named
<1>4. CASE me.wanted = None
  <2>1. job.version = None
    BY <1>1, <1>4 DEF WantedIsNamed
  <2>2. Target(get.doc) = Default(get.doc)
    BY <1>4 DEF Target
  <2>3. PICK i \in 1..2 : Target(get.doc) = get.doc.tags[i] /\ (job.eco \in {"npm", "pypi"} => i = 1)
    BY <2>2 DEF Default, Governed
  <2>4. PICK d \in get.at : d.tags[i] = get.doc.tags[i]
    BY <1>1, <2>3 DEF FromAnswers
  <2>5. i = 1 \/ i = 2
    OBVIOUS
  <2>6. ~me.moved => d = registry
    BY <1>1, <2>4
  <2>7. job.eco \in Hooked /\ ByName(job) /\ ~me.moved => Target(get.doc) = Named(job, registry)
    BY <2>1, <2>3, <2>4, <2>6 DEF ByName, Named
  <2> QED BY <1>1, <1>2, <2>1, <2>3, <2>4, <2>5, <2>7
<1> QED BY <1>3, <1>4

\* The key that counts.
LEMMA KeyCounts ==
  ASSUME KnownInv, me.pc = "resolving", job.eco # "mcp", Key # None
  PROVE  /\ Key \in Versions /\ get.doc.dates[Key] # {}
         /\ job.eco \in {"npm", "pypi", "cargo", "gem", "go"} => Key = Target(get.doc)
         /\ job.eco = "github" /\ Key # "published_at" => get.url = "repo"
<1> DEFINE found == {i \in DOMAIN Candidates : Counts(Candidates[i])}
<1>1. job \in Jobs /\ get.url \in Urls[job.eco]
  BY DEF KnownInv, ArtifactKnows, QuestionIsDue
<1>2. /\ DOMAIN Candidates \subseteq 1..2
      /\ \/ get.url = "latest" /\ Candidates = <<"published_at">>
         \/ get.url = "repo" /\ Candidates = <<"pushed_at", "created_at">>
         \/ get.url = "tag" /\ Candidates = <<"tag_last_pushed", "last_updated">>
         \/ get.url \notin {"latest", "repo", "tag"} /\ Candidates = <<Target(get.doc)>>
  BY DEF Candidates
<1>3. found # {} /\ Key = Candidates[Min(found)]
  BY DEF Key
<1>4. found \subseteq Nat
  BY <1>2
<1>5. PICK i \in DOMAIN Candidates : Key = Candidates[i] /\ Counts(Candidates[i])
  <2>1. Min(found) \in found
    <3> HIDE DEF found
    <3> QED BY <1>3, <1>4, MinOfNumbers
  <2> QED BY <1>3, <2>1
<1>6. get.doc.dates[Key] # {}
  BY <1>5 DEF Counts, Dated
<1>7. \/ job.eco \in {"npm", "pypi", "cargo", "gem", "go"} /\ get.url \notin {"latest", "repo", "tag"}
      \/ job.eco = "github" /\ get.url \in {"latest", "repo"}
      \/ job.eco = "docker" /\ get.url = "tag"
  BY <1>1, JobsAre DEF Urls
<1>8. job.eco \in {"npm", "pypi", "cargo", "gem", "go"} => Key = Target(get.doc)
  BY <1>2, <1>5, <1>7
<1>9. job.eco = "github" /\ Key # "published_at" => get.url = "repo"
  BY <1>2, <1>5, <1>7
<1>10. Key \in Versions
  <2>1. CASE job.eco \in {"npm", "pypi", "cargo", "gem", "go"}
    BY <1>8, <2>1, TargetIsNamed
  <2>2. CASE get.url \in {"latest", "repo", "tag"}
    BY <1>1, <1>2, <1>5, <2>2, JobsAre
  <2> QED BY <1>7, <2>1, <2>2
<1> QED BY <1>6, <1>8, <1>9, <1>10

\* Nothing that was seen is forgotten, so what was known of an artifact stays known.
LEMMA MoreSeenIsAged ==
  ASSUME NEW m, NEW n, NEW j, AgedOf(m, j), n.key = m.key, n.date = m.date, m.seen \subseteq n.seen
  PROVE  AgedOf(n, j)
BY DEF AgedOf

\* A second question.
LEMMA AskAgainKnows ==
  ASSUME KnownInv, me.pc \in {"resolving", "locating"}, get.pc = "done", FollowUp # "none",
         NEW deadline, AskAgain(deadline), UNCHANGED <<job, registry, changes>>
  PROVE  KnownInv'
<1>1. /\ job \in Jobs /\ DOMAIN me = ArtifactFields /\ WantedIsNamed(me, job, registry)
      /\ QuestionIsDue(me, get, job) /\ AgedOf(me, job) /\ FoundIsNamed(me, job, registry)
      /\ FromAnswers(get.doc, get.at) /\ get.doc \in Documents /\ get.at \subseteq Documents
      /\ me.seen \subseteq Documents /\ me.at \in 1..job.segments
      /\ {me.key, me.located, me.wanted} \subseteq Keys
      /\ (get.err = "none" => \E d \in get.at : EndsWith(get, job.eco, d))
      /\ (~me.moved => get.at \subseteq {registry})
  BY DEF KnownInv, ArtifactKnows, ArtifactTyped, Informed
<1>2. /\ DOMAIN get' = GetFields /\ get'.pc = "send" /\ get'.url = FollowUp /\ get'.doc = EmptyDoc
      /\ get'.at = {}
  BY CallsAre DEF AskAgain
<1>3. /\ DOMAIN me' = ArtifactFields /\ me'.pc = me.pc /\ me'.at = me.at /\ me'.key = me.key
      /\ me'.date = me.date /\ me'.located = me.located /\ me'.moved = me.moved /\ me'.seen = Seen
      /\ me'.wanted = IF FollowUp = "release" THEN get.doc.tags[1] ELSE me.wanted
  BY <1>1, ArtifactFieldsAre DEF AskAgain
<1>4. Informed(get', job.eco)
  BY <1>2, StartsInformed
<1>5. me.seen \subseteq Seen /\ get.at \subseteq Seen /\ Seen \subseteq Documents
  BY <1>1, DocumentsAre DEF Seen
<1>6. \/ FollowUp = "release" /\ get.url = "project" /\ get.doc.tags[1] # None
      \/ /\ FollowUp = "repo" /\ get.url = "latest"
         /\ get.err = "notfound" \/ (get.err = "none" /\ ~Dated(get.doc, "published_at"))
  BY DEF FollowUp, Answered
<1>7. get.doc.tags[1] \in Keys
  BY <1>1, DocumentsAre DEF Keys
<1>8. ArtifactTyped(me', job)
  BY <1>1, <1>3, <1>5, <1>7 DEF ArtifactTyped
<1>9. AgedOf(me', job)
  BY <1>1, <1>3, <1>5, MoreSeenIsAged
<1>10. ASSUME FollowUp = "release", get.url = "project", get.doc.tags[1] # None
       PROVE  WantedIsNamed(me', job, registry) /\ QuestionIsDue(me', get', job)
  <2>1. job.eco = "pypi" /\ job.version = None
    BY <1>1, <1>10, JobsAre DEF QuestionIsDue, Urls
  <2>2. PICK d \in get.at : d.tags[1] = get.doc.tags[1]
    BY <1>1, <1>10 DEF FromAnswers
  <2>3. WantedIsNamed(me', job, registry)
    BY <1>1, <1>3, <1>5, <1>10, <2>1, <2>2 DEF WantedIsNamed, Named
  <2>4. QuestionIsDue(me', get', job)
    BY <1>2, <1>10, <2>1 DEF QuestionIsDue, Urls
  <2> QED BY <2>3, <2>4
<1>11. ASSUME FollowUp = "repo", get.url = "latest",
              get.err = "notfound" \/ (get.err = "none" /\ ~Dated(get.doc, "published_at"))
       PROVE  WantedIsNamed(me', job, registry) /\ QuestionIsDue(me', get', job)
  <2>1. job.eco = "github" /\ "published_at" \in Versions
    BY <1>1, <1>11, JobsAre DEF QuestionIsDue, Urls
  <2>2. \E d \in Seen : ~Dated(d, "published_at")
    <3>1. CASE get.err = "notfound"
      BY <2>1, <3>1, DocumentsAre DEF Seen, Dated
    <3>2. CASE get.err = "none" /\ ~Dated(get.doc, "published_at")
      <4>1. CASE get.doc.dates["published_at"] = {}
        <5>1. PICK d \in get.at : d.dates["published_at"] = {}
          BY <1>1, <1>11, <3>2, <4>1 DEF EndsWith
        <5> QED BY <1>5, <5>1 DEF Dated
      <4>2. CASE get.doc.dates["published_at"] # {}
        <5>1. PICK d \in get.at : d.dates["published_at"] = get.doc.dates["published_at"]
          BY <1>1, <2>1, <4>2 DEF FromAnswers
        <5> QED BY <1>5, <3>2, <5>1 DEF Dated
      <4> QED BY <4>1, <4>2
    <3> QED BY <1>11, <3>1, <3>2
  <2>3. WantedIsNamed(me', job, registry)
    BY <1>1, <1>3, <1>5, <1>11 DEF WantedIsNamed
  <2>4. QuestionIsDue(me', get', job)
    BY <1>2, <1>3, <1>11, <2>1, <2>2 DEF QuestionIsDue, Urls
  <2> QED BY <2>3, <2>4
<1>12. FoundIsNamed(me', job, registry)
  BY <1>1, <1>3 DEF FoundIsNamed
<1>13. ArtifactKnows(me', get', job, registry)
  BY <1>2, <1>6, <1>8, <1>9, <1>10, <1>11, <1>12 DEF ArtifactKnows
<1> QED BY <1>1, <1>4, <1>13 DEF KnownInv

\* Gate 1 finds a date.
LEMMA ResolvedKnows ==
  ASSUME KnownInv, me.pc = "resolving", get.pc = "done", Resolvable,
         Resolved(Key, Max(get.doc.dates[Key]), Seen), UNCHANGED <<job, registry, changes>>
  PROVE  KnownInv'
<1>1. /\ job \in Jobs /\ DOMAIN me = ArtifactFields /\ WantedIsNamed(me, job, registry)
      /\ QuestionIsDue(me, get, job)
      /\ FromAnswers(get.doc, get.at) /\ get.doc \in Documents /\ get.at \subseteq Documents
      /\ me.seen \subseteq Documents /\ me.at \in 1..job.segments /\ me.located \in Keys
      /\ (get.err = "none" => \E d \in get.at : EndsWith(get, job.eco, d))
  BY DEF KnownInv, ArtifactKnows, ArtifactTyped, Informed
<1>2. get' = NoGet /\ NoGet.at = {} /\ NoGet.doc = EmptyDoc /\ DOMAIN NoGet = GetFields /\ NoGet.pc = "idle"
  BY DEF Resolved, NoGet, GetFields
<1>3. Informed(get', job.eco)
  BY <1>2, StartsInformed
<1> DEFINE k == Key
           t == Max(get.doc.dates[k])
<1>4. /\ k # None /\ Dated(get.doc, k) /\ get.err = "none" /\ job.eco # "mcp"
  BY DEF Resolvable, Answered
<1>5. /\ k \in Versions
      /\ job.eco \in {"npm", "pypi", "cargo", "gem", "go"} => k = Target(get.doc)
      /\ job.eco = "github" /\ k # "published_at" => get.url = "repo"
  BY <1>4, KeyCounts
<1>6. /\ DOMAIN me' = ArtifactFields /\ me'.pc = "dated" /\ me'.at = me.at /\ me'.key = k
      /\ me'.date = t /\ me'.located = me.located /\ me'.moved = me.moved /\ me'.seen = Seen
      /\ me'.wanted = job.version
  BY <1>1, ArtifactFieldsAre DEF Resolved
<1> HIDE DEF k, t
<1>7. Seen \subseteq Documents /\ me.seen \cup get.at \subseteq Seen
  BY <1>1, DocumentsAre DEF Seen
<1>8. ArtifactTyped(me', job)
  BY <1>1, <1>5, <1>6, <1>7, JobsAre DEF ArtifactTyped, Keys
<1>9. WantedIsNamed(me', job, registry) /\ QuestionIsDue(me', get', job)
  BY <1>6 DEF WantedIsNamed, QuestionIsDue, Named
<1>10. FoundIsNamed(me', job, registry)
  <2>1. job.eco \in Hooked /\ ByName(job) /\ ~me.moved => k = Named(job, registry)
    BY <1>4, <1>5, TargetIsNamed DEF Hooked
  <2> QED BY <1>4, <1>6, <2>1 DEF FoundIsNamed
<1>11. PICK d \in Seen : Dated(d, k) /\ Max(d.dates[k]) = t
  <2>1. PICK d \in get.at : d.dates[k] = get.doc.dates[k]
    BY <1>1, <1>4, <1>5 DEF FromAnswers, Dated
  <2> QED BY <1>4, <1>7, <2>1 DEF Dated, t
<1>12. AgedOf(me', job)
  <2>1. CASE job.eco = "gem"
    <3>1. PICK e \in get.at : get.doc.tags = e.tags /\ \A v \in Versions : get.doc.dates[v] = e.dates[v]
      BY <1>1, <1>4, <2>1 DEF EndsWith
    <3>2. Dated(e, k) /\ Max(e.dates[k]) = t /\ e \in Seen
      BY <1>4, <1>5, <1>7, <3>1 DEF Dated, t
    <3>3. job.version # None \/ k \in {e.tags[1], e.tags[2]}
      BY <1>4, <1>5, <2>1, <3>1, TargetIsNamed
    <3> QED BY <1>6, <2>1, <3>2, <3>3 DEF AgedOf
  <2>2. CASE job.eco \in {"npm", "cargo", "pypi"}
    <3>1. \E e \in Seen : job.version # None \/ k \in {e.tags[1], e.tags[2]}
      BY <1>4, <1>5, <1>7, <1>11, <2>2, TargetIsNamed
    <3> QED BY <1>6, <1>11, <2>2, <3>1 DEF AgedOf
  <2>3. CASE job.eco = "github"
    <3>1. k # "published_at" => \E e \in Seen : ~Dated(e, "published_at")
      BY <1>1, <1>5, <1>7, <2>3 DEF QuestionIsDue
    <3> QED BY <1>6, <1>11, <2>3, <3>1 DEF AgedOf
  <2>4. CASE job.eco \notin {"gem", "npm", "cargo", "pypi", "github"}
    BY <1>6, <1>11, <2>4 DEF AgedOf
  <2> QED BY <2>1, <2>2, <2>3, <2>4
<1>13. ArtifactKnows(me', get', job, registry)
  BY <1>2, <1>8, <1>9, <1>10, <1>12 DEF ArtifactKnows
<1> QED BY <1>1, <1>3, <1>13 DEF KnownInv

\* A question that an artifact is about to ask first.
LEMMA FirstUrlIsDue ==
  ASSUME job \in Jobs
  PROVE  /\ FirstUrl \in Urls[job.eco] /\ FirstUrl # "repo"
         /\ (FirstUrl = "project" => job.version = None)
BY JobsAre DEF FirstUrl, Urls

\* Whatever leaves what was found as it is.
LEMMA SameFindings ==
  ASSUME KnownInv, UNCHANGED <<job, registry, changes>>, DOMAIN me' = ArtifactFields,
         me'.at = me.at, me'.key = me.key, me'.date = me.date, me'.seen = me.seen,
         me'.moved = me.moved, me'.located = me.located, me'.wanted = me.wanted,
         \/ me'.pc = me.pc
         \/ me.pc = "dated" /\ me'.pc = "locate"
         \/ me.pc = "locate" /\ me'.pc = "locating"
         \/ me'.pc \in {"governed", "forums", "done", "scan"},
         Informed(get', job.eco), QuestionIsDue(me', get', job),
         ~me.moved => get'.at \subseteq {registry}
  PROVE  KnownInv'
<1>1. AgedOf(me', job)
  BY MoreSeenIsAged DEF KnownInv, ArtifactKnows
<1>2. ArtifactTyped(me', job) /\ WantedIsNamed(me', job, registry) /\ FoundIsNamed(me', job, registry)
  BY DEF KnownInv, ArtifactKnows, ArtifactTyped, WantedIsNamed, FoundIsNamed
<1> QED BY <1>1, <1>2 DEF KnownInv, ArtifactKnows

LEMMA StepsKeepKnown == LookupInv /\ JudgeInv /\ KnownInv /\ [Next]_vars => KnownInv'
<1> SUFFICES ASSUME LookupInv, JudgeInv, KnownInv, [Next]_vars PROVE KnownInv'
  OBVIOUS
<1>1. /\ job \in Jobs /\ registry \in Contents[job.eco] /\ registry \in Documents
      /\ changes \in 0..job.changes /\ job.changes \in Nat
      /\ DOMAIN me = ArtifactFields /\ me.at \in 1..job.segments /\ job.segments \in Nat
      /\ Informed(get, job.eco) /\ DOMAIN get = GetFields
      /\ QuestionIsDue(me, get, job) /\ (~me.moved => get.at \subseteq {registry})
  BY JobsAre DEF KnownInv, ArtifactKnows, ArtifactTyped, Informed
<1>2. ASSUME me.pc \in {"resolve", "dated", "locate", "fetch", "scan", "forums", "done", "governed"}
      PROVE  get.pc = "idle" /\ get.at = {}
  BY <1>1, <1>2 DEF LookupInv, BudgetInv, Informed
<1>3. CASE Decided /\ UNCHANGED <<job, registry, changes>>
  BY <1>3, DecidedKnows
<1>4. CASE UNCHANGED <<get, me, job, registry, changes>>
  BY <1>4 DEF KnownInv
<1>5. CASE ResolveUnasked
  <2>1. CASE Pinned /\ Resolved(None, 0, {})
    <3>1. job.eco = "docker" /\ me.pc = "resolve" /\ UNCHANGED <<job, registry, changes>>
      BY <1>5, <2>1 DEF Pinned, ResolveUnasked
    <3>2. /\ DOMAIN me' = ArtifactFields /\ me'.pc = "dated" /\ me'.at = me.at /\ me'.key = None
          /\ me'.located = me.located /\ me'.seen = {} /\ me'.wanted = job.version
      BY <1>1, <2>1, ArtifactFieldsAre DEF Resolved
    <3>3. Informed(get', job.eco) /\ get'.at = {}
      <4>1. get' = NoGet /\ NoGet.at = {} /\ NoGet.doc = EmptyDoc /\ DOMAIN NoGet = GetFields /\ NoGet.pc = "idle"
        BY <2>1 DEF Resolved, NoGet, GetFields
      <4> QED BY <4>1, StartsInformed
    <3>4. ArtifactTyped(me', job)
      BY <1>1, <3>2, JobsAre DEF ArtifactTyped, Keys, KnownInv, ArtifactKnows
    <3>5. /\ WantedIsNamed(me', job, registry) /\ QuestionIsDue(me', get', job)
          /\ FoundIsNamed(me', job, registry) /\ AgedOf(me', job)
      BY <3>1, <3>2 DEF WantedIsNamed, QuestionIsDue, FoundIsNamed, AgedOf, Hooked, Named
    <3> QED BY <1>1, <3>1, <3>3, <3>4, <3>5 DEF KnownInv, ArtifactKnows
  <2> QED BY <1>3, <1>5, <2>1 DEF ResolveUnasked
<1>6. CASE TakeToken
  <2>1. /\ me' = [me EXCEPT !.pc = "governed"] /\ UNCHANGED <<get, job, registry, changes>>
    BY <1>6 DEF TakeToken
  <2>2. /\ DOMAIN me' = ArtifactFields /\ me'.pc = "governed" /\ me'.at = me.at /\ me'.key = me.key
        /\ me'.date = me.date /\ me'.seen = me.seen /\ me'.moved = me.moved
        /\ me'.located = me.located /\ me'.wanted = me.wanted
    BY <1>1, <2>1, ArtifactFieldsAre
  <2>3. QuestionIsDue(me', get', job)
    BY <2>2 DEF QuestionIsDue
  <2> QED BY <1>1, <2>1, <2>2, <2>3, SameFindings
<1>7. CASE AskRegistry
  <2>1. /\ \E deadline : Call(FirstUrl, deadline)
        /\ me' = [me EXCEPT !.pc = "resolving", !.wanted = job.version]
        /\ UNCHANGED <<job, registry, changes>>
    BY <1>7 DEF AskRegistry
  <2>2. /\ DOMAIN get' = GetFields /\ get'.pc = "send" /\ get'.url = FirstUrl
        /\ get'.doc = EmptyDoc /\ get'.at = {}
    BY <2>1, CallsAre
  <2>3. /\ DOMAIN me' = ArtifactFields /\ me'.pc = "resolving" /\ me'.at = me.at /\ me'.key = me.key
        /\ me'.date = me.date /\ me'.seen = me.seen /\ me'.moved = me.moved
        /\ me'.located = me.located /\ me'.wanted = job.version
    BY <1>1, <2>1, ArtifactFieldsAre
  <2>4. Informed(get', job.eco)
    BY <2>2, StartsInformed
  <2>5. QuestionIsDue(me', get', job)
    BY <1>1, <2>2, FirstUrlIsDue DEF QuestionIsDue
  <2>6. AgedOf(me', job)
    BY <2>3, MoreSeenIsAged DEF KnownInv, ArtifactKnows
  <2>7. ArtifactTyped(me', job) /\ WantedIsNamed(me', job, registry) /\ FoundIsNamed(me', job, registry)
    BY <1>1, <2>3, JobsAre DEF ArtifactTyped, WantedIsNamed, FoundIsNamed, Named, KnownInv, ArtifactKnows
  <2> QED BY <1>1, <2>1, <2>2, <2>4, <2>5, <2>6, <2>7 DEF KnownInv, ArtifactKnows
<1>8. CASE Fetching
  <2>1. me' = me /\ UNCHANGED <<job, registry, changes>>
    BY <1>8 DEF Fetching
  <2>2. get.pc # "idle"
    BY <1>8 DEF Fetching, AttemptFails, AttemptCut, BackOff, AttemptMistyped, AttemptAnswers
  <2>3. get.url \in Urls[job.eco]
    BY <1>1, <2>2 DEF LookupInv, BudgetInv, QuestionIsDue
  <2>4. /\ Informed(get', job.eco) /\ get'.url = get.url
        /\ (get'.at = get.at \/ get'.at = get.at \cup {registry})
    BY <1>1, <1>8, <2>3, FetchingInforms
  <2>5. QuestionIsDue(me', get', job)
    BY <1>1, <2>1, <2>4 DEF QuestionIsDue
  <2> QED BY <1>1, <2>1, <2>4, <2>5, SameFindings
<1>9. CASE ResolveEnds
  <2>1. me.pc = "resolving" /\ get.pc = "done" /\ UNCHANGED <<job, registry, changes>>
    BY <1>9 DEF ResolveEnds
  <2>2. CASE FollowUp # "none" /\ AskAgain({})
    BY <2>1, <2>2, AskAgainKnows
  <2>3. CASE Resolvable /\ Resolved(Key, Max(get.doc.dates[Key]), Seen)
    BY <2>1, <2>3, ResolvedKnows
  <2> QED BY <1>3, <1>9, <2>1, <2>2, <2>3 DEF ResolveEnds
<1>10. CASE Judged
  <2>1. CASE me.pc = "dated" /\ me' = [me EXCEPT !.pc = "locate"] /\ UNCHANGED <<get, job, registry, changes>>
    <3>1. /\ DOMAIN me' = ArtifactFields /\ me'.pc = "locate" /\ me'.at = me.at /\ me'.key = me.key
          /\ me'.date = me.date /\ me'.seen = me.seen /\ me'.moved = me.moved
          /\ me'.located = me.located /\ me'.wanted = me.wanted
      BY <1>1, <2>1, ArtifactFieldsAre
    <3>2. QuestionIsDue(me', get', job)
      BY <3>1 DEF QuestionIsDue
    <3> QED BY <1>1, <2>1, <3>1, <3>2, SameFindings
  <2> QED BY <1>3, <1>10, <2>1 DEF Judged
<1>11. CASE StartScan
  <2>1. me.pc = "locate" /\ UNCHANGED <<job, registry, changes>>
    BY <1>11 DEF StartScan
  <2>2. CASE job.eco # "docker" /\ job.eco \in Governed /\ get' = get
             /\ me' = [me EXCEPT !.pc = "fetch", !.began = now, !.located = job.version]
    <3>1. /\ DOMAIN me' = ArtifactFields /\ me'.pc = "fetch" /\ me'.at = me.at /\ me'.key = me.key
          /\ me'.date = me.date /\ me'.seen = me.seen /\ me'.moved = me.moved
          /\ me'.located = job.version /\ me'.wanted = me.wanted
      BY <1>1, <2>2, ArtifactFieldsAre
    <3>2. QuestionIsDue(me', get', job) /\ WantedIsNamed(me', job, registry)
      BY <3>1 DEF QuestionIsDue, WantedIsNamed
    <3>3. FoundIsNamed(me', job, registry)
      BY <2>1, <3>1 DEF KnownInv, ArtifactKnows, FoundIsNamed, ByName, Named
    <3>4. AgedOf(me', job)
      BY <3>1, MoreSeenIsAged DEF KnownInv, ArtifactKnows
    <3>5. ArtifactTyped(me', job)
      BY <1>1, <3>1, JobsAre DEF ArtifactTyped, KnownInv, ArtifactKnows
    <3> QED BY <1>1, <2>1, <2>2, <3>1, <3>2, <3>3, <3>4, <3>5 DEF KnownInv, ArtifactKnows
  <2>3. CASE me' = [me EXCEPT !.pc = "locating", !.began = now] /\ Call(FirstUrl, {now + Budget})
    <3>1. /\ DOMAIN me' = ArtifactFields /\ me'.pc = "locating" /\ me'.at = me.at /\ me'.key = me.key
          /\ me'.date = me.date /\ me'.seen = me.seen /\ me'.moved = me.moved
          /\ me'.located = me.located /\ me'.wanted = me.wanted
      BY <1>1, <2>3, ArtifactFieldsAre
    <3>2. /\ DOMAIN get' = GetFields /\ get'.pc = "send" /\ get'.url = FirstUrl
          /\ get'.doc = EmptyDoc /\ get'.at = {}
      BY <2>3, CallsAre
    <3>3. Informed(get', job.eco)
      BY <3>2, StartsInformed
    <3>4. QuestionIsDue(me', get', job)
      BY <1>1, <3>2, FirstUrlIsDue DEF QuestionIsDue
    <3> QED BY <2>1, <3>1, <3>2, <3>3, <3>4, SameFindings
  <2> QED BY <1>3, <1>11, <2>1, <2>2, <2>3 DEF StartScan
<1>12. CASE LocateEnds
  <2>1. me.pc = "locating" /\ get.pc = "done" /\ UNCHANGED <<job, registry, changes>>
    BY <1>12 DEF LocateEnds
  <2>2. CASE FollowUp # "none" /\ AskAgain({Deadline})
    BY <2>1, <2>2, AskAgainKnows
  <2>3. CASE Locatable /\ me' = [me EXCEPT !.pc = "fetch", !.located = Target(get.doc)] /\ get' = NoGet
    <3>1. /\ DOMAIN me' = ArtifactFields /\ me'.pc = "fetch" /\ me'.at = me.at /\ me'.key = me.key
          /\ me'.date = me.date /\ me'.seen = me.seen /\ me'.moved = me.moved
          /\ me'.located = Target(get.doc) /\ me'.wanted = me.wanted
      BY <1>1, <2>3, ArtifactFieldsAre
    <3>2. QuestionIsDue(me', get', job) /\ WantedIsNamed(me', job, registry)
      BY <3>1 DEF QuestionIsDue, WantedIsNamed
    <3>3. job.eco \in {"npm", "pypi"} /\ job.eco \in Hooked /\ Target(get.doc) # None
      BY <2>1, <2>3 DEF JudgeInv, Locatable, Hooked
    <3>4. FoundIsNamed(me', job, registry)
      <4>1. ByName(job) /\ (~me.moved => Target(get.doc) = Named(job, registry))
        BY <2>1, <3>3, TargetIsNamed DEF ByName
      <4> QED BY <2>1, <3>1, <4>1 DEF KnownInv, ArtifactKnows, FoundIsNamed
    <3>5. AgedOf(me', job)
      BY <3>1, MoreSeenIsAged DEF KnownInv, ArtifactKnows
    <3>6. ArtifactTyped(me', job)
      BY <1>1, <2>1, <3>1, <3>3, TargetIsNamed DEF ArtifactTyped, KnownInv, ArtifactKnows, Keys, Hooked
    <3>7. Informed(get', job.eco) /\ get'.at = {}
      <4>1. get' = NoGet /\ NoGet.at = {} /\ NoGet.doc = EmptyDoc /\ DOMAIN NoGet = GetFields /\ NoGet.pc = "idle"
        BY <2>3 DEF NoGet, GetFields
      <4> QED BY <4>1, StartsInformed
    <3> QED BY <1>1, <2>1, <3>2, <3>4, <3>5, <3>6, <3>7 DEF KnownInv, ArtifactKnows
  <2> QED BY <1>3, <1>12, <2>1, <2>2, <2>3 DEF LocateEnds
<1>13. CASE FetchFails \/ ScanEnds
  BY <1>3, <1>13 DEF FetchFails, ScanEnds
<1>14. CASE Fetch
  <2>1. me' = [Fresh(me.at) EXCEPT !.pc = "scan"] /\ UNCHANGED <<get, job, registry, changes>> /\ me.pc = "fetch"
    BY <1>14 DEF Fetch
  <2>2. ArtifactKnows(me', get', job, registry)
    BY <1>1, <1>2, <2>1, FreshKnows
  <2> QED BY <1>1, <2>1, <2>2 DEF KnownInv
<1>15. CASE Scanning \/ UNCHANGED vars
  BY <1>4, <1>15 DEF Scanning, vars
<1>16. CASE Foruming
  <2>1. CASE me' = [me EXCEPT !.pc = "done"] /\ UNCHANGED <<get, job, registry, changes>>
    <3>1. /\ DOMAIN me' = ArtifactFields /\ me'.pc = "done" /\ me'.at = me.at /\ me'.key = me.key
          /\ me'.date = me.date /\ me'.seen = me.seen /\ me'.moved = me.moved
          /\ me'.located = me.located /\ me'.wanted = me.wanted
      BY <1>1, <2>1, ArtifactFieldsAre
    <3>2. QuestionIsDue(me', get', job)
      BY <3>1 DEF QuestionIsDue
    <3> QED BY <1>1, <2>1, <3>1, <3>2, SameFindings
  <2> QED BY <1>4, <1>16, <2>1 DEF Foruming
<1>17. CASE RegistryChanges
  <2>1. /\ me' = [me EXCEPT !.moved = TRUE] /\ UNCHANGED <<get, job>>
        /\ registry' \in Contents[job.eco] /\ changes' = changes + 1 /\ changes < job.changes
    BY <1>17 DEF RegistryChanges
  <2>2. /\ DOMAIN me' = ArtifactFields /\ me'.pc = me.pc /\ me'.at = me.at /\ me'.key = me.key
        /\ me'.date = me.date /\ me'.seen = me.seen /\ me'.moved = TRUE
        /\ me'.located = me.located /\ me'.wanted = me.wanted
    BY <1>1, <2>1, ArtifactFieldsAre
  <2>3. AgedOf(me', job)
    BY <2>2, MoreSeenIsAged DEF KnownInv, ArtifactKnows
  <2>4. /\ ArtifactTyped(me', job) /\ WantedIsNamed(me', job, registry')
        /\ QuestionIsDue(me', get', job) /\ FoundIsNamed(me', job, registry')
    BY <2>1, <2>2 DEF KnownInv, ArtifactKnows, ArtifactTyped, WantedIsNamed, QuestionIsDue, FoundIsNamed
  <2>5. changes' \in 0..job.changes
    BY <1>1, <2>1
  <2> QED BY <1>1, <2>1, <2>2, <2>3, <2>4, <2>5 DEF KnownInv, ArtifactKnows
<1> QED BY <1>5, <1>6, <1>7, <1>8, <1>9, <1>10, <1>11, <1>12, <1>13, <1>14, <1>15, <1>16, <1>17
        DEF Next, Step

AllInv == TimeInv /\ JudgeInv /\ KnownInv

LEMMA AlwaysAll == Spec => []AllInv
<1>1. Init => AllInv
  <2> SUFFICES ASSUME Init PROVE AllInv
    OBVIOUS
  <2>1. /\ job \in Jobs /\ registry \in Contents[job.eco] /\ changes = 0
        /\ get = NoGet /\ scan = NoScan /\ me = Fresh(1)
    BY DEF Init
  <2>2. Timely(get, now)
    BY <2>1, CallsAre DEF Timely
  <2>3. JudgeInv
    BY <2>1, NoScanIsRead DEF JudgeInv, Fresh
  <2>4. NoGet.at = {} /\ NoGet.doc = EmptyDoc /\ DOMAIN NoGet = GetFields /\ NoGet.pc = "idle"
    BY DEF NoGet, GetFields
  <2>5. Informed(get, job.eco)
    BY <2>1, <2>4, StartsInformed
  <2>6. 1 \in 1..job.segments /\ 0 \in 0..job.changes
    BY <2>1, JobsAre
  <2>7. ArtifactKnows(me, get, job, registry)
    BY <2>1, <2>4, <2>6, FreshKnows
  <2> QED BY <2>1, <2>2, <2>3, <2>5, <2>6, <2>7, InitiallyInBudget DEF AllInv, TimeInv, KnownInv
<1>2. AllInv /\ [Next]_vars => AllInv'
  BY StepsKeepTime, StepsKeepJudgment, StepsKeepKnown DEF AllInv, TimeInv
<1> QED BY <1>1, <1>2, PTL DEF Spec

\* The publication time Gate 1 goes by is one the registry gave, in this resolve, to the
\* version asked for, or named by a tag it gave; however its answers break off and change.
THEOREM AlwaysAgedAsPublished == Spec => []AgedAsPublished
<1>1. AllInv => AgedAsPublished
  BY KnownIsAged DEF AllInv
<1> QED BY <1>1, AlwaysAll, PTL

\* Gate 8 fetches the version that Gate 1 dated, unless the registry changed in between.
THEOREM AlwaysScannedIsAged == Spec => []ScannedIsAged
<1>1. AllInv => ScannedIsAged
  <2> SUFFICES ASSUME AllInv, me.pc = "fetch", me.located # None, ~me.moved
               PROVE  me.located = me.key
    BY DEF ScannedIsAged
  <2>1. FoundIsNamed(me, job, registry) /\ job.eco \in Hooked
    BY DEF AllInv, KnownInv, ArtifactKnows, JudgeInv
  <2> QED BY <2>1 DEF FoundIsNamed
<1> QED BY <1>1, AlwaysAll, PTL

\* The forum in hand, and the one after.
ForumAt == forums.at \in 1..(Len(Forums) + 1)

LEMMA StepsKeepForumAt == ForumInv /\ ForumAt /\ [Next]_vars => ForumAt'
<1> SUFFICES ASSUME ForumInv, ForumAt, [Next]_vars PROVE ForumAt'
  OBVIOUS
<1>1. CASE UNCHANGED forums
  BY <1>1 DEF ForumAt
<1>2. CASE AskForums
  BY <1>2, ForumCount DEF AskForums, ForumAt, NoForums
<1>3. CASE ForumStep
  <2>1. Midway(forums)
    <3>1. forums.pc = "ask"
      BY <1>3 DEF ForumStep, NoToken, QueryFails, QueryAnswers, TokenRefused, ForumPanics, MayAsk, Asking
    <3>2. forums # NoForums
      BY <3>1 DEF NoForums
    <3> QED BY <3>1, <3>2 DEF ForumInv
  <2>2. /\ DOMAIN forums = ForumFields /\ forums.at \in 1..Len(Forums)
        /\ ForumFields = {"pc", "at", "asked", "ok", "hit", "results", "found", "token", "verdict"}
    BY <2>1 DEF Midway, ForumFields, NoForums
  <2>3. ASSUME NEW f, DOMAIN f = ForumFields, f.at = forums.at, NEW ok, ForumEnds(f, ok)
        PROVE  forums'.at = forums.at + 1
    BY <2>2, <2>3 DEF ForumEnds
  <2>4. ASSUME NEW f, DOMAIN f = ForumFields, f.at = forums.at, QueryEnds(f)
        PROVE  forums'.at \in {forums.at, forums.at + 1}
    <3> DEFINE g == [f EXCEPT !.asked = @ + 1]
    <3>1. DOMAIN g = ForumFields /\ g.at = forums.at
      BY <2>2, <2>4
    <3>2. forums' = g \/ ForumEnds(g, g.ok)
      BY <2>4 DEF QueryEnds
    <3> HIDE DEF g
    <3> QED BY <2>3, <3>1, <3>2
  <2>5. forums'.at \in {forums.at, forums.at + 1}
    <3>1. CASE NoToken \/ TokenRefused
      BY <2>2, <2>3, <3>1 DEF NoToken, TokenRefused
    <3>2. CASE QueryFails
      BY <2>2, <2>4, <3>2 DEF QueryFails
    <3>3. CASE QueryAnswers
      <4>1. PICK hit \in BOOLEAN :
              QueryEnds([forums EXCEPT !.ok = TRUE, !.hit = @ \/ hit, !.found = @ \/ hit])
        BY <3>3 DEF QueryAnswers
      <4> DEFINE f == [forums EXCEPT !.ok = TRUE, !.hit = @ \/ hit, !.found = @ \/ hit]
      <4>2. DOMAIN f = ForumFields /\ f.at = forums.at
        BY <2>2
      <4> HIDE DEF f
      <4> QED BY <2>4, <4>1, <4>2 DEF f
    <3>4. CASE ForumPanics
      <4> DEFINE f == [forums EXCEPT !.hit = FALSE]
      <4>1. DOMAIN f = ForumFields /\ f.at = forums.at /\ ForumEnds(f, FALSE)
        BY <2>2, <3>4 DEF ForumPanics
      <4> HIDE DEF f
      <4> QED BY <2>3, <4>1
    <3> QED BY <1>3, <3>1, <3>2, <3>3, <3>4 DEF ForumStep
  <2> QED BY <2>2, <2>5, ForumCount DEF ForumAt
<1>4. UNCHANGED forums \/ ForumStep \/ AskForums
  BY DEF Next, Step, ResolveUnasked, TakeToken, AskRegistry, Fetching, ResolveEnds, Judged, StartScan,
         LocateEnds, FetchFails, Fetch, Scanning, ScanEnds, Foruming, RegistryChanges, vars
<1> QED BY <1>1, <1>2, <1>3, <1>4

\* What a scan can be.
ScanAt == scan.pc \in {"idle", "walk", "done", "failed"}

LEMMA StepsKeepScanAt == LimitInv /\ ScanAt /\ [Next]_vars => ScanAt'
<1> SUFFICES ASSUME LimitInv, ScanAt, [Next]_vars PROVE ScanAt'
  OBVIOUS
<1>1. CASE UNCHANGED scan
  BY <1>1 DEF ScanAt
<1>2. CASE scan' = NoScan \/ Fails
  BY <1>2 DEF ScanAt, NoScan, Fails
<1>3. CASE WalkArchive
  <2>1. DOMAIN scan = ScanFields
    BY DEF LimitInv, ScanOK
  <2>2. Fails \/ scan'.pc \in {"done", scan.pc}
    <3>1. CASE ScanFails
      BY <3>1 DEF ScanFails
    <3>2. CASE EndOfArchive
      BY <2>1, <3>2, ScanFieldsAre DEF EndOfArchive, Walks
    <3>3. CASE SkipEntry \/ NestedArchive
      BY <2>1, <3>3, ScanFieldsAre DEF SkipEntry, NestedArchive, Walks, Counted, Consume, Read
    <3>4. CASE HookEntry
      <4>1. PICK p, spelling, file, n :
              ReadFile(p, spelling, file, n) \/ PassByHook(p, spelling, file)
        BY <3>4 DEF HookEntry
      <4> QED BY <2>1, <4>1, ScanFieldsAre DEF ReadFile, PassByHook, Walks, Counted, Consume, Read
    <3> QED BY <1>3, <3>1, <3>2, <3>3, <3>4 DEF WalkArchive
  <2> QED BY <1>2, <2>2 DEF ScanAt
<1>4. CASE Fetch
  <2>1. PICK zip : Open(job.eco, zip)
    BY <1>4 DEF Fetch
  <2> QED BY <1>2, <2>1 DEF Open, Walks, ScanAt, NoScan
<1>5. UNCHANGED scan \/ scan' = NoScan \/ WalkArchive \/ Fetch
  BY DEF Next, Step, ResolveUnasked, TakeToken, AskRegistry, Fetching, ResolveEnds, Judged, StartScan,
         LocateEnds, FetchFails, Scanning, ScanEnds, Foruming, RegistryChanges, vars,
         Decided, Resolved, AskAgain
<1> QED BY <1>1, <1>2, <1>3, <1>4, <1>5

\* Every part of a lookup keeps its type: the counters and clocks stay in range, the
\* registry answers in documents, and the versions in hand are ones it can name.
THEOREM TypesAlwaysOK == Spec => []TypeOK
<1> DEFINE Inv == AllInv /\ ForumInv /\ ForumAt /\ LimitInv /\ ScanAt
<1>1. Init => ForumInv /\ ForumAt /\ LimitInv /\ ScanAt
  BY ForumCount, NoScanOK DEF Init, ForumInv, VerdictIsEarned, NoForums, ForumAt, LimitInv, ScanAt, NoScan
<1>2. ForumInv /\ ForumAt /\ LimitInv /\ ScanAt /\ [Next]_vars
        => (ForumInv /\ ForumAt /\ LimitInv /\ ScanAt)'
  BY StepsKeepVerdict, StepsKeepForumAt, StepsKeepLimits, StepsKeepScanAt
<1>3. Inv => TypeOK
  <2> SUFFICES ASSUME Inv PROVE TypeOK
    OBVIOUS
  <2>1. now \in Nat /\ tokens \in Int /\ last \in 0..now /\ grants \in Seq(Nat)
    BY DEF AllInv, TimeInv, LookupInv, BucketInv
  <2>2. get.pc \in {"idle", "send", "backoff", "done"} /\ get.attempt \in 0..MaxRetries
    BY DEF AllInv, TimeInv, Timely, LookupInv, BudgetInv, CallOK
  <2>3. /\ job \in Jobs /\ registry \in Contents[job.eco] /\ changes \in 0..job.changes
        /\ me.at \in 1..job.segments
        /\ {me.key, me.located, me.wanted} \subseteq Versions \cup {None, "digest", "tag", "elsewhere"}
    BY DEF AllInv, KnownInv, ArtifactKnows, ArtifactTyped, Keys
  <2> QED BY <2>1, <2>2, <2>3 DEF TypeOK, ForumAt, ScanAt
<1> QED BY <1>1, <1>2, <1>3, AlwaysAll, PTL DEF Spec
==============================================================================
