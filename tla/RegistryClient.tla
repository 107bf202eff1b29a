---------------------------- MODULE RegistryClient ----------------------------
(***************************************************************************)
(* GetJSON of internal/registry/client.go: up to three attempts for one    *)
(* URL, with backoffs between them, decoded one after the other into the   *)
(* same value.  A document is what the resolvers and the payload locator   *)
(* look for in an answer: the tags that name a default version, in their   *)
(* order of preference, and the dates given to each version (or to each    *)
(* dated field, where there are no versions).                              *)
(***************************************************************************)
EXTENDS TokenBucket, FiniteSets

CONSTANTS
  Versions,   \* versions and other dated fields
  None,       \* no version
  Bad,        \* a date that does not parse
  MaxRetries, \* retries after the first attempt
  Timeout,    \* what an attempt takes at most
  Durations,  \* bound: what an attempt may take
  Backoff     \* what the wait before each retry may take, jitter included

ASSUME ClientAssumption ==
  /\ MaxRetries \in Nat /\ Timeout \in Nat /\ Durations \subseteq 0..Timeout
  /\ None \notin Versions /\ Backoff \in [1..MaxRetries -> SUBSET Nat]
  /\ \A n \in 1..MaxRetries : IsFiniteSet(Backoff[n]) /\ Backoff[n] # {}

VARIABLES
  registry, \* external: the documents its URLs give at present
  get       \* the call of GetJSON in hand

Documents == [tags : [1..2 -> Versions \cup {None}], dates : [Versions -> SUBSET (Nat \cup {Bad})]]

EmptyDoc == [tags |-> <<None, None>>, dates |-> [v \in Versions |-> {}]]

\* deadline: {} or the context's. of the call; at: the
\* registry as it was when it answered.
NoGet == [pc |-> "idle", url |-> "none", attempt |-> 0, deadline |-> {}, began |-> 0,
          err |-> "none", doc |-> EmptyDoc, at |-> {}]

\* encoding/json leaves what a document does not name, but replaces a list as a whole (each
\* element of these lists names both its version and its date).
Decode(doc, answer, fields, lists) ==
  [tags  |-> [i \in 1..2 |-> IF "tags" \in fields /\ ("tags" \in lists \/ answer.tags[i] # None)
                             THEN answer.tags[i] ELSE doc.tags[i]],
   dates |-> [v \in Versions |-> IF "dates" \in fields /\ ("dates" \in lists \/ answer.dates[v] # {})
                                 THEN answer.dates[v] ELSE doc.dates[v]]]

Call(url, deadline) ==
  get' = [NoGet EXCEPT !.pc = "send", !.url = url, !.deadline = deadline, !.began = now]

Returns(g, err) == get' = [g EXCEPT !.pc = "done", !.err = err]

Terminal == {"notfound", "refused"}

\* A rate limit is waited out, however long it lasts.
BugLimitedForever(g, err) ==
  IF err \in Terminal \/ (g.attempt = MaxRetries /\ err # "limited")
  THEN Returns(g, err)
  ELSE get' = [g EXCEPT !.pc = "backoff", !.attempt = IF @ = MaxRetries THEN @ ELSE @ + 1]

\* What a failed attempt leads to.
Failed(g, err) ==
  IF err \in Terminal \/ g.attempt = MaxRetries
  THEN Returns(g, err)
  ELSE get' = [g EXCEPT !.pc = "backoff", !.attempt = @ + 1]

Cut(d) == \E t \in get.deadline : now + d > t

\* An attempt fails: a transport error, a 429, 403 or 5xx and a body that is no JSON are
\* tried again, a 404 and other refusals are not.
AttemptFails ==
  /\ get.pc = "send"
  /\ \E d \in Durations : ~Cut(d) /\ Elapse(d)
  /\ \E err \in {"unreachable", "limited", "unparsable"} \cup Terminal : Failed(get, err)

\* The context is not passed on.
BugAttemptUncut ==
  /\ get.pc = "send"
  /\ \E d \in Durations : Elapse(d)
  /\ Failed(get, "unreachable")

\* The deadline of the context ends it, and so will the next backoff.
AttemptCut ==
  /\ get.pc = "send"
  /\ \E d \in Durations : Cut(d)
  /\ now' \in get.deadline
  /\ Failed(get, "unreachable")

\* JSON of which a part has the wrong type: the rest of it is decoded all the same.
AttemptMistyped(served, lists) ==
  /\ get.pc = "send"
  /\ \E d \in Durations : ~Cut(d) /\ Elapse(d)
  /\ \E fields \in SUBSET {"tags", "dates"} :
       Failed([get EXCEPT !.doc = Decode(@, served, fields, lists),
                          !.at = @ \cup {registry}], "unparsable")

AttemptAnswers(served, lists) ==
  /\ get.pc = "send"
  /\ \E d \in Durations : ~Cut(d) /\ Elapse(d)
  /\ Returns([get EXCEPT !.doc = Decode(@, served, {"tags", "dates"}, lists),
                         !.at = @ \cup {registry}], "none")

\* The wait before a retry; a context that is done ends it, and the call.
BackOff ==
  /\ get.pc = "backoff"
  /\ \E d \in Backoff[get.attempt] :
       IF Cut(d) THEN now' \in get.deadline /\ Returns(get, "unreachable")
                 ELSE Elapse(d) /\ get' = [get EXCEPT !.pc = "send"]
==============================================================================
