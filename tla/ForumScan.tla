------------------------------ MODULE ForumScan -------------------------------
(***************************************************************************)
(* "penrush check --forums": RunScan of internal/forumscan asks five       *)
(* forums one after the other, each by one or more queries, and makes one  *)
(* verdict of what they answer.  An answer either has a hit (a red-flag    *)
(* word next to the package's name) or none.                               *)
(***************************************************************************)
EXTENDS Naturals, Sequences

\* The forums in order, with the number of queries each is asked: sites of Stack
\* Exchange, words for GitHub Discussions.
Forums == << [name |-> "Hacker News", queries |-> 1],
             [name |-> "Stack Exchange", queries |-> 2],
             [name |-> "Lobsters", queries |-> 1],
             [name |-> "GitHub Discussions", queries |-> 4],
             [name |-> "Bluesky", queries |-> 1] >>

VARIABLE forums

\* at, asked: the forum and how many of its queries are done; ok: one succeeded; hit: one
\* had a hit; results: of the forums before.  History: found, a hit was read at all.
NoForums == [pc |-> "idle", at |-> 1, asked |-> 0, ok |-> FALSE, hit |-> FALSE,
             results |-> <<>>, found |-> FALSE, token |-> FALSE, verdict |-> "none"]

Unchecked(results) == {i \in DOMAIN results : ~results[i].ok}

\* One forum that answered without a hit is enough.
BugAggregate(results) ==
  IF \E i \in DOMAIN results : results[i].ok /\ results[i].hit THEN "FLAG"
  ELSE IF Unchecked(results) # DOMAIN results THEN "CLEAN" ELSE "REVIEW"

\* The hits of a forum that counts as unchecked do not count.
Aggregate(results) ==
  IF \E i \in DOMAIN results : results[i].ok /\ results[i].hit THEN "FLAG"
  ELSE IF Unchecked(results) = {} THEN "CLEAN" ELSE "REVIEW"

\* The scan starts, with a token for GitHub or without.
AskForums == \E token \in BOOLEAN : forums' = [NoForums EXCEPT !.pc = "ask", !.token = token]

\* The result of a forum, and the verdict after the last.
ForumEnds(f, ok) ==
  LET results == Append(f.results, [ok |-> ok, hit |-> f.hit])
      rest    == [f EXCEPT !.at = @ + 1, !.asked = 0, !.ok = FALSE, !.hit = FALSE] IN
  forums' = IF f.at < Len(Forums) THEN [rest EXCEPT !.results = results]
            ELSE [rest EXCEPT !.pc = "done", !.results = results, !.verdict = Aggregate(results)]

\* After a query the next, or the forum's result: ok if any of them was.
QueryEnds(f) ==
  LET g == [f EXCEPT !.asked = @ + 1] IN
  IF g.asked < Forums[g.at].queries THEN forums' = g ELSE ForumEnds(g, g.ok)

Asking == forums.pc = "ask"
GitHub == Forums[forums.at].name = "GitHub Discussions"

\* No token: not asked.
NoToken == Asking /\ GitHub /\ ~forums.token /\ ForumEnds(forums, FALSE)

MayAsk == Asking /\ (GitHub => forums.token)

\* Unreachable, a status that is not 200, a body that does not parse, or GraphQL errors.
QueryFails == MayAsk /\ QueryEnds(forums)

QueryAnswers ==
  /\ MayAsk
  /\ \E hit \in BOOLEAN :
       QueryEnds([forums EXCEPT !.ok = TRUE, !.hit = @ \/ hit, !.found = @ \/ hit])

\* The queries are asked again from the first.
BugAskAgain == MayAsk /\ GitHub /\ forums' = [forums EXCEPT !.asked = 0]

\* GitHub does not accept the token: unchecked, whatever its other queries answered.
TokenRefused == MayAsk /\ GitHub /\ ForumEnds(forums, FALSE)

\* A panic is recovered, and takes the forum's result with it.
ForumPanics == Asking /\ ForumEnds([forums EXCEPT !.hit = FALSE], FALSE)

ForumStep == NoToken \/ QueryFails \/ QueryAnswers \/ TokenRefused \/ ForumPanics

-----------------------------------------------------------------------------
\* CLEAN is only said when each of the five forums answered, and no answer read during
\* the scan had a hit, not even one whose forum was given up afterwards ("an unchecked
\* forum must NEVER contribute to CLEAN"); FLAG only when one had.
VerdictIsEarned ==
  /\ forums.verdict = "CLEAN" =>
       ~forums.found /\ Len(forums.results) = Len(Forums) /\ Unchecked(forums.results) = {}
  /\ forums.verdict = "FLAG" => forums.found
==============================================================================
