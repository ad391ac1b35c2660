-------------------------------- MODULE Join --------------------------------
(***************************************************************************)
(* What the fan-in of the insights workers promises, without queues, keys, *)
(* retries and copies of a document: each insight is obtained once, as the *)
(* API gave it or as a fallback, and stays what it is; then the meeting is *)
(* concluded with a status that depends on the two insights alone.         *)
(***************************************************************************)
EXTENDS MeetingState

Insight == {"summary", "deadlines"}

VARIABLES
  insight,  \* insight[w]: the result of w, None before it is obtained
  status    \* "open", or the final status of the meeting

vars == <<insight, status>>

Init ==
  /\ insight = [w \in Insight |-> None]
  /\ status = "open"

Obtain(w) ==
  /\ insight[w] = None
  /\ \E r \in Result : insight' = [insight EXCEPT ![w] = r]
  /\ UNCHANGED status

\* The statuses the insights allow.  Fallback deadlines make a meeting PARTIAL
\* only when the deadlines worker concludes it: the one thing left to chance.
Verdicts ==
  CASE insight["summary"] = "degraded" -> {"PARTIAL"}
    [] insight["summary"] = "ok" /\ insight["deadlines"] = "degraded" -> {"PARTIAL", "COMPLETED"}
    [] OTHER -> {"COMPLETED"}

\* Both workers may conclude, each having seen the other done.
Conclude ==
  /\ \A w \in Insight : insight[w] # None
  /\ status' \in Verdicts
  /\ UNCHANGED insight

Next == Conclude \/ \E w \in Insight : Obtain(w)

Spec == Init /\ [][Next]_vars
=============================================================================
