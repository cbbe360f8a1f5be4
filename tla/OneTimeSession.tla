--------------------------- MODULE OneTimeSession ---------------------------
(***************************************************************************)
(* What a gate session promises its clients, whatever table, scan or       *)
(* restart is behind it: it is issued once, is at any time in one place    *)
(* only, may be handed back and taken again, and answers one request.      *)
(* GateSessions implements this specification.                             *)
(***************************************************************************)
CONSTANTS Session, Entry

VARIABLES
  place,    \* "unissued", on the "table", with an entry request, or "spent"
  answers   \* the entry requests answered from each session

Init == /\ place = [s \in Session |-> "unissued"]
        /\ answers = [s \in Session |-> {}]

Keep(s) == answers'[s] = answers[s]

Issue(s) == place[s] = "unissued" /\ place'[s] = "table" /\ Keep(s)

Take(s) == place[s] = "table" /\ place'[s] \in Entry /\ Keep(s)

GiveBack(s) == place[s] \in Entry /\ place'[s] = "table" /\ Keep(s)

\* The one who has the session is answered, which spends it.
Answer(s) == /\ place[s] \in Entry
             /\ place'[s] = "spent"
             /\ answers[s] = {}
             /\ answers'[s] = {place[s]}

\* It expires, is consumed empty, or is lost with the scan that had it.
Drop(s) == place[s] \in Entry \cup {"table"} /\ place'[s] = "spent" /\ Keep(s)

Stay(s) == place'[s] = place[s] /\ Keep(s)

\* One step may move several sessions: a prune drops all expired ones, a
\* restart all that were held.
Next == \A s \in Session : \/ Issue(s)
                           \/ Take(s)
                           \/ GiveBack(s)
                           \/ Answer(s)
                           \/ Drop(s)
                           \/ Stay(s)

Spec == Init /\ [][Next]_<<place, answers>>
=============================================================================
