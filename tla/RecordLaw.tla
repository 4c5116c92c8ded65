----------------------------- MODULE RecordLaw -----------------------------
(***************************************************************************)
(* What the store promises about a record, whoever acts on it and however  *)
(* stale the judgement behind the act: a record is rewritten only while it *)
(* is live, nothing but its operator touches a held record, a retired one  *)
(* keeps its text, and only a retired one is purged, never to return.      *)
(***************************************************************************)
CONSTANTS Id, Text

VARIABLES life,  \* per record: absent, live, retired or purged
          text,  \* its text, of no meaning while it is absent or purged
          held   \* the records under operator control

vars == <<life, text, held>>

Init == /\ life = [i \in Id |-> "absent"] /\ held = {}
        /\ text \in [Id -> Text]

Insert(i) == /\ life[i] = "absent"
             /\ life' = [life EXCEPT ![i] = "live"]
             /\ \E t \in Text : text' = [text EXCEPT ![i] = t]
             /\ held' \in {held, held \cup {i}}

Rewrite(i) == /\ life[i] = "live" /\ i \notin held
              /\ \E t \in Text : text' = [text EXCEPT ![i] = t]
              /\ UNCHANGED <<life, held>>

Retire(i) == /\ i \notin held /\ life[i] = "live"
             /\ life' = [life EXCEPT ![i] = "retired"]
             /\ UNCHANGED <<text, held>>

Rescue(i) == /\ i \notin held /\ life[i] = "retired"
             /\ life' = [life EXCEPT ![i] = "live"]
             /\ UNCHANGED <<text, held>>

Hold(i) == /\ life[i] \in {"live", "retired"}
           /\ held' \in {held \cup {i}, held \ {i}}
           /\ UNCHANGED <<life, text>>

Purge(S) == /\ \A i \in S : life[i] = "retired"
            /\ life' = [i \in Id |-> IF i \in S THEN "purged" ELSE life[i]]
            /\ held' = held \ S
            /\ \A i \in Id \ S : text'[i] = text[i]
            /\ text' \in [Id -> Text]

Next == \/ \E i \in Id : Insert(i) \/ Rewrite(i) \/ Retire(i) \/ Rescue(i) \/ Hold(i)
        \/ \E S \in SUBSET Id : Purge(S)

Spec == Init /\ [][Next]_vars
=============================================================================
