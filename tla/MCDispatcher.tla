---------------------------- MODULE MCDispatcher ----------------------------
(* Dispatcher for TLC: notices and observations come apart, since their     *)
(* product is beyond TLC, and Topics are switched only while there is an    *)
(* observation, which alone can become obsolete by it.                      *)
EXTENDS Dispatcher

OnlyNotices ==
  /\ \A b \in Observations : batch[b] = "gone" /\ what[b] = "keyed"
  /\ \A b \in Notices : batch[b] = "new" \/ Parts(b) \subseteq accepted

OnlyObservations ==
  /\ accepted = {} /\ group # NoGroup
  /\ \A b \in Batches : (batch[b] = "new") <=> (b \in Observations)

Watched == \E b \in Observations : batch[b] # "gone" \/ mem[<<b, 1>>] # Blank

ApartNext == Next /\ (Watched \/ UNCHANGED enabled)
=============================================================================
