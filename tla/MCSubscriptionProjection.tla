---------------------- MODULE MCSubscriptionProjection ----------------------
(***************************************************************************)
(* Instances of SubscriptionProjection for TLC.  With every status and     *)
(* price in play the interleavings of two workers, two rows and a deletion *)
(* are too many.  A behaviour is therefore of one of two kinds: all        *)
(* interleavings with the main statuses and one price, or, if "wide",      *)
(* every status and price with one row, one worker and no deletion.        *)
(***************************************************************************)
EXTENDS SubscriptionProjection, TLC

VARIABLE wide

Main == {"active", "past_due", "canceled", "pro"}

MainOnly ==
    \A s \in Subs : stripe[s] = NoSub \/ {stripe[s].status, stripe[s].price} \subseteq Main

OneAtATime ==
    /\ Cardinality(rows) <= 1 /\ deleted = {}
    /\ Cardinality({w \in Workers : phase[w] # "idle"}) <= 1
    /\ Cardinality({s \in Subs : due[s] > 0}) <= 1 /\ \A s \in Subs : due[s] <= 1

MCInit == Init /\ wide \in BOOLEAN

MCNext ==
    /\ Next
    /\ IF wide THEN OneAtATime' ELSE MainOnly'
    /\ UNCHANGED wide

MCSpec == MCInit /\ [][MCNext]_<<vars, wide>>

Symmetry == Permutations(Workers) \cup Permutations(Rows) \cup Permutations(Subs)
=============================================================================
