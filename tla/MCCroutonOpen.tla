---------------------------- MODULE MCCroutonOpen ----------------------------
(* CroutonOpen with two application IDs and two keys.  The client has the    *)
(* first of each: permuting keys and IDs permutes the behaviours.            *)
EXTENDS CroutonOpen

FirstKey == CHOOSE k \in Keys : TRUE
FirstApp == CHOOSE a \in AppIDs : TRUE
MCInit == Init /\ hs[Client].impl.X = FirstKey /\ hs[Client].impl.K = FirstApp
MCSpec == MCInit /\ [][Next]_vars /\ Fairness
============================================================================
