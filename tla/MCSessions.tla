----------------------------- MODULE MCSessions -----------------------------
(* Tabs, tokens and handlers are interchangeable in Sessions.              *)
EXTENDS Sessions, FiniteSets, TLC

Symmetry == Permutations(Tabs) \cup Permutations(Tokens)
            \cup Permutations(Handlers)

(* The bound of the search: a user logs in again as often as there are     *)
(* tokens, or has tokens cut off or copied, but not both.                  *)
Logins == {t \in Tokens : row[t] # "none" /\ parent[t] = None}

LoginBound == exposed # {} => Cardinality(Logins) <= 1
=============================================================================
