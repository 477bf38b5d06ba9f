-------------------------- MODULE PersistentShadow --------------------------
(***************************************************************************)
(* What the storage component promises, whatever it does with its logs:    *)
(* a map of persistent properties that survives restarts.  A property that *)
(* has settled - created, subscribed to by storage, nothing in flight for  *)
(* it - is stored, and is never forgotten.                                 *)
(***************************************************************************)
CONSTANTS Key, Group, Value

VARIABLES
  stored,   \* what a restart would load: some keys -> [Group -> Value]
  settled,  \* the properties that a restart must bring back
  harm      \* what has happened that may cost any of them

Init == DOMAIN stored = {} /\ settled = {}

\* A value is recorded.  The first record of a property gives both of its
\* groups that value, a later one changes one group.
Write(old, new) ==
  \E k \in DOMAIN new :
    /\ DOMAIN new = DOMAIN old \cup {k}
    /\ \A x \in DOMAIN old \ {k} : new[x] = old[x]
    /\ IF k \in DOMAIN old
       THEN \E g \in Group : \A h \in Group \ {g} : new[k][h] = old[k][h]
       ELSE \A g, h \in Group : new[k][g] = new[k][h]

\* Properties that the program has deleted, or is still creating, may go, or
\* fall back to an older value in one of their groups.
Forget(old, new, kept) ==
  /\ DOMAIN new \subseteq DOMAIN old
  /\ kept \cap (DOMAIN old \ DOMAIN new) = {}
  /\ \A k \in DOMAIN new :
       IF k \in kept THEN new[k] = old[k]
       ELSE \E g \in Group : \A h \in Group \ {g} : new[k][h] = old[k][h]

\* (Bound by quantifiers, so that TLC computes what the logs hold once a step.)
Next ==
  \E old \in {stored}, new \in {stored'}, kept \in {settled} :
    /\ Forget(old, new, kept) \/ Write(old, new) \/ harm' # harm
    /\ settled' \subseteq DOMAIN new

Spec == Init /\ [][Next]_<<stored, settled, harm>>
=============================================================================
