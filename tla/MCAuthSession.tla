--------------------------- MODULE MCAuthSession ---------------------------
\* Two tabs, two identities with an address each.
EXTENDS AuthSession, TLC

CONSTANTS t1, t2, k1, k2, g, y, em, en

TwoTabs  == {t1, t2}
TwoSlots == {k1, k2}
TwoIdents == {g, y}
TwoMails == {em, en}
Addresses == (g :> em) @@ (y :> en)
\* An identity is exchanged together with its address.
Exchanged == (g :> y) @@ (y :> g) @@ (em :> en) @@ (en :> em)
Symmetry == Permutations(TwoTabs) \cup Permutations(TwoSlots) \cup {Exchanged}
AllEvents == EventKinds
=============================================================================
