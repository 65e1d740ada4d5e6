-------------------------------- MODULE Party --------------------------------
(***************************************************************************)
(* Parties of soldiers, as LaunchMarch, handleAttack and handleReturn      *)
(* count them (game/march_service.go).                                     *)
(*                                                                         *)
(* A count of soldiers is a set of tokens.  LaunchMarch takes a count that *)
(* is less than zero, too: t.Troops[k] -= v then puts soldiers at home, a  *)
(* set of loans, and the party on the march owes them: it is the set of    *)
(* their debts, each a token that counts minus one.  The loans, given by   *)
(* the caller, are a bound on how many soldiers may come that way.         *)
(***************************************************************************)
EXTENDS Integers, FiniteSets

Debt(g) == [owed |-> g]
Debts(loans) == {Debt(g) : g \in loans}

\* What the code has as the number of the soldiers s.
Count(s, loans) == Cardinality(s \ Debts(loans)) - Cardinality(s \cap Debts(loans))

\* Wherever a player's soldiers are: at home h, fallen f, or with a party of r.
Places(h, f, r) == h \cup f \cup UNION {r[k].troops : k \in DOMAIN r}

Unlent(loans, p) == {g \in loans : g \notin p /\ Debt(g) \notin p}

\* LaunchMarch refuses a party of more than there are at home; an empty party
\* and one below zero it takes.  With nobody at home the row may have a count of
\* zero, which a party of none has brought back, or no count any more, and a
\* party below zero is refused: both are possible here.
Parties(h, f, r, loans) ==
    {{}} \cup {s \in SUBSET (h \ Debts(loans)) : Cardinality(s) <= Count(h, loans)}
         \cup {Debts(lent) : lent \in {l \in SUBSET Unlent(loans, Places(h, f, r)) :
                                           -Cardinality(l) <= Count(h, loans)}}

\* The soldiers at home a party owes.
Lent(s, loans) == {g \in loans : Debt(g) \in s}

\* handleAttack: half of the party is lost, rounded down, and of a party below
\* zero nothing is left, that is, what it owes is forgotten.
Losses(s, loans) ==
    IF s \cap Debts(loans) # {} THEN {s}
    ELSE {lost \in SUBSET s : Cardinality(lost) = Cardinality(s) \div 2}
=============================================================================
