--------------------------- MODULE MCCheckPasswd ---------------------------
EXTENDS CheckPasswd

\* "killerwhales" of pass.txt is one of the words that are too long.
MCWords == {"fish", "swim", "killerwhal", "killerwhales"}
MCCut == [w \in MCWords |-> IF w = "killerwhales" THEN "killerwhal" ELSE w]
MCRest == "rest"

Line(u, p) == [user |-> u, password |-> p]
\* In the last file a user has two lines.
MCFiles == {<<>>, <<Line("killerwhales", "swim"), Line("fish", "swim"), Line("swim", "killerwhales")>>,
            <<Line("killerwhal", "fish"), Line("fish", "fish")>>,
            <<Line("fish", "swim"), Line("swim", "fish"), Line("fish", "fish")>>}
=============================================================================
