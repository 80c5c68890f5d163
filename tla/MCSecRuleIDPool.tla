-------------------------- MODULE MCSecRuleIDPool --------------------------
(* Instances of SecRuleIDPool for TLC.                                      *)
EXTENDS SecRuleIDPool, TLC

CONSTANTS s1, s2

MCSymmetry == Permutations({s1, s2})

\* Two SecRules, every id from the pool: the allocation race across leaders.
MCAuto == {<<0>>}
MCDefaultRange == <<1, 4>>

\* One SecRule, a bag that exhausts the pool until its range grows.
MCBags == {<<0>>, <<1, 2, 0>>}
MCBad == {<<0>>}
MCSmallRange == <<1, 2>>
MCLargerRange == {<<1, 3>>}

\* A bag of three gives one rule up, the range shrinks below the cursor, and
\* the rule comes back.
MCGrowing == {<<0, 0>>, <<0, 0, 0>>}
MCShrunkRange == {<<1, 2>>}

\* The same two rules of a bag in either order.
MCReorder == {<<5, 0>>, <<0, 5>>}
=============================================================================
