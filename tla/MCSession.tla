----------------------------- MODULE MCSession ------------------------------
(* Model-checking instances of Session.                                    *)
EXTENDS Session, TLC

CONSTANTS a, b, c

(* Client a connects twice, b and c once.                                  *)
Returning == {<<a, 1>>, <<a, 2>>, <<b, 1>>, <<c, 1>>}

(* Client a connects twice, b once; or each of them once.                  *)
Rematch == {<<a, 1>>, <<a, 2>>, <<b, 1>>}
Duel == {<<a, 1>>, <<b, 1>>}

Symmetry == Permutations({b, c})

=============================================================================
