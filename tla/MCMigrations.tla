---------------------------- MODULE MCMigrations ----------------------------
(* Model-checking instance of MigrationRunner, and the texts on which        *)
(* SplitSql is compared with its reference.                                  *)
EXTENDS MigrationRunner, TLC

CONSTANT MaxWords \* bound: words of a text

Symmetry == Permutations(Runners)

Words == {<<";">>, <<"x">>, <<"n">>, <<" ">>, <<"b">>, <<"'">>, <<"e", "'">>, <<"\"">>,
          <<"$">>, <<"$", "$">>, <<"$", "x", "$">>, <<"$", "u", "$">>, <<"$", "1", "$">>,
          LineComment, BlockComment, <<"*", "/">>}

TextsUpTo[n \in Nat] ==
    IF n = 0 THEN {<<>>}
    ELSE TextsUpTo[n - 1] \cup {t \o w : t \in TextsUpTo[n - 1], w \in Words}

ShortTexts == TextsUpTo[MaxWords]
=============================================================================
