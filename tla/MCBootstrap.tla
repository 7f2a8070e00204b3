---------------------------- MODULE MCBootstrap ----------------------------
(***************************************************************************)
(* An instance of Bootstrap for TLC.                                       *)
(***************************************************************************)
EXTENDS Bootstrap, TLC

CONSTANTS p1, p2

Env(n, p, s) == [name |-> n, prefix |-> p, secret |-> s]

\* The secret left unset, configured, with an underscore in it that makes another prefix
\* of the words before, and configured otherwise under another business's name, with
\* white space behind it or in front of its prefix.
MCConfigs == {
    Env("demo", <<"dp", "test">>, <<>>),
    Env("demo", <<"dp", "test">>, <<"s">>),
    Env("demo", <<"dp", "test">>, <<"live", "s">>),
    Env("demo", <<"dp", "test", "live">>, <<"s">>),
    Env("other", <<"dp", "test">>, <<"s ">>),
    Env("demo", <<" dp", "test">>, <<"s">>)}

MCTrimLeft(word) == IF word = " dp" THEN "dp" ELSE word
MCTrimRight(word) == IF word = "s " THEN "s" ELSE word

Words == <<"g1", "g2", "g3">>
MCGenerated(n) == Words[n]
MCIds == 1..2

ProcessSymmetry == Permutations({p1, p2})
=============================================================================
