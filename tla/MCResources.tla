---------------------------- MODULE MCResources ----------------------------
(***************************************************************************)
(* An instance of Resources for TLC: a codec on words of four bits and in  *)
(* base 3, where three digits may exceed a word.                           *)
(***************************************************************************)
EXTENDS Resources, Bitwise, TLC

CONSTANTS r1, r2, r3, b1, b2

BitXor(a, b) == a ^^ b

MCRoundKeys ==
    [p \in Kinds |-> IF p = "cus" THEN <<1, 3, 0, 2>> ELSE <<2, 0, 3, 3>>]

MCIds == {1, 3, 7}
MCBelow == 0

\* What a client may send where a public id is expected: the digits of an id of either
\* kind, those of a customer with a zero in front, those of its word plus 2^64, a
\* character that is no digit, and nothing; under each prefix.
Digits(k) == {Encode(k, id).digits : id \in MCIds}
PastWord(s) == LET n == FromDigits(s) + WordSize IN <<n \div 27, (n \div 9) % 3, (n \div 3) % 3, n % 3>>
Strings == UNION {Digits(k) : k \in Kinds}
           \cup {<<0>> \o s : s \in Digits("cus")} \cup {PastWord(s) : s \in Digits("cus")}
           \cup {<<Base>>, <<>>}
AnyPublic == [prefix |-> "cus", digits |-> <<>>]

MCInputs ==
    [op : {"create"}, business : {b1, b2}, kind : {"cus"}, public : {AnyPublic}]
    \cup [op : {"create"}, business : {b1}, kind : {"whe"}, public : {AnyPublic}]
    \cup [op : {"list"}, business : {b1}, kind : {"cus"}, public : {AnyPublic}]
    \cup [op : {"get"}, business : {b1}, kind : {"cus"},
          public : [prefix : Kinds, digits : Strings]]

RequestSymmetry == Permutations({r1, r2, r3})
=============================================================================
