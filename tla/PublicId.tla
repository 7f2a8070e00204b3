------------------------------ MODULE PublicId ------------------------------
(***************************************************************************)
(* internal/publicid: the codec between 64-bit ids and the public ids of   *)
(* the API.  An id is a word of two halves; four Feistel rounds, keyed by  *)
(* the resource the id is of, permute the words; the result is written in  *)
(* base 62.  A public id is its prefix and its digits; the digit Base      *)
(* stands for a character that is not in the alphabet.                     *)
(***************************************************************************)
EXTENDS Integers, Sequences

CONSTANTS
    HalfSize,        \* 2^32
    ExclusiveOr(_, _),\* bitwise exclusive or of two halves
    Multiplier,      \* 0x9e3779b9
    Base,            \* 62
    Kinds,           \* the resources
    RoundKeys        \* deriveRoundKeys, per prefix: an HMAC of the secret

Half == 0..(HalfSize - 1)
WordSize == HalfSize * HalfSize
Words == 0..(WordSize - 1)

\* int64
Id64 == {id \in Int : -WordSize <= 2 * id /\ 2 * id < WordSize}

ASSUME CodecAssumption ==
    /\ HalfSize \in Nat \ {0}
    /\ \A a, b \in Half : ExclusiveOr(a, b) \in Half /\ ExclusiveOr(ExclusiveOr(a, b), b) = a
    /\ Multiplier \in Nat
    /\ Base \in Nat \ {0, 1}
    /\ RoundKeys \in [Kinds -> [1..4 -> Half]]

(***************************************************************************)
(* The Feistel network.                                                    *)
(***************************************************************************)
Blocks == [l : Half, r : Half]
Split(n) == [l |-> n \div HalfSize, r |-> n % HalfSize]
Join(b) == b.l * HalfSize + b.r

FeistelRound(r, k) == (ExclusiveOr(r, k) * Multiplier) % HalfSize

EncryptRound(b, k) == [l |-> b.r, r |-> ExclusiveOr(b.l, FeistelRound(b.r, k))]

DecryptRound(b, k) == [l |-> ExclusiveOr(b.r, FeistelRound(b.l, k)), r |-> b.l]

EncryptBlock(b, keys) ==
    EncryptRound(EncryptRound(EncryptRound(EncryptRound(b, keys[1]), keys[2]), keys[3]), keys[4])

\* Mutation of DecryptBlock: the keys in the order of encryption.
DecryptBlockForward(b, keys) ==
    DecryptRound(DecryptRound(DecryptRound(DecryptRound(b, keys[1]), keys[2]), keys[3]), keys[4])

DecryptBlock(b, keys) ==
    DecryptRound(DecryptRound(DecryptRound(DecryptRound(b, keys[4]), keys[3]), keys[2]), keys[1])

FeistelEncrypt(n, keys) == Join(EncryptBlock(Split(n), keys))
FeistelDecrypt(n, keys) == Join(DecryptBlock(Split(n), keys))

(***************************************************************************)
(* Base 62.                                                                *)
(***************************************************************************)
\* Mutation of OneDigit: an off-by-one in the last division.
OneDigitOffByOne(n) == n <= Base

OneDigit(n) == n < Base

\* toBase62: the most significant digit first, zero a digit of its own.
ToDigits[n \in Words] ==
    IF OneDigit(n) THEN <<n>> ELSE Append(ToDigits[n \div Base], n % Base)

\* fromBase62: the integer, of any size, that the first digits say, after each digit.
Values(s) ==
    LET Value[i \in 0..Len(s)] == IF i = 0 THEN 0 ELSE Value[i - 1] * Base + s[i]
    IN  Value

FromDigits(s) == Values(s)[Len(s)]

\* Mutation of ValidDigits: a value past 64 bits is cut instead of refused.
ValidDigitsAnySize(s) == s # <<>> /\ \A i \in DOMAIN s : s[i] < Base

ValidDigits(s) ==
    /\ s # <<>>
    /\ \A i \in DOMAIN s : s[i] < Base
    /\ FromDigits(s) < WordSize

(***************************************************************************)
(* Ids and public ids.                                                     *)
(***************************************************************************)
\* uint64(id) and int64(word): two's complement.
ToWord(id) == id % WordSize
ToId(n) == IF 2 * n < WordSize THEN n ELSE n - WordSize

Encode(prefix, id) ==
    [prefix |-> prefix, digits |-> ToDigits[FeistelEncrypt(ToWord(id), RoundKeys[prefix])]]

DecodePrefix(expected, public) == public.prefix = expected

\* The id a public id stands for where the resource is expected, if any.
Decode(expected, public) ==
    IF DecodePrefix(expected, public) /\ ValidDigits(public.digits)
    THEN {ToId(FeistelDecrypt(FromDigits(public.digits), RoundKeys[expected]))}
    ELSE {}
=============================================================================
