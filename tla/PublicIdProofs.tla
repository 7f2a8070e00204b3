--------------------------- MODULE PublicIdProofs ---------------------------
(***************************************************************************)
(* Theorems about PublicId.  The keyed permutation is inverted, for every  *)
(* size of a half, every exclusive or that is its own inverse, every       *)
(* multiplier and all round keys; nothing is asked of the round function,  *)
(* as in every Feistel network.  Base 62, or any other base, is inverted on *)
(* every word, and reading digits forgets only the zeros in front of them. *)
(***************************************************************************)
EXTENDS PublicId, WellFoundedInduction, TLAPS

LEMMA ProductType == \A x, y \in Nat : x * y \in Nat
PROOF OBVIOUS

LEMMA RemainderType == \A x \in Nat : \A h \in Nat \ {0} : x % h \in 0..(h - 1)
PROOF OBVIOUS

LEMMA WordSizeType == WordSize \in Nat \ {0}
PROOF
<1>1. ASSUME NEW h \in Nat \ {0} PROVE h * h \in Nat \ {0}
    BY <1>1, Z3
<1> QED BY <1>1, CodecAssumption DEF WordSize

LEMMA QuotientIsLess ==
    ASSUME NEW b \in Nat, b > 1, NEW n \in Nat, n >= b
    PROVE  /\ n \div b \in Nat /\ n \div b > 0 /\ n \div b < n
           /\ \A j \in Nat : n <= j + 1 => n \div b \in 0..j
PROOF
<1>1. n \div b \in Nat /\ n \div b > 0
    OBVIOUS
<1>2. n \div b < n
    BY <1>1
<1> QED BY <1>1, <1>2

LEMMA DivisionIsExact ==
    ASSUME NEW b \in Nat, b > 1, NEW n \in Nat
    PROVE  n \div b \in Nat /\ n % b \in 0..(b - 1) /\ (n \div b) * b + (n % b) = n
PROOF
<1>1. (n \div b) * b + (n % b) = n
    BY Z3
<1> QED BY <1>1

LEMMA DigitOfSum ==
    ASSUME NEW b \in Nat, b > 1, NEW w \in Nat, w > 0, NEW d \in 0..(b - 1)
    PROVE  /\ w * b + d >= b
           /\ (w * b + d) \div b = w /\ (w * b + d) % b = d
PROOF
<1>1. w * b >= b
    BY Z3
<1>2. (w * b + d) \div b = w /\ (w * b + d) % b = d
    BY Z3
<1> QED BY <1>1, <1>2

LEMMA SubSeqOfOne ==
    ASSUME NEW S, NEW s \in Seq(S), NEW f \in 1..Len(s)
    PROVE  SubSeq(s, f, f) = <<s[f]>>
PROOF
<1> DEFINE t == SubSeq(s, f, f)
<1>1. t \in Seq(S) /\ Len(t) = 1 /\ t[1] = s[f]
    OBVIOUS
<1> HIDE DEF t
<1>2. t = <<t[1]>>
    BY <1>1
<1> QED BY <1>1, <1>2 DEF t

LEMMA LongerSubSeq ==
    ASSUME NEW S, NEW s \in Seq(S), NEW f \in 1..Len(s), NEW k \in f..(Len(s) - 1)
    PROVE  Append(SubSeq(s, f, k), s[k + 1]) = SubSeq(s, f, k + 1)
PROOF OBVIOUS

LEMMA RoundFunctionType ==
    ASSUME NEW r \in Half, NEW k \in Half
    PROVE  FeistelRound(r, k) \in Half
PROOF
<1> DEFINE x == ExclusiveOr(r, k)
<1>1. x \in Nat
    <2>1. x \in Half
        BY CodecAssumption
    <2> QED BY <2>1 DEF Half
<1>2. Multiplier \in Nat /\ HalfSize \in Nat \ {0}
    BY CodecAssumption
<1> HIDE DEF x
<1>3. x * Multiplier \in Nat
    BY <1>1, <1>2, ProductType
<1>4. (x * Multiplier) % HalfSize \in Half
    BY <1>2, <1>3, RemainderType DEF Half
<1> QED BY <1>4 DEF FeistelRound, x

LEMMA RoundType ==
    ASSUME NEW b \in Blocks, NEW k \in Half
    PROVE  EncryptRound(b, k) \in Blocks
PROOF
<1>1. b.l \in Half /\ b.r \in Half
    BY DEF Blocks
<1>2. FeistelRound(b.r, k) \in Half
    BY <1>1, RoundFunctionType
<1>3. ExclusiveOr(b.l, FeistelRound(b.r, k)) \in Half
    BY <1>1, <1>2, CodecAssumption
<1> QED BY <1>1, <1>3 DEF EncryptRound, Blocks

\* One round is undone by its inverse under the same key.
LEMMA RoundInverse ==
    ASSUME NEW b \in Blocks, NEW k \in Half
    PROVE  DecryptRound(EncryptRound(b, k), k) = b
PROOF
<1> DEFINE f == FeistelRound(b.r, k)
<1>1. EncryptRound(b, k) \in Blocks
    BY RoundType
<1>2. ExclusiveOr(b.l, f) \in Half
    BY <1>1 DEF EncryptRound, Blocks
<1>3. f \in Half
    BY RoundFunctionType DEF Blocks
<1>4. ExclusiveOr(ExclusiveOr(b.l, f), f) = b.l
    BY <1>3, CodecAssumption DEF Blocks
<1>5. DecryptRound(EncryptRound(b, k), k) = [l |-> ExclusiveOr(ExclusiveOr(b.l, f), f), r |-> b.r]
    BY DEF DecryptRound, EncryptRound
<1> QED BY <1>4, <1>5 DEF Blocks

\* The other way round.
LEMMA RoundInverseBack ==
    ASSUME NEW b \in Blocks, NEW k \in Half
    PROVE  DecryptRound(b, k) \in Blocks /\ EncryptRound(DecryptRound(b, k), k) = b
PROOF
<1> DEFINE f == FeistelRound(b.l, k)
<1>1. b.l \in Half /\ b.r \in Half
    BY DEF Blocks
<1>2. f \in Half
    BY <1>1, RoundFunctionType
<1>3. ExclusiveOr(b.r, f) \in Half /\ ExclusiveOr(ExclusiveOr(b.r, f), f) = b.r
    BY <1>1, <1>2, CodecAssumption
<1>4. DecryptRound(b, k) = [l |-> ExclusiveOr(b.r, f), r |-> b.l]
    BY DEF DecryptRound
<1>5. EncryptRound(DecryptRound(b, k), k) = [l |-> b.l, r |-> ExclusiveOr(ExclusiveOr(b.r, f), f)]
    BY <1>4 DEF EncryptRound
<1> HIDE DEF f
<1> QED BY <1>1, <1>3, <1>4, <1>5 DEF Blocks

\* The four rounds of decryption undo those of encryption.
LEMMA BlockInverse ==
    ASSUME NEW b \in Blocks, NEW keys \in [1..4 -> Half]
    PROVE  /\ EncryptBlock(b, keys) \in Blocks
           /\ DecryptBlock(EncryptBlock(b, keys), keys) = b
PROOF
<1> DEFINE b1 == EncryptRound(b, keys[1])
           b2 == EncryptRound(b1, keys[2])
           b3 == EncryptRound(b2, keys[3])
           b4 == EncryptRound(b3, keys[4])
<1>0. /\ keys[1] \in Half /\ keys[2] \in Half
      /\ keys[3] \in Half /\ keys[4] \in Half
    OBVIOUS
<1>1. b1 \in Blocks /\ DecryptRound(b1, keys[1]) = b
    BY <1>0, RoundType, RoundInverse
<1>2. b2 \in Blocks /\ DecryptRound(b2, keys[2]) = b1
    <2> HIDE DEF b1
    <2> QED BY <1>0, <1>1, RoundType, RoundInverse
<1>3. b3 \in Blocks /\ DecryptRound(b3, keys[3]) = b2
    <2> HIDE DEF b2
    <2> QED BY <1>0, <1>2, RoundType, RoundInverse
<1>4. b4 \in Blocks /\ DecryptRound(b4, keys[4]) = b3
    <2> HIDE DEF b3
    <2> QED BY <1>0, <1>3, RoundType, RoundInverse
<1>5. EncryptBlock(b, keys) = b4
    BY DEF EncryptBlock
<1>6. DecryptBlock(b4, keys) = b
    <2> HIDE DEF b1, b2, b3, b4
    <2> QED BY <1>1, <1>2, <1>3, <1>4 DEF DecryptBlock
<1> HIDE DEF b1, b2, b3, b4
<1> QED BY <1>4, <1>5, <1>6

LEMMA BlockInverseBack ==
    ASSUME NEW b \in Blocks, NEW keys \in [1..4 -> Half]
    PROVE  /\ DecryptBlock(b, keys) \in Blocks
           /\ EncryptBlock(DecryptBlock(b, keys), keys) = b
PROOF
<1> DEFINE b1 == DecryptRound(b, keys[4])
           b2 == DecryptRound(b1, keys[3])
           b3 == DecryptRound(b2, keys[2])
           b4 == DecryptRound(b3, keys[1])
<1>0. /\ keys[1] \in Half /\ keys[2] \in Half
      /\ keys[3] \in Half /\ keys[4] \in Half
    OBVIOUS
<1>1. b1 \in Blocks /\ EncryptRound(b1, keys[4]) = b
    BY <1>0, RoundInverseBack
<1>2. b2 \in Blocks /\ EncryptRound(b2, keys[3]) = b1
    <2> HIDE DEF b1
    <2> QED BY <1>0, <1>1, RoundInverseBack
<1>3. b3 \in Blocks /\ EncryptRound(b3, keys[2]) = b2
    <2> HIDE DEF b2
    <2> QED BY <1>0, <1>2, RoundInverseBack
<1>4. b4 \in Blocks /\ EncryptRound(b4, keys[1]) = b3
    <2> HIDE DEF b3
    <2> QED BY <1>0, <1>3, RoundInverseBack
<1>5. DecryptBlock(b, keys) = b4
    BY DEF DecryptBlock
<1>6. EncryptBlock(b4, keys) = b
    <2> HIDE DEF b1, b2, b3, b4
    <2> QED BY <1>1, <1>2, <1>3, <1>4 DEF EncryptBlock
<1> HIDE DEF b1, b2, b3, b4
<1> QED BY <1>4, <1>5, <1>6

\* A word is the block of its halves.
LEMMA SplitJoin ==
    /\ \A n \in Words : Split(n) \in Blocks /\ Join(Split(n)) = n
    /\ \A b \in Blocks : Join(b) \in Words /\ Split(Join(b)) = b
PROOF
<1>1. ASSUME NEW n \in Words PROVE Split(n) \in Blocks /\ Join(Split(n)) = n
    <2>1. ASSUME NEW h \in Nat \ {0}, NEW m \in 0..(h * h - 1)
          PROVE  m \div h \in 0..(h - 1) /\ m % h \in 0..(h - 1) /\ ((m \div h) * h) + (m % h) = m
        BY <2>1, Z3
    <2> QED BY <2>1, CodecAssumption DEF Words, WordSize, Half, Blocks, Split, Join
<1>2. ASSUME NEW b \in Blocks PROVE Join(b) \in Words /\ Split(Join(b)) = b
    <2>1. ASSUME NEW h \in Nat \ {0}, NEW x \in 0..(h - 1), NEW y \in 0..(h - 1)
          PROVE  x * h + y \in 0..(h * h - 1)
        BY <2>1, Z3
    <2>2. ASSUME NEW h \in Nat \ {0}, NEW x \in 0..(h - 1), NEW y \in 0..(h - 1)
          PROVE  (x * h + y) \div h = x /\ (x * h + y) % h = y
        BY <2>2, Z3
    <2>3. b = [l |-> b.l, r |-> b.r] /\ b.l \in Half /\ b.r \in Half
        BY DEF Blocks
    <2> QED BY <2>1, <2>2, <2>3, CodecAssumption DEF Words, WordSize, Half, Split, Join
<1> QED BY <1>1, <1>2

\* feistelDecrypt undoes feistelEncrypt under the keys of every resource, so no
\* two ids of a resource share a word (publicid.go).
THEOREM PermutationIsInverted ==
    \A kind \in Kinds : \A n \in Words :
        /\ FeistelEncrypt(n, RoundKeys[kind]) \in Words
        /\ FeistelDecrypt(FeistelEncrypt(n, RoundKeys[kind]), RoundKeys[kind]) = n
PROOF
<1> SUFFICES ASSUME NEW kind \in Kinds, NEW n \in Words
             PROVE  /\ FeistelEncrypt(n, RoundKeys[kind]) \in Words
                    /\ FeistelDecrypt(FeistelEncrypt(n, RoundKeys[kind]), RoundKeys[kind]) = n
    OBVIOUS
<1> DEFINE keys == RoundKeys[kind]
           c == EncryptBlock(Split(n), keys)
<1>1. keys \in [1..4 -> Half]
    BY CodecAssumption
<1>2. Split(n) \in Blocks /\ Join(Split(n)) = n
    BY SplitJoin
<1>3. c \in Blocks /\ DecryptBlock(c, keys) = Split(n)
    <2> HIDE DEF keys
    <2> QED BY <1>1, <1>2, BlockInverse
<1>4. Join(c) \in Words /\ Split(Join(c)) = c
    <2> HIDE DEF c
    <2> QED BY <1>3, SplitJoin
<1>5. FeistelEncrypt(n, keys) = Join(c)
    BY DEF FeistelEncrypt
<1>6. FeistelDecrypt(Join(c), keys) = n
    <2> HIDE DEF c, keys
    <2> QED BY <1>2, <1>3, <1>4 DEF FeistelDecrypt
<1> HIDE DEF c
<1> QED BY <1>4, <1>5, <1>6

\* feistelEncrypt undoes feistelDecrypt: every word is that of some id.
LEMMA PermutationIsOnto ==
    ASSUME NEW kind \in Kinds, NEW n \in Words
    PROVE  /\ FeistelDecrypt(n, RoundKeys[kind]) \in Words
           /\ FeistelEncrypt(FeistelDecrypt(n, RoundKeys[kind]), RoundKeys[kind]) = n
PROOF
<1> DEFINE keys == RoundKeys[kind]
           c == DecryptBlock(Split(n), keys)
<1>1. keys \in [1..4 -> Half]
    BY CodecAssumption
<1>2. Split(n) \in Blocks /\ Join(Split(n)) = n
    BY SplitJoin
<1>3. c \in Blocks /\ EncryptBlock(c, keys) = Split(n)
    <2> HIDE DEF keys
    <2> QED BY <1>1, <1>2, BlockInverseBack
<1>4. Join(c) \in Words /\ Split(Join(c)) = c
    <2> HIDE DEF c
    <2> QED BY <1>3, SplitJoin
<1>5. FeistelDecrypt(n, keys) = Join(c)
    BY DEF FeistelDecrypt
<1>6. FeistelEncrypt(Join(c), keys) = n
    <2> HIDE DEF c, keys
    <2> QED BY <1>2, <1>3, <1>4 DEF FeistelEncrypt
<1> HIDE DEF c
<1> QED BY <1>4, <1>5, <1>6

\* The conversions int64 to uint64 and back lose nothing, negative ids included.
THEOREM SignIsKept ==
    ASSUME NEW id \in Id64
    PROVE  ToWord(id) \in Words /\ ToId(ToWord(id)) = id
PROOF
<1>0. id \in Int /\ -WordSize <= 2 * id /\ 2 * id < WordSize
    BY DEF Id64
<1>1. WordSize \in Nat \ {0}
    BY WordSizeType
<1>2. CASE id >= 0
    <2>1. id % WordSize = id
        BY <1>0, <1>1, <1>2
    <2> QED BY <1>0, <1>1, <1>2, <2>1 DEF ToWord, ToId, Words
<1>3. CASE id < 0
    <2>1. id % WordSize = id + WordSize
        <3>1. ASSUME NEW w \in Nat \ {0}, NEW x \in Int, x < 0, -w <= x PROVE x % w = x + w
            BY <3>1, Z3
        <3>2. -WordSize <= id
            BY <1>0, <1>1, <1>3
        <3> QED BY <1>0, <1>1, <1>3, <3>1, <3>2
    <2> QED BY <1>0, <1>1, <1>3, <2>1 DEF ToWord, ToId, Words
<1> QED BY <1>0, <1>2, <1>3

(***************************************************************************)
(* Base 62.  Induction over the digits is over a set of numbers, found by  *)
(* its least missing element.                                              *)
(***************************************************************************)
LEMMA SetInduction ==
    ASSUME NEW T, 0 \in T, \A n \in T \cap Nat : n + 1 \in T
    PROVE  Nat \subseteq T
PROOF
<1> DEFINE U == Nat \ T
<1> SUFFICES ASSUME U # {} PROVE FALSE
    OBVIOUS
<1>1. PICK m \in U : \A n \in U : ~(<<n, m>> \in OpToRel(<, Nat))
    BY WFMin, NatLessThanWellFounded, Zenon
<1>2. \A n \in U : ~(n < m)
    BY <1>1 DEF OpToRel
<1>3. m \in Nat /\ m \notin T /\ m # 0
    OBVIOUS
<1>4. m - 1 \in Nat /\ m - 1 < m /\ (m - 1) + 1 = m
    BY <1>3
<1>5. m - 1 \in T
    BY <1>2, <1>4
<1> QED BY <1>3, <1>4, <1>5

\* A function with the equation of Values exists, for each number of digits.
LEMMA ValuesExist ==
    ASSUME NEW s, NEW k \in Nat
    PROVE  \E f : f = [i \in 0..k |-> IF i = 0 THEN 0 ELSE f[i - 1] * Base + s[i]]
PROOF
<1> DEFINE E(f, j) == f = [i \in 0..j |-> IF i = 0 THEN 0 ELSE f[i - 1] * Base + s[i]]
           T == {j \in Nat : \E f : E(f, j)}
<1>1. 0 \in T
    <2> DEFINE f == [i \in 0..0 |-> 0]
    <2>1. E(f, 0)
        OBVIOUS
    <2> QED BY <2>1
<1>2. ASSUME NEW j \in T PROVE j + 1 \in T
    <2>1. PICK f : E(f, j)
        BY <1>2
    <2> DEFINE g == [i \in 0..(j + 1) |-> IF i = 0 THEN 0 ELSE f[i - 1] * Base + s[i]]
    <2>2. \A i \in 0..j : g[i] = f[i]
        BY <2>1
    <2>3. ASSUME NEW i \in 0..(j + 1)
          PROVE  g[i] = IF i = 0 THEN 0 ELSE g[i - 1] * Base + s[i]
        <3>1. CASE i = 0
            BY <3>1
        <3>2. CASE i # 0
            <4>1. i - 1 \in 0..j /\ j \in Nat
                BY <3>2
            <4>2. g[i - 1] = f[i - 1]
                BY <2>2, <4>1
            <4> QED BY <3>2, <4>2
        <3> QED BY <3>1, <3>2
    <2>4. g = [i \in 0..(j + 1) |-> g[i]] /\ j + 1 \in Nat
        OBVIOUS
    <2> HIDE DEF g
    <2>5. E(g, j + 1)
        BY <2>3, <2>4
    <2> HIDE DEF E
    <2> QED BY <2>4, <2>5
<1> HIDE DEF T
<1>3. Nat \subseteq T
    BY <1>1, <1>2, SetInduction
<1> QED BY <1>3 DEF T

LEMMA ValuesEquation ==
    ASSUME NEW s, Len(s) \in Nat
    PROVE  /\ Values(s)[0] = 0
           /\ \A i \in 1..Len(s) : Values(s)[i] = Values(s)[i - 1] * Base + s[i]
PROOF
<1>1. \E f : f = [i \in 0..Len(s) |-> IF i = 0 THEN 0 ELSE f[i - 1] * Base + s[i]]
    BY ValuesExist, Zenon
<1>2. Values(s) = [i \in 0..Len(s) |-> IF i = 0 THEN 0 ELSE Values(s)[i - 1] * Base + s[i]]
    BY <1>1, Zenon DEF Values
<1> HIDE DEF Values
<1> QED BY <1>2

\* A function with the equation of ToDigits exists up to any word: a quotient is
\* less than its dividend.
LEMMA DigitsExist ==
    ASSUME NEW k \in Nat
    PROVE  \E f : f = [n \in 0..k |->
                         IF n < Base THEN <<n>> ELSE Append(f[n \div Base], n % Base)]
PROOF
<1> DEFINE E(f, j) == f = [n \in 0..j |->
                             IF n < Base THEN <<n>> ELSE Append(f[n \div Base], n % Base)]
           T == {j \in Nat : \E f : E(f, j)}
<1>0. Base \in Nat /\ Base > 1
    BY CodecAssumption
<1>1. 0 \in T
    <2> DEFINE f == [n \in 0..0 |-> <<n>>]
    <2>1. E(f, 0)
        BY <1>0
    <2> QED BY <2>1
<1>2. ASSUME NEW j \in T PROVE j + 1 \in T
    <2>1. PICK f : E(f, j)
        BY <1>2
    <2> DEFINE g == [n \in 0..(j + 1) |->
                       IF n < Base THEN <<n>> ELSE Append(f[n \div Base], n % Base)]
    <2>0. j \in Nat
        OBVIOUS
    <2>2. ASSUME NEW n \in 0..j PROVE g[n] = f[n]
        <3>1. f[n] = IF n < Base THEN <<n>> ELSE Append(f[n \div Base], n % Base)
            BY <2>1, Zenon
        <3>2. n \in 0..(j + 1)
            BY <2>0
        <3> HIDE DEF E, T
        <3> QED BY <3>1, <3>2, Zenon
    <2>3. ASSUME NEW n \in 0..(j + 1)
          PROVE  g[n] = IF n < Base THEN <<n>> ELSE Append(g[n \div Base], n % Base)
        <3>1. CASE n < Base
            BY <3>1
        <3>2. CASE ~(n < Base)
            <4>1. n \in Nat /\ n >= Base /\ n <= j + 1
                BY <1>0, <2>0, <3>2
            <4>2. n \div Base \in 0..j
                BY <1>0, <2>0, <4>1, QuotientIsLess
            <4>3. g[n \div Base] = f[n \div Base]
                BY <2>2, <4>2
            <4> QED BY <3>2, <4>3
        <3> QED BY <3>1, <3>2
    <2>4. g = [n \in 0..(j + 1) |-> g[n]] /\ j + 1 \in Nat
        OBVIOUS
    <2> HIDE DEF g
    <2>5. E(g, j + 1)
        BY <2>3, <2>4
    <2> HIDE DEF E
    <2> QED BY <2>4, <2>5
<1> HIDE DEF T
<1>3. Nat \subseteq T
    BY <1>1, <1>2, SetInduction
<1> QED BY <1>3 DEF T

LEMMA DigitsEquation ==
    ASSUME NEW n \in Words
    PROVE  /\ n < Base => ToDigits[n] = <<n>>
           /\ n >= Base => /\ n \div Base \in Words /\ n \div Base < n /\ n \div Base > 0
                           /\ ToDigits[n] = Append(ToDigits[n \div Base], n % Base)
PROOF
<1>1. WordSize - 1 \in Nat
    BY WordSizeType
<1>2. \E f : f = [m \in Words |->
                    IF OneDigit(m) THEN <<m>> ELSE Append(f[m \div Base], m % Base)]
    BY <1>1, DigitsExist, Zenon DEF Words, OneDigit
<1>3. ToDigits = [m \in Words |->
                    IF OneDigit(m) THEN <<m>> ELSE Append(ToDigits[m \div Base], m % Base)]
    BY <1>2, Zenon DEF ToDigits
<1>4. Base \in Nat /\ Base > 1 /\ n \in Nat
    BY CodecAssumption, <1>1 DEF Words
<1>5. n >= Base => n \div Base \in Nat /\ n \div Base < n /\ n \div Base > 0
    BY <1>4, QuotientIsLess
<1>6. n >= Base => n \div Base \in Words
    BY <1>1, <1>4, <1>5 DEF Words
<1>7. ToDigits[n] = IF n < Base THEN <<n>> ELSE Append(ToDigits[n \div Base], n % Base)
    BY <1>3, Zenon DEF OneDigit
<1> QED BY <1>4, <1>5, <1>6, <1>7

Digit == 0..(Base - 1)

\* Every prefix of a text of digits has a value, which the next digit does not lower.
LEMMA ValuesType ==
    ASSUME NEW s \in Seq(Digit)
    PROVE  /\ \A i \in 0..Len(s) : Values(s)[i] \in Nat
           /\ \A i \in 1..Len(s) : Values(s)[i - 1] <= Values(s)[i]
PROOF
<1> DEFINE T == {i \in Nat : i <= Len(s) => Values(s)[i] \in Nat}
<1>0. Base \in Nat /\ Base > 1 /\ Len(s) \in Nat
    BY CodecAssumption
<1>1. 0 \in T
    BY <1>0, ValuesEquation
<1>2. ASSUME NEW i \in T PROVE i + 1 \in T
    <2> SUFFICES ASSUME i + 1 <= Len(s) PROVE Values(s)[i + 1] \in Nat
        OBVIOUS
    <2>1. i + 1 \in 1..Len(s) /\ (i + 1) - 1 = i /\ i <= Len(s) /\ i \in Nat
        BY <1>0
    <2>2. Values(s)[i + 1] = Values(s)[i] * Base + s[i + 1]
        BY <1>0, <2>1, ValuesEquation
    <2>3. s[i + 1] \in Digit /\ Values(s)[i] \in Nat
        BY <2>1
    <2>4. s[i + 1] \in Nat
        BY <1>0, <2>3 DEF Digit
    <2> QED BY <1>0, <2>2, <2>3, <2>4
<1>3. Nat \subseteq T
    <2> HIDE DEF T
    <2> QED BY <1>1, <1>2, SetInduction
<1>4. \A i \in 0..Len(s) : Values(s)[i] \in Nat
    BY <1>0, <1>3
<1>5. ASSUME NEW i \in 1..Len(s) PROVE Values(s)[i - 1] <= Values(s)[i]
    <2>1. i - 1 \in 0..Len(s) /\ Values(s)[i - 1] \in Nat /\ s[i] \in Nat
        BY <1>0, <1>4 DEF Digit
    <2>2. Values(s)[i] = Values(s)[i - 1] * Base + s[i]
        BY <1>0, ValuesEquation
    <2>3. ASSUME NEW v \in Nat PROVE v <= v * Base
        BY <1>0, <2>3
    <2> QED BY <1>0, <2>1, <2>2, <2>3
<1> QED BY <1>4, <1>5

\* A digit more multiplies the value and adds itself.
LEMMA ValueOfAppend ==
    ASSUME NEW s \in Seq(Digit), NEW d \in Digit
    PROVE  FromDigits(Append(s, d)) = FromDigits(s) * Base + d
PROOF
<1> DEFINE t == Append(s, d)
           T == {i \in Nat : i <= Len(s) => Values(t)[i] = Values(s)[i]}
<1>1. /\ Len(t) = Len(s) + 1 /\ t[Len(s) + 1] = d /\ Len(s) \in Nat /\ Len(t) \in Nat
      /\ \A i \in 1..Len(s) : t[i] = s[i]
    OBVIOUS
<1> HIDE DEF t
<1>2. 0 \in T
    BY <1>1, ValuesEquation
<1>3. ASSUME NEW i \in T PROVE i + 1 \in T
    <2> SUFFICES ASSUME i + 1 <= Len(s) PROVE Values(t)[i + 1] = Values(s)[i + 1]
        OBVIOUS
    <2>1. /\ i + 1 \in 1..Len(s) /\ i + 1 \in 1..Len(t) /\ (i + 1) - 1 = i
          /\ Values(t)[i] = Values(s)[i]
        BY <1>1
    <2>2. Values(s)[i + 1] = Values(s)[i] * Base + s[i + 1]
        BY <1>1, <2>1, ValuesEquation
    <2>3. Values(t)[i + 1] = Values(t)[i] * Base + t[i + 1]
        BY <1>1, <2>1, ValuesEquation
    <2> QED BY <1>1, <2>1, <2>2, <2>3
<1>4. Values(t)[Len(s)] = Values(s)[Len(s)]
    <2>1. Nat \subseteq T
        <3> HIDE DEF T
        <3> QED BY <1>2, <1>3, SetInduction
    <2> QED BY <1>1, <2>1
<1>5. Values(t)[Len(s) + 1] = Values(t)[(Len(s) + 1) - 1] * Base + t[Len(s) + 1]
    BY <1>1, ValuesEquation
<1>6. (Len(s) + 1) - 1 = Len(s)
    BY <1>1
<1> QED BY <1>1, <1>4, <1>5, <1>6 DEF FromDigits, t

\* toBase62 yields digits, and fromBase62 reads from them the word they were made of:
\* no two words are written alike (publicid.go).
THEOREM DigitsAreInverted ==
    \A n \in Words : /\ ToDigits[n] \in Seq(Digit) /\ ToDigits[n] # <<>>
                     /\ FromDigits(ToDigits[n]) = n
PROOF
<1> DEFINE P(n) == /\ ToDigits[n] \in Seq(Digit) /\ ToDigits[n] # <<>>
                   /\ FromDigits(ToDigits[n]) = n
           T == {k \in Nat : \A n \in Words : n < k => P(n)}
<1>0. Base \in Nat /\ Base > 1 /\ WordSize \in Nat
    BY CodecAssumption, WordSizeType
<1>1. 0 \in T
    BY <1>0 DEF Words
<1>2. ASSUME NEW k \in T PROVE k + 1 \in T
    <2>0. k \in Nat /\ k + 1 \in Nat /\ \A n \in Words : n < k => P(n)
        OBVIOUS
    <2> HIDE DEF T
    <2>1. ASSUME NEW n \in Words, n < k + 1 PROVE P(n)
        <3>0. n \in Nat
            BY <1>0 DEF Words
        <3>1. CASE n < Base
            <4>1. ToDigits[n] = <<n>> /\ n \in Digit
                BY <1>0, <3>0, <3>1, DigitsEquation DEF Digit
            <4>2. <<n>> = Append(<<>>, n) /\ <<>> \in Seq(Digit) /\ Len(<<>>) = 0
                OBVIOUS
            <4>3. FromDigits(<<>>) = 0
                BY <4>2, ValuesEquation DEF FromDigits
            <4>4. FromDigits(<<n>>) = 0 * Base + n
                BY <4>1, <4>2, <4>3, ValueOfAppend, Zenon
            <4>5. <<n>> \in Seq(Digit) /\ <<n>> # <<>>
                BY <4>1
            <4> QED BY <1>0, <3>0, <4>1, <4>4, <4>5
        <3>2. CASE n >= Base
            <4> DEFINE q == n \div Base
            <4>1. q \in Words /\ q < n /\ ToDigits[n] = Append(ToDigits[q], n % Base)
                BY <3>2, DigitsEquation
            <4>2. q \in Nat /\ n % Base \in Digit /\ q * Base + (n % Base) = n
                BY <1>0, <3>0, DivisionIsExact DEF Digit
            <4> HIDE DEF q, P
            <4>3. P(q)
                BY <2>0, <2>1, <3>0, <4>1, <4>2
            <4>4. ToDigits[q] \in Seq(Digit) /\ FromDigits(ToDigits[q]) = q
                BY <4>3 DEF P
            <4>5. FromDigits(ToDigits[n]) = n
                BY <4>1, <4>2, <4>4, ValueOfAppend
            <4>6. ToDigits[n] \in Seq(Digit) /\ ToDigits[n] # <<>>
                BY <4>1, <4>2, <4>4
            <4> QED BY <4>5, <4>6 DEF P
        <3> QED BY <1>0, <3>0, <3>1, <3>2
    <2> HIDE DEF P
    <2> QED BY <2>0, <2>1 DEF T
<1>3. ASSUME NEW n \in Words PROVE P(n)
    <2>1. n \in Nat /\ n + 1 \in Nat /\ n < n + 1
        BY <1>0 DEF Words
    <2>2. n + 1 \in T
        <3> HIDE DEF T
        <3> QED BY <1>1, <1>2, <2>1, SetInduction
    <2> HIDE DEF P
    <2> QED BY <2>1, <2>2
<1> QED BY <1>3

\* Without the zeros in front: the digits of a value are those from a first one, f,
\* that is not zero or is the last.
LEMMA DigitsOfValue ==
    ASSUME NEW s \in Seq(Digit), FromDigits(s) \in Words, NEW f \in 1..Len(s),
           \A i \in 1..(f - 1) : s[i] = 0, s[f] # 0 \/ f = Len(s)
    PROVE  ToDigits[FromDigits(s)] = SubSeq(s, f, Len(s))
PROOF
<1> DEFINE v == Values(s)
           len == Len(s)
           Z == {i \in Nat : i < f => v[i] = 0}
           M == {j \in Nat : j <= len => v[len - j] <= v[len]}
           T == {i \in Nat : f + i <= len => /\ ToDigits[v[f + i]] = SubSeq(s, f, f + i)
                                             /\ s[f] # 0 => v[f + i] > 0}
<1>0. /\ Base \in Nat /\ Base > 1 /\ len \in Nat /\ f \in Nat /\ f <= len /\ f > 0
      /\ WordSize \in Nat
    BY CodecAssumption, WordSizeType
<1>1. /\ v[0] = 0
      /\ \A i \in 0..len : v[i] \in Nat
      /\ \A i \in 1..len : /\ s[i] \in Digit /\ v[i] = v[i - 1] * Base + s[i]
                           /\ v[i - 1] <= v[i]
    BY <1>0, ValuesEquation, ValuesType
<1>2. v[len] \in Words
    BY DEF FromDigits
<1>3. FromDigits(s) = v[len] /\ s \in Seq(Digit)
    BY DEF FromDigits
<1> HIDE DEF v
<1>4. v[f - 1] = 0
    <2>1. 0 \in Z
        BY <1>1
    <2>2. ASSUME NEW i \in Z PROVE i + 1 \in Z
        <3> SUFFICES ASSUME i + 1 < f PROVE v[i + 1] = 0
            OBVIOUS
        <3>1. i + 1 \in 1..(f - 1) /\ i + 1 \in 1..len /\ (i + 1) - 1 = i /\ v[i] = 0
            BY <1>0
        <3>2. v[i + 1] = v[i] * Base + s[i + 1] /\ s[i + 1] = 0
            BY <1>1, <3>1
        <3> QED BY <1>0, <3>1, <3>2
    <2>3. Nat \subseteq Z
        <3> HIDE DEF Z
        <3> QED BY <2>1, <2>2, SetInduction
    <2> QED BY <1>0, <2>3
<1>5. ASSUME NEW i \in 0..len PROVE v[i] \in Words
    <2>1. 0 \in M
        BY <1>0, <1>1
    <2>2. ASSUME NEW j \in M PROVE j + 1 \in M
        <3> SUFFICES ASSUME j + 1 <= len PROVE v[len - (j + 1)] <= v[len]
            OBVIOUS
        <3>1. /\ len - j \in 1..len /\ len - j \in 0..len /\ len - (j + 1) \in 0..len
              /\ (len - j) - 1 = len - (j + 1) /\ len \in 0..len /\ v[len - j] <= v[len]
            BY <1>0
        <3>2. v[len - (j + 1)] <= v[len - j]
            BY <1>1, <3>1
        <3>3. v[len - (j + 1)] \in Nat /\ v[len - j] \in Nat /\ v[len] \in Nat
            BY <1>1, <3>1
        <3> HIDE DEF len
        <3> QED BY <3>1, <3>2, <3>3
    <2>3. Nat \subseteq M
        <3> HIDE DEF M
        <3> QED BY <2>1, <2>2, SetInduction
    <2>4. len - i \in Nat /\ len - i <= len /\ len - (len - i) = i
        BY <1>0
    <2>5. v[i] <= v[len] /\ v[i] \in Nat
        BY <1>1, <2>3, <2>4
    <2> QED BY <1>0, <1>2, <2>5 DEF Words
<1>6. 0 \in T
    <2>1. v[f] = 0 * Base + s[f] /\ s[f] \in Digit
        BY <1>0, <1>1, <1>4
    <2>2. v[f] = s[f] /\ s[f] \in Nat /\ s[f] < Base
        BY <1>0, <2>1 DEF Digit
    <2>3. v[f] \in Words
        BY <1>0, <1>5
    <2>4. ToDigits[v[f]] = <<s[f]>>
        BY <2>2, <2>3, DigitsEquation
    <2>5. SubSeq(s, f, f) = <<s[f]>> /\ f + 0 = f
        BY <1>0, <1>3, SubSeqOfOne
    <2> QED BY <2>2, <2>4, <2>5
<1>7. ASSUME NEW i \in T PROVE i + 1 \in T
    <2> SUFFICES ASSUME f + (i + 1) <= len
                 PROVE  /\ ToDigits[v[f + (i + 1)]] = SubSeq(s, f, f + (i + 1))
                        /\ s[f] # 0 => v[f + (i + 1)] > 0
        OBVIOUS
    <2> DEFINE k == f + i
               w == v[k]
               d == s[k + 1]
    <2>1. /\ k \in Nat /\ k >= f /\ k + 1 \in 1..len /\ k \in 0..len /\ k + 1 \in 0..len
          /\ (k + 1) - 1 = k /\ f + (i + 1) = k + 1 /\ f # len
        BY <1>0
    <2>2. s[f] # 0 /\ ToDigits[w] = SubSeq(s, f, k) /\ w > 0
        BY <2>1
    <2> HIDE DEF k, len, T
    <2>3. /\ w \in Nat /\ d \in Digit /\ v[k + 1] = w * Base + d
          /\ v[k + 1] \in Words /\ v[k + 1] \in Nat
        BY <1>1, <1>5, <2>1
    <2> HIDE DEF w, d
    <2>4. /\ w * Base + d >= Base
          /\ (w * Base + d) \div Base = w /\ (w * Base + d) % Base = d
        BY <1>0, <2>2, <2>3, DigitOfSum DEF Digit
    <2>5. ToDigits[v[k + 1]] = Append(ToDigits[w], d)
        BY <2>3, <2>4, DigitsEquation
    <2>6. Append(SubSeq(s, f, k), s[k + 1]) = SubSeq(s, f, k + 1)
        BY <1>0, <1>3, <2>1, LongerSubSeq DEF len
    <2>7. v[k + 1] > 0
        BY <1>0, <2>3, <2>4
    <2> QED BY <2>1, <2>2, <2>5, <2>6, <2>7 DEF d
<1>8. len - f \in T
    <2>1. len - f \in Nat
        BY <1>0
    <2> HIDE DEF T
    <2> QED BY <1>6, <1>7, <2>1, SetInduction
<1> QED BY <1>0, <1>3, <1>8

\* Likewise from an unsigned word.
LEMMA WordIsKept ==
    ASSUME NEW n \in Words
    PROVE  ToId(n) \in Id64 /\ ToWord(ToId(n)) = n
PROOF
<1>1. WordSize \in Nat \ {0} /\ n \in 0..(WordSize - 1)
    BY WordSizeType DEF Words
<1>2. CASE 2 * n < WordSize
    BY <1>1, <1>2 DEF ToId, ToWord, Id64
<1>3. CASE ~(2 * n < WordSize)
    <2>1. ToId(n) = n - WordSize /\ n - WordSize \in Int /\ n - WordSize < 0
        BY <1>1, <1>3 DEF ToId
    <2>2. (n - WordSize) % WordSize = n
        <3>1. ASSUME NEW w \in Nat \ {0}, NEW x \in Int, x < 0, -w <= x PROVE x % w = x + w
            BY <3>1, Z3
        <3> QED BY <1>1, <2>1, <3>1
    <2> QED BY <1>1, <1>3, <2>1, <2>2 DEF ToWord, Id64
<1> QED BY <1>2, <1>3

(***************************************************************************)
(* Ids and public ids.                                                     *)
(***************************************************************************)
\* The word that an id is encoded by, and its digits.
LEMMA EncodeType ==
    ASSUME NEW kind \in Kinds, NEW id \in Id64
    PROVE  LET n == FeistelEncrypt(ToWord(id), RoundKeys[kind]) IN
           /\ n \in Words /\ ToId(FeistelDecrypt(n, RoundKeys[kind])) = id
           /\ Encode(kind, id) = [prefix |-> kind, digits |-> ToDigits[n]]
           /\ ToDigits[n] \in Seq(Digit)
PROOF
<1>1. ToWord(id) \in Words /\ ToId(ToWord(id)) = id
    BY SignIsKept DEF Id64
<1> QED BY <1>1, PermutationIsInverted, DigitsAreInverted DEF Encode

\* A public id is decoded to the id it was made from, under the prefix of its resource
\* and no other: Decode undoes Encode, for every 64-bit id and all keys.
THEOREM PublicIdsAreInverted ==
    ASSUME NEW kind \in Kinds, NEW expected \in Kinds, NEW id \in Id64
    PROVE  Decode(expected, Encode(kind, id)) = IF expected = kind THEN {id} ELSE {}
PROOF
<1> DEFINE n == FeistelEncrypt(ToWord(id), RoundKeys[kind])
<1>1. /\ n \in Words /\ ToId(FeistelDecrypt(n, RoundKeys[kind])) = id
      /\ Encode(kind, id) = [prefix |-> kind, digits |-> ToDigits[n]]
      /\ ToDigits[n] \in Seq(Digit)
    BY EncodeType
<1> HIDE DEF n
<1>2. ToDigits[n] # <<>> /\ FromDigits(ToDigits[n]) = n
    BY <1>1, DigitsAreInverted
<1>3. n < WordSize /\ Base \in Nat
    BY <1>1, WordSizeType, CodecAssumption DEF Words
<1>4. \A i \in DOMAIN ToDigits[n] : ToDigits[n][i] < Base
    BY <1>1, <1>3 DEF Digit
<1>5. ValidDigits(ToDigits[n])
    BY <1>2, <1>3, <1>4 DEF ValidDigits
<1>6. /\ Encode(kind, id).prefix = kind /\ Encode(kind, id).digits = ToDigits[n]
    BY <1>1
<1>7. CASE expected = kind
    BY <1>1, <1>2, <1>5, <1>6, <1>7 DEF Decode, DecodePrefix
<1>8. CASE expected # kind
    BY <1>6, <1>8 DEF Decode, DecodePrefix
<1> QED BY <1>7, <1>8

\* Two ids, or two resources, never share a public id.
THEOREM PublicIdsAreDistinct ==
    ASSUME NEW j \in Kinds, NEW k \in Kinds, NEW a \in Id64, NEW b \in Id64,
           Encode(j, a) = Encode(k, b)
    PROVE  j = k /\ a = b
PROOF
<1>1. j = k
    BY EncodeType
<1> QED BY <1>1, PublicIdsAreInverted

\* What is decoded to an id is the public id of that id, but for zeros in front: the
\* value of its digits is the same.
THEOREM DecodedIsItsValue ==
    ASSUME NEW kind \in Kinds, NEW public,
           public.digits \in Seq(0..Base), NEW id \in Decode(kind, public)
    PROVE  /\ id \in Id64 /\ public.prefix = kind
           /\ public.digits \in Seq(Digit) /\ public.digits # <<>>
           /\ FromDigits(public.digits) \in Words
           /\ Encode(kind, id).digits = ToDigits[FromDigits(public.digits)]
PROOF
<1> DEFINE s == public.digits
           n == FromDigits(s)
           m == FeistelDecrypt(n, RoundKeys[kind])
<1>1. public.prefix = kind /\ ValidDigits(s) /\ id = ToId(m)
    BY DEF Decode, DecodePrefix
<1>2. s \in Seq(Digit) /\ s # <<>>
    <2>1. \A i \in 1..Len(s) : s[i] \in Digit
        BY <1>1, CodecAssumption DEF ValidDigits, Digit
    <2> QED BY <1>1, <2>1 DEF ValidDigits
<1>3. n \in Words
    <2>1. Len(s) \in 0..Len(s)
        BY <1>2
    <2>2. n \in Nat
        BY <1>2, <2>1, ValuesType DEF FromDigits
    <2> QED BY <1>1, <2>2, WordSizeType DEF ValidDigits, Words
<1> HIDE DEF n
<1>4. m \in Words /\ FeistelEncrypt(m, RoundKeys[kind]) = n
    BY <1>3, PermutationIsOnto
<1> HIDE DEF m
<1>5. id \in Id64 /\ ToWord(id) = m
    BY <1>1, <1>4, WordIsKept
<1> QED BY <1>1, <1>2, <1>3, <1>4, <1>5 DEF Encode, n
=============================================================================
