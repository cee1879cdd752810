---------------------------- MODULE CodecProofs ----------------------------
(***************************************************************************)
(* Base 64 and base 32, for bytes of any length: what is encoded is        *)
(* decoded again, whenever there is room for it (DecodedBack,              *)
(* Base32Decodes), and the sizes of base32.h are enough (Base32Sizes).     *)
(* The functions of base64.c go group by group, which is independent of    *)
(* what came before; those of base32.c keep an accumulator, and what it    *)
(* holds after so many rounds, or characters, is the invariant of the      *)
(* induction (EncAt, DecAt; the loops are folds, see FoldFacts).           *)
(***************************************************************************)
EXTENDS Base64, Base32, SequenceTheorems, TLAPS

(* The loops of the two functions of base32.c. *)
Enc == INSTANCE FoldFacts WITH Op <- B32EncodeStep
Dec == INSTANCE FoldFacts WITH Op <- B32DecodeStep

-----------------------------------------------------------------------------
(* Base 64.                                                                *)

(* FoldFacts has a FlattenSeq of its own, the same one. *)
LEMMA TextsFlattened == \A ss : FlattenSeq(ss) = Enc!FlattenSeq(ss)
BY DEF FlattenSeq, Enc!FlattenSeq

(* The encoding, in a buffer of the size that base64.h gives for it. *)
Text64(data) == b64_encode(data, BASE64_ENCODE_LEN(Len(data))).data

(* A quotient and its remainder. *)
LEMMA Divided ==
  ASSUME NEW d \in Nat \ {0}, NEW q \in Int, NEW r \in 0..(d - 1)
  PROVE  (d * q + r) \div d = q /\ (d * q + r) % d = r
OBVIOUS

(* The digits of three bytes, and the bytes of four digits. *)
Parted(a, b, c, w, x, y, z) ==
  LET word == a * 2^16 + b * 2^8 + c
  IN  /\ (word \div 64^3) % 64 = w /\ (word \div 64^2) % 64 = x
      /\ (word \div 64^1) % 64 = y /\ (word \div 64^0) % 64 = z

(* Four digits are put together to three bytes. *)
Rejoined(a, b, c, w, x, y, z) ==
  /\ w * 4 + (x \div 16) = a
  /\ (x * 16 + (y \div 4)) % 256 = b
  /\ (y * 64 + z) % 256 = c

(* Three bytes are four digits, and four digits three bytes. *)
LEMMA Digits ==
  ASSUME NEW a \in Byte, NEW b \in Byte, NEW c \in Byte
  PROVE  \E w, x, y, z \in 0..63 : Parted(a, b, c, w, x, y, z) /\ Rejoined(a, b, c, w, x, y, z)
<1> DEFINE p == a \div 4
           q == a % 4
           r == b \div 16
           s == b % 16
           t == c \div 64
           u == c % 64
           x == a * 65536 + b * 256 + c
<1>1. /\ p \in 0..63 /\ q \in 0..3 /\ a = 4 * p + q
      /\ r \in 0..15 /\ s \in 0..15 /\ b = 16 * r + s
      /\ t \in 0..3 /\ u \in 0..63 /\ c = 64 * t + u
  BY SMT DEF Byte
<1>2. 64^3 = 262144 /\ 64^2 = 4096 /\ 64^1 = 64 /\ 64^0 = 1 /\ 2^16 = 65536 /\ 2^8 = 256
  BY SMT
<1> HIDE DEF p, q, r, s, t, u
<1>3. (x \div 262144) % 64 = p
  <2> DEFINE y == q * 65536 + b * 256 + c
             d == 262144
  <2>1. y \in Nat /\ y < d
    BY <1>1, SMT DEF Byte
  <2>2. x = d * p + y /\ d \in Nat \ {0} /\ p \in Int
    BY <1>1, SMT DEF Byte
  <2> HIDE DEF x, y, d
  <2>3. x \div d = p
    <3>1. y \in 0..(d - 1)
      BY <2>1, <2>2
    <3> QED BY <2>2, <3>1, Divided
  <2>4. p % 64 = p
    BY <1>1
  <2> QED BY <2>3, <2>4 DEF d
<1>4. (x \div 4096) % 64 = 16 * q + r
  <2> DEFINE y == s * 256 + c
             z == 16 * q + r
  <2>1. x = 4096 * (64 * p + z) + y /\ y \in 0..(4096 - 1) /\ z \in 0..63
    BY <1>1, SMT DEF Byte
  <2> HIDE DEF x, y, z
  <2>2. 64 * p + z \in Int
    BY <1>1, <2>1, SMT
  <2>3. x \div 4096 = 64 * p + z
    <3> DEFINE d == 4096
               w == 64 * p + z
    <3>1. d \in Nat \ {0} /\ w \in Int /\ x = d * w + y /\ y \in 0..(d - 1)
      BY <2>1, <2>2
    <3> HIDE DEF d, w
    <3>2. x \div d = w
      BY <3>1, Divided
    <3> QED BY <3>2 DEF d, w
  <2>4. (64 * p + z) % 64 = z
    BY <1>1, <2>1, Divided, SMT
  <2> QED BY <2>3, <2>4, SMT DEF z
<1>5. (x \div 64) % 64 = 4 * s + t
  <2> DEFINE z == 4 * s + t
             w == a * 16 + r
  <2>1. x = 64 * (64 * w + z) + u /\ u \in 0..(64 - 1) /\ z \in 0..63 /\ w \in Int
    BY <1>1, SMT DEF Byte
  <2> HIDE DEF x, z, w
  <2>2. 64 * w + z \in Int
    BY <2>1, SMT
  <2>3. x \div 64 = 64 * w + z
    BY <2>1, <2>2, Divided, SMT
  <2>4. (64 * w + z) % 64 = z
    BY <2>1, Divided, SMT
  <2> QED BY <2>3, <2>4, SMT DEF z
<1>6. (x \div 1) % 64 = u
  <2> DEFINE w == a * 1024 + b * 4 + t
  <2>1. x = 64 * w + u /\ w \in Int /\ x \in Int
    BY <1>1, SMT DEF Byte
  <2> HIDE DEF w, x
  <2>2. x \div 1 = x
    BY <2>1, SMT
  <2>3. (64 * w + u) % 64 = u
    BY <1>1, <2>1, Divided, SMT
  <2> QED BY <2>1, <2>2, <2>3, SMT
<1>7. p * 4 + ((16 * q + r) \div 16) = a
  <2>1. (16 * q + r) \div 16 = q
    BY <1>1, Divided, SMT
  <2> QED BY <1>1, <2>1, SMT
<1>8. ((16 * q + r) * 16 + ((4 * s + t) \div 4)) % 256 = b
  <2>1. (4 * s + t) \div 4 = s
    BY <1>1, Divided, SMT
  <2>2. (16 * q + r) * 16 + s = 256 * q + b
    BY <1>1, SMT
  <2>3. (256 * q + b) % 256 = b
    BY <1>1, Divided, SMT DEF Byte
  <2> QED BY <2>1, <2>2, <2>3, SMT
<1>9. ((4 * s + t) * 64 + u) % 256 = c
  <2>1. (4 * s + t) * 64 + u = 256 * s + c
    BY <1>1, SMT
  <2>2. (256 * s + c) % 256 = c
    BY <1>1, Divided, SMT DEF Byte
  <2> QED BY <2>1, <2>2, SMT
<1>10. p \in 0..63 /\ 16 * q + r \in 0..63 /\ 4 * s + t \in 0..63 /\ u \in 0..63
  BY <1>1, SMT
<1> DEFINE d == 16 * q + r
           e == 4 * s + t
           word == a * 2^16 + b * 2^8 + c
<1>11. x = word
  BY <1>2, SMT
<1> HIDE DEF x, d, e, word
<1>12. /\ (word \div 64^3) % 64 = p /\ (word \div 64^2) % 64 = d
       /\ (word \div 64^1) % 64 = e /\ (word \div 64^0) % 64 = u
  <2>1. /\ (x \div 262144) % 64 = p /\ (x \div 4096) % 64 = d
        /\ (x \div 64) % 64 = e /\ (x \div 1) % 64 = u
    BY <1>3, <1>4, <1>5, <1>6, SMT DEF d, e
  <2> QED BY <1>2, <1>11, <2>1, SMT
<1>13. /\ p \in 0..63 /\ d \in 0..63 /\ e \in 0..63 /\ u \in 0..63
       /\ p * 4 + (d \div 16) = a /\ (d * 16 + (e \div 4)) % 256 = b /\ (e * 64 + u) % 256 = c
  BY <1>7, <1>8, <1>9, <1>10, SMT DEF d, e
<1>14. Parted(a, b, c, p, d, e, u)
  BY <1>12, Zenon DEF Parted, word
<1>15. Rejoined(a, b, c, p, d, e, u)
  BY <1>13, Zenon DEF Rejoined
<1> QED
  BY <1>13, <1>14, <1>15, ZenonT(60)

(* A sequence of n elements, all of them different.                        *)
Distinct(s, n) == n \in Nat /\ Len(s) = n /\ \A i, j \in 1..n : s[i] = s[j] => i = j

Places(s, d) == {i \in 1..Len(s) : s[i] = d}

(* The place of an element in such a sequence.                             *)
LEMMA PlaceInSeq ==
  ASSUME NEW s, NEW n, Distinct(s, n), NEW k \in 1..n
  PROVE  Places(s, s[k]) # {} /\ Min(Places(s, s[k])) = k
<1>1. ASSUME NEW i PROVE i \in Places(s, s[k]) <=> i = k
  BY DEF Distinct, Places
<1>2. Places(s, s[k]) = {k}
  BY <1>1
<1>3. Min({k}) = k
  BY DEF Min, Distinct
<1> QED
  BY <1>2, <1>3

(* A digit has its value, the padding none. *)
LEMMA DigitValue ==
  /\ \A v \in 0..63 : pr2six(B64Digits[v + 1]) = v
  /\ pr2six("=") = 64
<1>1. /\ Len(B64Digits) = 64
      /\ \A i, j \in 1..64 : B64Digits[i] = B64Digits[j] => i = j
      /\ \A i \in 1..64 : B64Digits[i] # "="
  BY DEF B64Digits
<1>2. ASSUME NEW v \in 0..63 PROVE pr2six(B64Digits[v + 1]) = v
  <2> DEFINE k == v + 1
  <2>1. k \in 1..64 /\ k - 1 = v
    OBVIOUS
  <2> HIDE DEF k
  <2>2. SelectInSeq(B64Digits, LAMBDA d : d = B64Digits[k]) = k
    <3>1. Distinct(B64Digits, 64)
      BY <1>1 DEF Distinct
    <3>2. Places(B64Digits, B64Digits[k]) # {} /\ Min(Places(B64Digits, B64Digits[k])) = k
      BY <2>1, <3>1, PlaceInSeq
    <3> QED BY <3>2, Zenon DEF SelectInSeq, Places
  <2>3. Contains(B64Digits, B64Digits[k])
    BY <1>1, <2>1 DEF Contains
  <2> QED BY <2>1, <2>2, <2>3 DEF pr2six, k
<1>3. ~Contains(B64Digits, "=")
  BY <1>1 DEF Contains
<1> QED
  BY <1>2, <1>3 DEF pr2six

(* What a text is made of. *)
Char == ToSet(B64Digits) \cup {"="}

(* A digit is a character other than the padding. *)
LEMMA DigitIn == \A v \in 0..63 : B64Digits[v + 1] \in Char /\ B64Digits[v + 1] # "="
<1>1. /\ Len(B64Digits) = 64
      /\ \A i \in 1..64 : B64Digits[i] # "="
  BY DEF B64Digits
<1>2. \A v \in 0..63 : v + 1 \in 1..64
  OBVIOUS
<1> QED
  BY <1>1, <1>2 DEF Char, ToSet

(* A group of bytes, or of those that there are, and its digits. *)
Third(n, first, y) == IF first + 1 <= n THEN B64Digits[y + 1] ELSE "="
Fourth(n, first, z) == IF first + 2 <= n THEN B64Digits[z + 1] ELSE "="

(* The digits of the group at first, and the bytes that they are. *)
GroupOf(data, first, w, x, y, z) ==
  /\ B64Group(data, first) = <<B64Digits[w + 1], B64Digits[x + 1], Third(Len(data), first, y), Fourth(Len(data), first, z)>>
  /\ w * 4 + (x \div 16) = data[first]
  /\ first + 1 <= Len(data) => (x * 16 + (y \div 4)) % 256 = data[first + 1]
  /\ first + 2 <= Len(data) => (y * 64 + z) % 256 = data[first + 2]

(* Every group has its digits. *)
LEMMA GroupIs ==
  ASSUME NEW data \in Seq(Byte), NEW first \in 1..Len(data)
  PROVE  \E w, x, y, z \in 0..63 : GroupOf(data, first, w, x, y, z)
<1> DEFINE a == data[first]
           b == IF first + 1 <= Len(data) THEN data[first + 1] ELSE 0
           c == IF first + 2 <= Len(data) THEN data[first + 2] ELSE 0
           word == a * 2^16 + b * 2^8 + c
<1>1. a \in Byte /\ b \in Byte /\ c \in Byte /\ first \in Nat /\ Len(data) \in Nat
  <2>1. 0 \in Byte
    BY DEF Byte
  <2>2. first \in Nat /\ Len(data) \in Nat /\ \A i \in 1..Len(data) : data[i] \in Byte
    OBVIOUS
  <2>3. /\ first + 1 <= Len(data) => first + 1 \in 1..Len(data)
        /\ first + 2 <= Len(data) => first + 2 \in 1..Len(data)
    BY <2>2
  <2> QED BY <2>1, <2>2, <2>3, Zenon
<1>2. B64Group(data, first) =
        <<prv_get_char_from_word(word, 3), prv_get_char_from_word(word, 2),
          IF first + 1 <= Len(data) THEN prv_get_char_from_word(word, 1) ELSE "=",
          IF first + 2 <= Len(data) THEN prv_get_char_from_word(word, 0) ELSE "=">>
  <2>1. first + 0 = first /\ first + 0 <= Len(data)
    OBVIOUS
  <2> QED BY <2>1, Zenon DEF B64Group
<1>3. PICK w, x, y, z \in 0..63 : Parted(a, b, c, w, x, y, z) /\ Rejoined(a, b, c, w, x, y, z)
  <2> HIDE DEF a, b, c
  <2> QED BY <1>1, Digits, Zenon
<1>4. /\ prv_get_char_from_word(word, 3) = B64Digits[w + 1]
      /\ prv_get_char_from_word(word, 2) = B64Digits[x + 1]
      /\ prv_get_char_from_word(word, 1) = B64Digits[y + 1]
      /\ prv_get_char_from_word(word, 0) = B64Digits[z + 1]
  <2>1. /\ (word \div 64^3) % 64 = w /\ (word \div 64^2) % 64 = x
        /\ (word \div 64^1) % 64 = y /\ (word \div 64^0) % 64 = z
    BY <1>3, ZenonT(60) DEF Parted
  <2> HIDE DEF word
  <2>2. /\ prv_get_char_from_word(word, 3) = B64Digits[1 + w]
        /\ prv_get_char_from_word(word, 2) = B64Digits[1 + x]
        /\ prv_get_char_from_word(word, 1) = B64Digits[1 + y]
        /\ prv_get_char_from_word(word, 0) = B64Digits[1 + z]
    BY <2>1, Zenon DEF prv_get_char_from_word
  <2>3. 1 + w = w + 1 /\ 1 + x = x + 1 /\ 1 + y = y + 1 /\ 1 + z = z + 1
    OBVIOUS
  <2> QED BY <2>2, <2>3, Zenon
<1>5. /\ w * 4 + (x \div 16) = data[first]
      /\ first + 1 <= Len(data) => (x * 16 + (y \div 4)) % 256 = data[first + 1]
      /\ first + 2 <= Len(data) => (y * 64 + z) % 256 = data[first + 2]
  BY <1>3, Zenon DEF Rejoined
<1>6. B64Group(data, first) = <<B64Digits[w + 1], B64Digits[x + 1], Third(Len(data), first, y), Fourth(Len(data), first, z)>>
  <2> HIDE DEF word
  <2> QED BY <1>2, <1>4, Zenon DEF Third, Fourth
<1>7. GroupOf(data, first, w, x, y, z)
  BY <1>5, <1>6, Zenon DEF GroupOf
<1> QED
  BY <1>7, Zenon

(* The groups of all the bytes. *)
Groups(n) == (n + 2) \div 3

(* The groups hold all the bytes, and at most two places are left over. *)
LEMMA GroupsCover ==
  ASSUME NEW n \in Nat
  PROVE  /\ Groups(n) \in Nat /\ 3 * Groups(n) - n \in 0..2
         /\ n # 0 => Groups(n) # 0
         /\ \A g \in 1..Groups(n) : g \in Nat /\ 3 * g - 2 \in 1..n
<1>1. Groups(n) \in Nat /\ 3 * Groups(n) - n \in 0..2 /\ (n # 0 => Groups(n) # 0)
  BY DEF Groups
<1> QED
  BY <1>1

(* The text of so many groups, and of one more. *)
Encoded(ss, k) == {x \in Seq(Char) : Len(x) = 4 * k /\ \A g \in 1..k : \A i \in 1..4 : x[4 * (g - 1) + i] = ss[g][i]}

(* A text with one more group. *)
LEMMA OneGroup ==
  ASSUME NEW ss, NEW k \in Nat \ {0}, NEW x \in Encoded(ss, k - 1), ss[k] \in Seq(Char), Len(ss[k]) = 4
  PROVE  x \o ss[k] \in Encoded(ss, k)
<1> DEFINE group == ss[k]
           y == x \o group
<1>1. /\ x \in Seq(Char) /\ Len(x) = 4 * (k - 1)
      /\ \A g \in 1..(k - 1) : \A i \in 1..4 : x[4 * (g - 1) + i] = ss[g][i]
  BY DEF Encoded
<1>2. y \in Seq(Char) /\ Len(y) = 4 * k /\ (\A p \in 1..Len(x) : y[p] = x[p])
      /\ \A i \in 1..4 : y[Len(x) + i] = group[i]
  <2> HIDE DEF group
  <2>1. group \in Seq(Char) /\ Len(group) = 4
    BY DEF group
  <2>2. y \in Seq(Char) /\ Len(y) = Len(x) + 4
        /\ \A i \in 1..(Len(x) + 4) : y[i] = IF i <= Len(x) THEN x[i] ELSE group[i - Len(x)]
    <3>1. y \in Seq(Char) /\ Len(y) = Len(x) + Len(group)
          /\ \A i \in 1..(Len(x) + Len(group)) : y[i] = IF i <= Len(x) THEN x[i] ELSE group[i - Len(x)]
      BY <1>1, <2>1, ConcatProperties, ZenonT(60)
    <3> QED BY <2>1, <3>1, Zenon
  <2> HIDE DEF y
  <2> DEFINE l == Len(x)
  <2>3. l \in Nat /\ l = 4 * (k - 1) /\ l + 4 = 4 * k
    BY <1>1
  <2> HIDE DEF l
  <2>4. /\ \A p \in 1..l : p \in 1..(l + 4) /\ p <= l
        /\ \A i \in 1..4 : l + i \in 1..(l + 4) /\ ~(l + i <= l) /\ (l + i) - l = i
    BY <2>3
  <2>5. \A i \in 1..(l + 4) : y[i] = IF i <= l THEN x[i] ELSE group[i - l]
    BY <2>2, Zenon DEF l
  <2>6. \A p \in 1..l : y[p] = x[p]
    BY <2>4, <2>5, Zenon
  <2>7. \A i \in 1..4 : y[l + i] = group[i]
    BY <2>4, <2>5, Zenon
  <2> QED BY <2>2, <2>3, <2>6, <2>7, Zenon DEF l
<1> HIDE DEF y
<1>3. ASSUME NEW g \in 1..k, NEW i \in 1..4 PROVE y[4 * (g - 1) + i] = ss[g][i]
  <2>1. CASE g = k
    <3>1. 4 * (g - 1) + i = Len(x) + i
      BY <1>1, <2>1
    <3> QED BY <1>2, <2>1, <3>1, Zenon
  <2>2. CASE g # k
    <3>1. g \in 1..(k - 1) /\ 4 * (g - 1) + i \in 1..(4 * (k - 1))
      BY <2>2
    <3> QED BY <1>1, <1>2, <3>1, Zenon
  <2> QED BY <2>1, <2>2
<1> QED
  BY <1>2, <1>3, Zenon DEF Encoded, y

(* The text is its groups, one after the other. *)
LEMMA EncodedText ==
  ASSUME NEW data \in Seq(Byte)
  PROVE  /\ Text64(data) \in Seq(Char)
         /\ Len(Text64(data)) = 4 * Groups(Len(data))
         /\ \A g \in 1..Groups(Len(data)) : \A i \in 1..4 :
              Text64(data)[4 * (g - 1) + i] = B64Group(data, 3 * g - 2)[i]
<1> DEFINE n == Len(data)
           m == Groups(n)
           ss == [g \in 1..m |-> B64Group(data, 3 * g - 2)]
<1>1. n \in Nat /\ m \in Nat /\ 3 * m - n \in 0..2 /\ \A g \in 1..m : g \in Nat /\ 3 * g - 2 \in 1..n
  <2>1. n \in Nat
    OBVIOUS
  <2> HIDE DEF n
  <2> QED BY <2>1, GroupsCover
<1>2. Text64(data) = Enc!FlattenSeq(ss)
  <2>1. BASE64_ENCODE_LEN(n) = 4 * m /\ m = (n + 2) \div 3
    BY DEF BASE64_ENCODE_LEN, Groups
  <2>2. ~(4 * m < 4 * m)
    BY <1>1
  <2>3. Text64(data) = FlattenSeq(ss)
    BY <2>1, <2>2, Zenon DEF Text64, b64_encode
  <2> QED BY <2>3, TextsFlattened
<1>3. ASSUME NEW g \in 1..m
      PROVE  /\ ss[g] = B64Group(data, 3 * g - 2)
             /\ ss[g] \in Seq(Char) /\ Len(ss[g]) = 4
  <2>1. 3 * g - 2 \in 1..Len(data)
    BY <1>1
  <2> DEFINE f == 3 * g - 2
  <2> HIDE DEF f
  <2>2. PICK w, x, y, z \in 0..63 : GroupOf(data, f, w, x, y, z)
    BY <2>1, GroupIs, Zenon DEF f
  <2> DEFINE a == B64Digits[w + 1]
             b == B64Digits[x + 1]
             c == Third(n, f, y)
             d == Fourth(n, f, z)
  <2>3. a \in Char /\ b \in Char /\ c \in Char /\ d \in Char
    BY DigitIn DEF Char, Third, Fourth
  <2>4. B64Group(data, f) = <<a, b, c, d>>
    BY <2>2, Zenon DEF GroupOf
  <2> HIDE DEF a, b, c, d
  <2>5. <<a, b, c, d>> \in Seq(Char) /\ Len(<<a, b, c, d>>) = 4
    BY <2>3
  <2>6. ss[g] = B64Group(data, f)
    BY DEF f
  <2> HIDE DEF ss
  <2> QED BY <2>4, <2>5, <2>6 DEF f
<1> HIDE DEF ss, m, n
<1>4. ss \in Seq(Seq(Char)) /\ Len(ss) = m
  BY <1>1, <1>3 DEF ss
<1> DEFINE J == [k \in 0..m |-> Encoded(ss, k)]
<1>5. <<>> \in J[0]
  BY <1>1 DEF Encoded
<1>6. \A k \in 1..Len(ss) : \A x \in J[k - 1] \cap Seq(Char) : x \o ss[k] \in J[k]
  <2>1. ASSUME NEW k \in 1..m, NEW x \in Encoded(ss, k - 1) PROVE x \o ss[k] \in Encoded(ss, k)
    <3>1. k \in Nat \ {0} /\ ss[k] \in Seq(Char) /\ Len(ss[k]) = 4
      BY <1>1, <1>3
    <3> QED BY <3>1, OneGroup
  <2>2. \A k \in 1..m : J[k] = Encoded(ss, k) /\ J[k - 1] = Encoded(ss, k - 1)
    BY <1>1
  <2> HIDE DEF J
  <2> QED BY <1>4, <2>1, <2>2
<1>7. Enc!FlattenSeq(ss) \in J[m]
  <2> HIDE DEF J
  <2> QED BY <1>4, <1>5, <1>6, Enc!FlattenInvariant
<1>8. Enc!FlattenSeq(ss) \in Encoded(ss, m)
  BY <1>1, <1>7
<1>9. /\ Text64(data) \in Seq(Char) /\ Len(Text64(data)) = 4 * m
      /\ \A g \in 1..m : \A i \in 1..4 : Text64(data)[4 * (g - 1) + i] = ss[g][i]
  BY <1>2, <1>8, Zenon DEF Encoded
<1> QED
  BY <1>3, <1>9 DEF m, n

(* What is read of a group. *)
LEMMA GroupRead ==
  ASSUME NEW data \in Seq(Byte), NEW g \in 1..Groups(Len(data))
  PROVE  /\ \A i \in 1..4 :
              (pr2six(Text64(data)[4 * (g - 1) + i]) = 64) <=> (i > 2 /\ 3 * g + i - 4 > Len(data))
         /\ \A j \in 0..2 : 3 * g - 2 + j <= Len(data) =>
              B64Byte(Text64(data), 4 * (g - 1) + 1, j) = data[3 * g - 2 + j]
<1> DEFINE n == Len(data)
           text == Text64(data)
           f == 3 * g - 2
           h == 4 * (g - 1) + 1
<1>1. n \in Nat /\ g \in Nat /\ f \in 1..n /\ h \in Nat
  <2>1. n \in Nat
    OBVIOUS
  <2>2. g \in Nat /\ f \in 1..n
    <3> HIDE DEF n
    <3>1. g \in 1..Groups(n)
      BY DEF n
    <3> QED BY <2>1, <3>1, GroupsCover
  <2>3. g # 0
    OBVIOUS
  <2> QED BY <2>1, <2>2, <2>3
<1>2. PICK w, x, y, z \in 0..63 : GroupOf(data, f, w, x, y, z)
  <2> HIDE DEF f
  <2> QED BY <1>1, GroupIs, Zenon
<1> DEFINE c1 == B64Digits[w + 1]
           c2 == B64Digits[x + 1]
           c3 == Third(n, f, y)
           c4 == Fourth(n, f, z)
<1>3. /\ pr2six(c1) = w /\ pr2six(c2) = x
      /\ pr2six(c3) = IF f + 1 <= n THEN y ELSE 64
      /\ pr2six(c4) = IF f + 2 <= n THEN z ELSE 64
  <2>1. pr2six(c1) = w /\ pr2six(c2) = x /\ pr2six(B64Digits[y + 1]) = y /\ pr2six(B64Digits[z + 1]) = z
    <3>1. \A v \in 0..63 : pr2six(B64Digits[v + 1]) = v
      BY DigitValue, Zenon
    <3> DEFINE Digit(v) == pr2six(B64Digits[v + 1]) = v
    <3>2. \A v \in 0..63 : Digit(v)
      BY <3>1, Zenon
    <3> HIDE DEF Digit
    <3>3. Digit(w) /\ Digit(x) /\ Digit(y) /\ Digit(z)
      BY <3>2
    <3> QED BY <3>3, Zenon DEF Digit
  <2>2. pr2six("=") = 64
    BY DigitValue
  <2> HIDE DEF f, n, c1, c2
  <2>3. pr2six(c3) = IF f + 1 <= n THEN y ELSE 64
    BY <2>1, <2>2, Zenon DEF Third
  <2>4. pr2six(c4) = IF f + 2 <= n THEN z ELSE 64
    BY <2>1, <2>2, Zenon DEF Fourth
  <2> QED BY <2>1, <2>3, <2>4, Zenon
<1>4. \A i \in 1..4 : text[4 * (g - 1) + i] = <<c1, c2, c3, c4>>[i]
  <2>1. \A i \in 1..4 : text[4 * (g - 1) + i] = B64Group(data, f)[i]
    BY EncodedText
  <2>2. B64Group(data, f) = <<c1, c2, c3, c4>>
    BY <1>2, Zenon DEF GroupOf
  <2> HIDE DEF c1, c2, c3, c4, text, f
  <2> QED BY <2>1, <2>2, Zenon
<1>5. /\ w * 4 + (x \div 16) = data[f]
      /\ f + 1 <= n => (x * 16 + (y \div 4)) % 256 = data[f + 1]
      /\ f + 2 <= n => (y * 64 + z) % 256 = data[f + 2]
  BY <1>2, Zenon DEF GroupOf
<1> HIDE DEF c1, c2, c3, c4, text, n
<1>6. /\ text[4 * (g - 1) + 1] = c1 /\ text[4 * (g - 1) + 2] = c2
      /\ text[4 * (g - 1) + 3] = c3 /\ text[4 * (g - 1) + 4] = c4
  BY <1>4
<1>7. text[h] = c1 /\ text[h + 1] = c2 /\ text[h + 2] = c3 /\ text[h + 3] = c4
  <2>1. h = 4 * (g - 1) + 1 /\ h + 1 = 4 * (g - 1) + 2 /\ h + 2 = 4 * (g - 1) + 3 /\ h + 3 = 4 * (g - 1) + 4
    BY <1>1
  <2> QED BY <1>6, <2>1, Zenon
<1>8. ASSUME NEW i \in 1..4
      PROVE  (pr2six(text[4 * (g - 1) + i]) = 64) <=> (i > 2 /\ 3 * g + i - 4 > n)
  <2>1. w # 64 /\ x # 64 /\ y # 64 /\ z # 64
    OBVIOUS
  <2>2. /\ f + 1 <= n <=> ~(3 * g + 3 - 4 > n)
        /\ f + 2 <= n <=> ~(3 * g + 4 - 4 > n)
    BY <1>1
  <2> HIDE DEF f
  <2>3. /\ pr2six(c3) = 64 <=> 3 * g + 3 - 4 > n
        /\ pr2six(c4) = 64 <=> 3 * g + 4 - 4 > n
        /\ pr2six(c1) # 64 /\ pr2six(c2) # 64
    BY <1>3, <2>1, <2>2, Zenon
  <2>4. CASE i = 1
    <3>1. ~(i > 2)
      BY <2>4
    <3> QED BY <1>6, <2>3, <2>4, <3>1, Zenon
  <2>5. CASE i = 2
    <3>1. ~(i > 2)
      BY <2>5
    <3> QED BY <1>6, <2>3, <2>5, <3>1, Zenon
  <2>6. CASE i = 3
    <3>1. i > 2
      BY <2>6
    <3> QED BY <1>6, <2>3, <2>6, <3>1, Zenon
  <2>7. CASE i = 4
    <3>1. i > 2
      BY <2>7
    <3> QED BY <1>6, <2>3, <2>7, <3>1, Zenon
  <2> QED BY <2>4, <2>5, <2>6, <2>7
<1>9. ASSUME NEW j \in 0..2, f + j <= n
      PROVE  B64Byte(text, h, j) = data[f + j]
  <2>1. /\ pr2six(text[h + 0]) = w /\ pr2six(text[h + 1]) = x
        /\ pr2six(text[h + 2]) = IF f + 1 <= n THEN y ELSE 64
        /\ pr2six(text[h + 3]) = IF f + 2 <= n THEN z ELSE 64
    <3>1. h + 0 = h
      BY <1>1
    <3> HIDE DEF f, h
    <3> QED BY <1>3, <1>7, <3>1, Zenon
  <2>2. f \in Nat
    BY <1>1
  <2> HIDE DEF f, h
  <2>3. CASE j = 0
    <3>1. B64Byte(text, h, 0) = w * 4 + (x \div 16)
      BY <2>1 DEF B64Byte
    <3>2. f + 0 = f
      BY <2>2
    <3> QED BY <1>5, <2>3, <3>1, <3>2, Zenon
  <2>4. CASE j = 1
    <3>1. B64Byte(text, h, 1) = (x * 16 + (y \div 4)) % 256
      <4>1. f + 1 <= n
        BY <1>9, <2>4
      <4>2. pr2six(text[h + 2]) = y
        BY <2>1, <4>1, Zenon
      <4>3. B64Byte(text, h, 1) = (pr2six(text[h + 1]) * 16 + pr2six(text[h + 2]) \div 4) % 256
        BY DEF B64Byte
      <4> QED BY <2>1, <4>2, <4>3, Zenon
    <3> QED BY <1>5, <1>9, <2>4, <3>1, Zenon
  <2>5. CASE j = 2
    <3>1. f + 1 <= n /\ f + 2 <= n
      BY <1>1, <1>9, <2>2, <2>5
    <3>2. B64Byte(text, h, 2) = (y * 64 + z) % 256
      <4>1. pr2six(text[h + 2]) = y /\ pr2six(text[h + 3]) = z
        BY <2>1, <3>1, Zenon
      <4>2. B64Byte(text, h, 2) = (pr2six(text[h + 2]) * 64 + pr2six(text[h + 3])) % 256
        BY DEF B64Byte
      <4> QED BY <4>1, <4>2, Zenon
    <3> QED BY <1>5, <2>5, <3>1, <3>2, Zenon
  <2> QED BY <2>3, <2>4, <2>5
<1> QED
  BY <1>8, <1>9 DEF n, text

(* The digits of a text: as many as there are groups and bytes. *)
LEMMA DigitsRead ==
  ASSUME NEW data \in Seq(Byte)
  PROVE  nprbytes(Text64(data)) = Groups(Len(data)) + Len(data)
<1> DEFINE n == Len(data)
           m == Groups(n)
           text == Text64(data)
           other == {p \in 1..Len(text) : pr2six(text[p]) = 64}
<1>1. n \in Nat /\ m \in Nat /\ 3 * m - n \in 0..2 /\ Len(text) = 4 * m
  BY GroupsCover, EncodedText
<1>2. ASSUME NEW p \in 1..Len(text)
      PROVE  (pr2six(text[p]) = 64) <=> (p > m + n)
  <2> DEFINE g == ((p - 1) \div 4) + 1
             i == ((p - 1) % 4) + 1
  <2>1. p = 4 * (g - 1) + i /\ g \in 1..m /\ i \in 1..4
    BY <1>1
  <2> HIDE DEF g, i, n, m
  <2>2. (pr2six(text[4 * (g - 1) + i]) = 64) <=> (i > 2 /\ 3 * g + i - 4 > n)
    BY <2>1, GroupRead DEF n, m
  <2>3. (i > 2 /\ 3 * g + i - 4 > n) <=> (p > m + n)
    BY <1>1, <2>1
  <2> QED BY <2>1, <2>2, <2>3
<1> HIDE DEF text, n, m
<1>3. SelectInSeq(text, LAMBDA c : pr2six(c) = 64) = IF other # {} THEN Min(other) ELSE 0
  BY DEF SelectInSeq
<1>4. CASE 3 * m - n = 0
  <2>1. other = {}
    BY <1>1, <1>2, <1>4
  <2>2. nprbytes(text) = Len(text)
    BY <1>3, <2>1, Zenon DEF nprbytes
  <2> QED BY <1>1, <1>4, <2>2 DEF text, n, m
<1>5. CASE 3 * m - n # 0
  <2>1. m + n + 1 \in other /\ \A p \in other : m + n + 1 <= p /\ p \in Nat
    BY <1>1, <1>2, <1>5
  <2> HIDE DEF other
  <2>2. Min(other) = m + n + 1
    <3>1. \A p \in other : (\A q \in other : p <= q) => p = m + n + 1
      BY <1>1, <2>1
    <3> QED BY <2>1, <3>1 DEF Min
  <2>3. other # {} /\ m + n + 1 # 0
    BY <1>1, <2>1
  <2>4. nprbytes(text) = (m + n + 1) - 1
    BY <1>3, <2>2, <2>3, Zenon DEF nprbytes
  <2> QED BY <1>1, <2>4 DEF text, n, m
<1> QED
  BY <1>4, <1>5

(* So many digits are so many bytes. *)
LEMMA LengthBack ==
  ASSUME NEW n \in Nat, NEW m \in Nat, 3 * m - n \in 0..2
  PROVE  b64_decoded_length(m + n) = n
<1>1. CASE 3 * m - n = 0
  <2>1. m + n = 4 * m /\ n = 3 * m
    BY <1>1
  <2>2. (m + n) \div 4 = m /\ (m + n) % 4 = 0
    BY <2>1
  <2> QED BY <2>1, <2>2 DEF b64_decoded_length
<1>2. CASE 3 * m - n = 1
  <2>1. m + n = 4 * (m - 1) + 3 /\ n = 3 * (m - 1) + 2
    BY <1>2
  <2>2. (m + n) \div 4 = m - 1 /\ (m + n) % 4 = 3
    BY <2>1
  <2> QED BY <2>1, <2>2 DEF b64_decoded_length
<1>3. CASE 3 * m - n = 2
  <2>1. m + n = 4 * (m - 1) + 2 /\ n = 3 * (m - 1) + 1
    BY <1>3
  <2>2. (m + n) \div 4 = m - 1 /\ (m + n) % 4 = 2
    BY <2>1
  <2> QED BY <2>1, <2>2 DEF b64_decoded_length
<1> QED
  BY <1>1, <1>2, <1>3

(* The group of a byte, and its place there. *)
LEMMA PlaceOf ==
  ASSUME NEW n \in Nat, NEW m \in Nat, 3 * m - n \in 0..2, NEW k \in 1..n
  PROVE  /\ ((k - 1) \div 3) + 1 \in 1..m /\ (k - 1) % 3 \in 0..2
         /\ 3 * (((k - 1) \div 3) + 1) - 2 + ((k - 1) % 3) = k /\ k <= n
         /\ (k - 1) \div 3 = (((k - 1) \div 3) + 1) - 1
<1> DEFINE q == (k - 1) \div 3
           r == (k - 1) % 3
<1>1. q \in Nat /\ r \in 0..2 /\ k - 1 = 3 * q + r
  OBVIOUS
<1> HIDE DEF q, r
<1>2. q + 1 \in 1..m /\ 3 * (q + 1) - 2 + r = k /\ k <= n /\ q = (q + 1) - 1
  BY <1>1
<1> QED
  BY <1>1, <1>2 DEF q, r

(* What is encoded is decoded, where there is room for it. *)
LEMMA DecodedBack ==
  ASSUME NEW data \in Seq(Byte), NEW size \in Nat
  PROVE  b64_decode(Text64(data), size) =
           IF data = <<>> \/ 3 * Groups(Len(data)) - 1 <= size THEN [ret |-> "SUCCESS", data |-> data] ELSE NO_MEM
<1> DEFINE n == Len(data)
           m == Groups(n)
           text == Text64(data)
           length == b64_decoded_length(nprbytes(text))
           bytes == [k \in 1..length |-> B64Byte(text, 4 * ((k - 1) \div 3) + 1, (k - 1) % 3)]
<1>1. n \in Nat /\ m \in Nat /\ 3 * m - n \in 0..2 /\ (n # 0 => m # 0) /\ Len(text) = 4 * m /\ text \in Seq(Char)
  <2>1. n \in Nat
    OBVIOUS
  <2>2. m \in Nat /\ 3 * m - n \in 0..2 /\ (n # 0 => m # 0)
    <3> HIDE DEF n
    <3> QED BY <2>1, GroupsCover
  <2>3. Len(text) = 4 * m /\ text \in Seq(Char)
    BY EncodedText
  <2> QED BY <2>1, <2>2, <2>3
<1>2. data = <<>> <=> text = <<>>
  BY <1>1
<1>3. text # <<>> => (b64_has_room(Len(text), size) <=> 3 * m - 1 <= size)
  <2>1. text # <<>> => 4 * m >= 4
    BY <1>1
  <2>2. (4 * m) \div 4 = m
    BY <1>1
  <2> QED BY <1>1, <2>1, <2>2 DEF b64_has_room
<1>4. bytes = data
  <2>1. length = n
    <3>1. b64_decoded_length(m + n) = n
      <4> HIDE DEF n, m
      <4> QED BY <1>1, LengthBack
    <3> QED BY <3>1, DigitsRead
  <2>2. ASSUME NEW k \in 1..n
        PROVE  B64Byte(text, 4 * ((k - 1) \div 3) + 1, (k - 1) % 3) = data[k]
    <3> DEFINE g == ((k - 1) \div 3) + 1
               j == (k - 1) % 3
    <3>1. /\ g \in 1..m /\ j \in 0..2 /\ 3 * g - 2 + j = k /\ k <= n
          /\ (k - 1) \div 3 = g - 1
      <4> HIDE DEF n, m
      <4> QED BY <1>1, PlaceOf
    <3> HIDE DEF g, j, m, n, text
    <3>2. B64Byte(text, 4 * (g - 1) + 1, j) = data[k]
      BY <3>1, GroupRead DEF m, n, text
    <3> QED BY <3>1, <3>2 DEF j
  <2>3. data = [k \in 1..n |-> data[k]]
    OBVIOUS
  <2> HIDE DEF length, text, n
  <2> QED BY <2>1, <2>2, <2>3
<1>5. b64_decode(text, size) =
        IF text = <<>> THEN [ret |-> "SUCCESS", data |-> <<>>]
        ELSE IF ~b64_has_room(Len(text), size) THEN NO_MEM ELSE [ret |-> "SUCCESS", data |-> bytes]
  <2> HIDE DEF text
  <2> QED BY Zenon DEF b64_decode
<1> HIDE DEF bytes, text, n
<1> QED
  BY <1>2, <1>3, <1>4, <1>5 DEF text, n

-----------------------------------------------------------------------------
(* Base 32: five bits of a byte, or of two.                                *)

(* Five bits of two bytes, the first b of which are not of them. *)
Five(b, x, y) ==
  IF b <= 3 THEN (x % 2^(8 - b)) \div 2^(3 - b)
  ELSE (x % 2^(8 - b)) * 2^(b - 3) + (y \div 2^(11 - b))

(* The powers of two that occur, as numbers. *)
LEMMA Powers ==
  /\ 2^0 = 1 /\ 2^1 = 2 /\ 2^2 = 4 /\ 2^3 = 8 /\ 2^4 = 16
  /\ 2^5 = 32 /\ 2^6 = 64 /\ 2^7 = 128 /\ 2^8 = 256 /\ 2^16 = 65536
BY SMT

(* The five bits, as the end of the first byte and the start of the next. *)
LEMMA FiveIs ==
  ASSUME NEW x \in Byte, NEW y \in Byte
  PROVE  /\ Five(0, x, y) = x \div 8
         /\ Five(1, x, y) = (x % 128) \div 4
         /\ Five(2, x, y) = (x % 64) \div 2
         /\ Five(3, x, y) = x % 32
         /\ Five(4, x, y) = (x % 16) * 2 + (y \div 128)
         /\ Five(5, x, y) = (x % 8) * 4 + (y \div 64)
         /\ Five(6, x, y) = (x % 4) * 8 + (y \div 32)
         /\ Five(7, x, y) = (x % 2) * 16 + (y \div 16)
<1>1. x % 256 = x /\ (x % 32) \div 1 = x % 32
  BY SMT DEF Byte
<1>2. /\ Five(0, x, y) = (x % 2^8) \div 2^3
      /\ Five(1, x, y) = (x % 2^7) \div 2^2
      /\ Five(2, x, y) = (x % 2^6) \div 2^1
      /\ Five(3, x, y) = (x % 2^5) \div 2^0
      /\ Five(4, x, y) = (x % 2^4) * 2^1 + (y \div 2^7)
      /\ Five(5, x, y) = (x % 2^3) * 2^2 + (y \div 2^6)
      /\ Five(6, x, y) = (x % 2^2) * 2^3 + (y \div 2^5)
      /\ Five(7, x, y) = (x % 2^1) * 2^4 + (y \div 2^4)
  BY SMT DEF Five
<1> QED
  BY <1>1, <1>2, Powers, SMT

(* They are a digit. *)
LEMMA FiveBits ==
  ASSUME NEW b \in 0..7, NEW x \in Byte, NEW y \in Byte
  PROVE  Five(b, x, y) \in 0..31
<1>1. b = 0 \/ b = 1 \/ b = 2 \/ b = 3 \/ b = 4 \/ b = 5 \/ b = 6 \/ b = 7
  OBVIOUS
<1>2. /\ x \div 8 \in 0..31 /\ (x % 128) \div 4 \in 0..31 /\ (x % 64) \div 2 \in 0..31 /\ x % 32 \in 0..31
  BY SMT DEF Byte
<1>3. (x % 16) * 2 + (y \div 128) \in 0..31 /\ (x % 8) * 4 + (y \div 64) \in 0..31
  BY SMT DEF Byte
<1>4. (x % 4) * 8 + (y \div 32) \in 0..31 /\ (x % 2) * 16 + (y \div 16) \in 0..31
  BY SMT DEF Byte
<1> QED
  BY <1>1, <1>2, <1>3, <1>4, FiveIs, SMT

(* The powers of two by which the bits are shifted. *)
LEMMA Shifts ==
  /\ 2^(8 - 0) = 256 /\ 2^(3 - 0) = 8
  /\ 2^(8 - 1) = 128 /\ 2^(3 - 1) = 4
  /\ 2^(8 - 2) = 64 /\ 2^(3 - 2) = 2
  /\ 2^(8 - 3) = 32 /\ 2^(3 - 3) = 1
  /\ 2^(8 - 4) = 16 /\ 2^(4 - 3) = 2 /\ 2^(11 - 4) = 128
  /\ 2^(8 - 5) = 8 /\ 2^(5 - 3) = 4 /\ 2^(11 - 5) = 64
  /\ 2^(8 - 6) = 4 /\ 2^(6 - 3) = 8 /\ 2^(11 - 6) = 32
  /\ 2^(8 - 7) = 2 /\ 2^(7 - 3) = 16 /\ 2^(11 - 7) = 16
BY SMT

(* Some bits of a number are bits of its last ones. *)
LEMMA LastBits ==
  ASSUME NEW v \in Nat
  PROVE  /\ (v \div 8) % 32 = (v % 256) \div 8 /\ v % 8 = (v % 256) % 8
         /\ (v \div 4) % 32 = (v % 128) \div 4 /\ v % 4 = (v % 128) % 4
         /\ (v \div 2) % 32 = (v % 64) \div 2 /\ v % 2 = (v % 64) % 2
         /\ (v \div 1) % 32 = v % 32 /\ v % 1 = 0
<1>1. (v \div 8) % 32 = (v % 256) \div 8 /\ v % 8 = (v % 256) % 8
  <2> DEFINE q == v \div 256
             h == (v % 256) \div 8
             l == (v % 256) % 8
  <2>1. v = 8 * (32 * q + h) + l /\ q \in Nat /\ h \in 0..31 /\ l \in 0..7
    BY SMT
  <2> HIDE DEF q, h, l
  <2>2. v \div 8 = 32 * q + h /\ v % 8 = l
    BY <2>1, SMT
  <2>3. (32 * q + h) % 32 = h
    BY <2>1, SMT
  <2> QED BY <2>2, <2>3, SMT DEF h, l
<1>2. (v \div 4) % 32 = (v % 128) \div 4 /\ v % 4 = (v % 128) % 4
  <2> DEFINE q == v \div 128
             h == (v % 128) \div 4
             l == (v % 128) % 4
  <2>1. v = 4 * (32 * q + h) + l /\ q \in Nat /\ h \in 0..31 /\ l \in 0..3
    BY SMT
  <2> HIDE DEF q, h, l
  <2>2. v \div 4 = 32 * q + h /\ v % 4 = l
    BY <2>1, SMT
  <2>3. (32 * q + h) % 32 = h
    BY <2>1, SMT
  <2> QED BY <2>2, <2>3, SMT DEF h, l
<1>3. (v \div 2) % 32 = (v % 64) \div 2 /\ v % 2 = (v % 64) % 2
  <2> DEFINE q == v \div 64
             h == (v % 64) \div 2
             l == (v % 64) % 2
  <2>1. v = 2 * (32 * q + h) + l /\ q \in Nat /\ h \in 0..31 /\ l \in 0..1
    BY SMT
  <2> HIDE DEF q, h, l
  <2>2. v \div 2 = 32 * q + h /\ v % 2 = l
    BY <2>1, SMT
  <2>3. (32 * q + h) % 32 = h
    BY <2>1, SMT
  <2> QED BY <2>2, <2>3, SMT DEF h, l
<1> QED
  BY <1>1, <1>2, <1>3, SMT

(* A digit from the last bits of one byte, when five of them are left. *)
LEMMA PutOutFew ==
  ASSUME NEW b \in 0..3, NEW buffer \in Nat, NEW x \in Byte, NEW y \in Byte,
         buffer % 2^(8 - b) = x % 2^(8 - b)
  PROVE  /\ (buffer \div 2^(3 - b)) % 32 = Five(b, x, y)
         /\ buffer % 2^(3 - b) = x % 2^(3 - b)
<1>0. x \in Nat /\ x % 256 = x /\ (x \div 1) % 32 = x % 32
  BY SMT DEF Byte
<1>1. CASE b = 0
  <2>1. buffer % 256 = x % 256
    BY <1>1, Shifts, SMT
  <2>2. (buffer \div 8) % 32 = Five(0, x, y) /\ buffer % 8 = x % 8
    BY <1>0, <2>1, LastBits, FiveIs, SMT
  <2>3. 2^(3 - b) = 8
    BY <1>1, Shifts, SMT
  <2> QED BY <1>1, <2>2, <2>3, SMT
<1>2. CASE b = 1
  <2>1. buffer % 128 = x % 128
    BY <1>2, Shifts, SMT
  <2>2. (buffer \div 4) % 32 = Five(1, x, y) /\ buffer % 4 = x % 4
    BY <1>0, <2>1, LastBits, FiveIs, SMT
  <2>3. 2^(3 - b) = 4
    BY <1>2, Shifts, SMT
  <2> QED BY <1>2, <2>2, <2>3, SMT
<1>3. CASE b = 2
  <2>1. buffer % 64 = x % 64
    BY <1>3, Shifts, SMT
  <2>2. (buffer \div 2) % 32 = Five(2, x, y) /\ buffer % 2 = x % 2
    BY <1>0, <2>1, LastBits, FiveIs, SMT
  <2>3. 2^(3 - b) = 2
    BY <1>3, Shifts, SMT
  <2> QED BY <1>3, <2>2, <2>3, SMT
<1>4. CASE b = 3
  <2>1. buffer % 32 = x % 32
    BY <1>4, Shifts, SMT
  <2>2. (buffer \div 1) % 32 = Five(3, x, y) /\ buffer % 1 = x % 1
    BY <1>0, <2>1, LastBits, FiveIs, SMT
  <2>3. 2^(3 - b) = 1
    BY <1>4, Shifts, SMT
  <2> QED BY <1>4, <2>2, <2>3, SMT
<1> QED
  BY <1>1, <1>2, <1>3, <1>4, SMT
(* The accumulator keeps the bits that are read of it. *)
LEMMA SixteenBits ==
  ASSUME NEW v \in Nat
  PROVE  /\ b32_buffer(v) \in Nat
         /\ (b32_buffer(v) \div 1) % 32 = (v \div 1) % 32
         /\ (b32_buffer(v) \div 128) % 32 = (v \div 128) % 32 /\ b32_buffer(v) % 128 = v % 128
         /\ (b32_buffer(v) \div 64) % 32 = (v \div 64) % 32 /\ b32_buffer(v) % 64 = v % 64
         /\ (b32_buffer(v) \div 32) % 32 = (v \div 32) % 32 /\ b32_buffer(v) % 32 = v % 32
         /\ (b32_buffer(v) \div 16) % 32 = (v \div 16) % 32 /\ b32_buffer(v) % 16 = v % 16
         /\ b32_buffer(v) % 256 = v % 256
<1>0. b32_buffer(v) = v % 65536 /\ v % 65536 \in Nat
  BY Powers, SMT DEF b32_buffer
<1>a. (v % 65536) % 256 = v % 256 /\ ((v % 65536) \div 1) % 32 = (v \div 1) % 32
  <2> DEFINE q == v \div 65536
             w == v % 65536
  <2>1. v = 256 * (256 * q) + w /\ q \in Nat /\ w \in Nat
    BY SMT
  <2> HIDE DEF q, w
  <2>2. v % 256 = w % 256 /\ (v \div 1) % 32 = (w \div 1) % 32
    BY <2>1, SMT
  <2> QED BY <2>2, SMT DEF w
<1>1. ((v % 65536) \div 128) % 32 = (v \div 128) % 32 /\ (v % 65536) % 128 = v % 128
  <2> DEFINE q == v \div 65536
             h == (v % 65536) \div 128
             l == (v % 65536) % 128
  <2>1. v = 128 * (32 * (16 * q) + h) + l /\ q \in Nat /\ h \in Nat /\ l \in 0..127
    BY SMT
  <2> HIDE DEF q, h, l
  <2>2. v \div 128 = 32 * (16 * q) + h /\ v % 128 = l
    BY <2>1, SMT
  <2>3. (32 * (16 * q) + h) % 32 = h % 32
    BY <2>1, SMT
  <2> QED BY <2>2, <2>3, SMT DEF h, l
<1>2. ((v % 65536) \div 64) % 32 = (v \div 64) % 32 /\ (v % 65536) % 64 = v % 64
  <2> DEFINE q == v \div 65536
             h == (v % 65536) \div 64
             l == (v % 65536) % 64
  <2>1. v = 64 * (32 * (32 * q) + h) + l /\ q \in Nat /\ h \in Nat /\ l \in 0..63
    BY SMT
  <2> HIDE DEF q, h, l
  <2>2. v \div 64 = 32 * (32 * q) + h /\ v % 64 = l
    BY <2>1, SMT
  <2>3. (32 * (32 * q) + h) % 32 = h % 32
    BY <2>1, SMT
  <2> QED BY <2>2, <2>3, SMT DEF h, l
<1>3. ((v % 65536) \div 32) % 32 = (v \div 32) % 32 /\ (v % 65536) % 32 = v % 32
  <2> DEFINE q == v \div 65536
             h == (v % 65536) \div 32
             l == (v % 65536) % 32
  <2>1. v = 32 * (32 * (64 * q) + h) + l /\ q \in Nat /\ h \in Nat /\ l \in 0..31
    BY SMT
  <2> HIDE DEF q, h, l
  <2>2. v \div 32 = 32 * (64 * q) + h /\ v % 32 = l
    BY <2>1, SMT
  <2>3. (32 * (64 * q) + h) % 32 = h % 32
    BY <2>1, SMT
  <2> QED BY <2>2, <2>3, SMT DEF h, l
<1>4. ((v % 65536) \div 16) % 32 = (v \div 16) % 32 /\ (v % 65536) % 16 = v % 16
  <2> DEFINE q == v \div 65536
             h == (v % 65536) \div 16
             l == (v % 65536) % 16
  <2>1. v = 16 * (32 * (128 * q) + h) + l /\ q \in Nat /\ h \in Nat /\ l \in 0..15
    BY SMT
  <2> HIDE DEF q, h, l
  <2>2. v \div 16 = 32 * (128 * q) + h /\ v % 16 = l
    BY <2>1, SMT
  <2>3. (32 * (128 * q) + h) % 32 = h % 32
    BY <2>1, SMT
  <2> QED BY <2>2, <2>3, SMT DEF h, l
<1> QED
  BY <1>0, <1>a, <1>1, <1>2, <1>3, <1>4, SMT

(* The bits of a digit below those that the accumulator had. *)
LEMMA DigitBits ==
  ASSUME NEW v \in Nat, NEW e \in {16, 32, 64, 128}
  PROVE  (b32_buffer(v) \div e) % 32 = (v \div e) % 32 /\ b32_buffer(v) % e = v % e
<1>1. e = 16 \/ e = 32 \/ e = 64 \/ e = 128
  OBVIOUS
<1>2. CASE e = 16
  BY <1>2, SixteenBits
<1>3. CASE e = 32
  BY <1>3, SixteenBits
<1>4. CASE e = 64
  BY <1>4, SixteenBits
<1>5. CASE e = 128
  BY <1>5, SixteenBits
<1> QED
  BY <1>1, <1>2, <1>3, <1>4, <1>5

(* A digit from the last bits of one byte and the first ones of the next. *)
LEMMA PutOutMore ==
  ASSUME NEW b \in 4..7, NEW buffer \in Nat, NEW x \in Byte, NEW y \in Byte,
         buffer % 2^(8 - b) = x % 2^(8 - b)
  PROVE  /\ (b32_buffer(buffer * 2^8 + y) \div 2^(11 - b)) % 32 = Five(b, x, y)
         /\ b32_buffer(buffer * 2^8 + y) % 2^(11 - b) = y % 2^(11 - b)
         /\ (b32_buffer(buffer * 2^(b - 3)) \div 2^0) % 32 = Five(b, x, 0)
<1> DEFINE v == buffer * 256 + y
<1>0. v \in Nat /\ y \in Nat /\ 0 \in Byte
  BY SMT DEF Byte
<1>00. buffer * 2^8 + y = v
  BY Powers, SMT
<1>1. CASE b = 4
  <2> DEFINE u == buffer \div 16
             r == buffer % 16
             h == y \div 128
             l == y % 128
             w == buffer * 2
  <2>1. buffer % 16 = x % 16
    BY <1>1, Shifts, SMT
  <2>2. buffer = 16 * u + r /\ u \in Nat /\ r \in 0..15 /\ y = 128 * h + l /\ h \in 0..1 /\ l \in 0..127
    BY SMT DEF Byte
  <2> HIDE DEF u, r, h, l
  <2>3. v = 128 * (32 * u + (2 * r + h)) + l
    BY <2>2, SMT
  <2>4. v \div 128 = 32 * u + (2 * r + h) /\ v % 128 = l
    <3> HIDE DEF v
    <3> QED BY <2>2, <2>3, SMT
  <2>5. (32 * u + (2 * r + h)) % 32 = 2 * r + h
    BY <2>2, SMT
  <2>6. w = 32 * u + 2 * r /\ w \in Nat
    BY <2>2, SMT
  <2>7. (w \div 1) % 32 = 2 * r
    <3> HIDE DEF w
    <3> QED BY <2>2, <2>6, SMT
  <2>8. (b32_buffer(v) \div 128) % 32 = 2 * r + h /\ b32_buffer(v) % 128 = l /\ (b32_buffer(w) \div 1) % 32 = 2 * r
    <3> HIDE DEF v, w
    <3>1. (b32_buffer(v) \div 128) % 32 = (v \div 128) % 32 /\ b32_buffer(v) % 128 = v % 128
      <4>1. v \in Nat /\ 128 \in {16, 32, 64, 128}
        BY <1>0
      <4> QED BY <4>1, DigitBits, Zenon
    <3>2. (b32_buffer(w) \div 1) % 32 = (w \div 1) % 32
      BY <2>6, SixteenBits
    <3> QED BY <2>4, <2>5, <2>7, <3>1, <3>2
  <2>9. Five(4, x, y) = r * 2 + h /\ Five(4, x, 0) = r * 2 + (0 \div 128)
    <3>1. Five(4, x, y) = (x % 16) * 2 + (y \div 128)
      BY FiveIs
    <3>2. Five(4, x, 0) = (x % 16) * 2 + (0 \div 128)
      BY <1>0, FiveIs
    <3>3. x % 16 = r
      BY <2>1 DEF r
    <3> QED BY <3>1, <3>2, <3>3 DEF h
  <2>10. r * 2 + h = 2 * r + h /\ r * 2 + (0 \div 128) = 2 * r
    BY <2>2, SMT
  <2>11. 2^(11 - b) = 128 /\ 2^(b - 3) = 2 /\ 2^0 = 1
    BY <1>1, Shifts, Powers, SMT
  <2>12. /\ (b32_buffer(v) \div 2^(11 - b)) % 32 = Five(4, x, y)
         /\ b32_buffer(v) % 2^(11 - b) = y % 2^(11 - b)
         /\ (b32_buffer(buffer * 2^(b - 3)) \div 2^0) % 32 = Five(4, x, 0)
    <3> HIDE DEF v
    <3> QED BY <2>8, <2>9, <2>10, <2>11, SMTT(30) DEF l
  <2> HIDE DEF v
  <2> QED BY <1>00, <1>1, <2>12, Zenon
<1>2. CASE b = 5
  <2> DEFINE u == buffer \div 8
             r == buffer % 8
             h == y \div 64
             l == y % 64
             w == buffer * 4
  <2>1. buffer % 8 = x % 8
    BY <1>2, Shifts, SMT
  <2>2. buffer = 8 * u + r /\ u \in Nat /\ r \in 0..7 /\ y = 64 * h + l /\ h \in 0..3 /\ l \in 0..63
    BY SMT DEF Byte
  <2> HIDE DEF u, r, h, l
  <2>3. v = 64 * (32 * u + (4 * r + h)) + l
    BY <2>2, SMT
  <2>4. v \div 64 = 32 * u + (4 * r + h) /\ v % 64 = l
    <3> HIDE DEF v
    <3> QED BY <2>2, <2>3, SMT
  <2>5. (32 * u + (4 * r + h)) % 32 = 4 * r + h
    BY <2>2, SMT
  <2>6. w = 32 * u + 4 * r /\ w \in Nat
    BY <2>2, SMT
  <2>7. (w \div 1) % 32 = 4 * r
    <3> HIDE DEF w
    <3> QED BY <2>2, <2>6, SMT
  <2>8. (b32_buffer(v) \div 64) % 32 = 4 * r + h /\ b32_buffer(v) % 64 = l /\ (b32_buffer(w) \div 1) % 32 = 4 * r
    <3> HIDE DEF v, w
    <3>1. (b32_buffer(v) \div 64) % 32 = (v \div 64) % 32 /\ b32_buffer(v) % 64 = v % 64
      <4>1. v \in Nat /\ 64 \in {16, 32, 64, 128}
        BY <1>0
      <4> QED BY <4>1, DigitBits, Zenon
    <3>2. (b32_buffer(w) \div 1) % 32 = (w \div 1) % 32
      BY <2>6, SixteenBits
    <3> QED BY <2>4, <2>5, <2>7, <3>1, <3>2
  <2>9. Five(5, x, y) = r * 4 + h /\ Five(5, x, 0) = r * 4 + (0 \div 64)
    <3>1. Five(5, x, y) = (x % 8) * 4 + (y \div 64)
      BY FiveIs
    <3>2. Five(5, x, 0) = (x % 8) * 4 + (0 \div 64)
      BY <1>0, FiveIs
    <3>3. x % 8 = r
      BY <2>1 DEF r
    <3> QED BY <3>1, <3>2, <3>3 DEF h
  <2>10. r * 4 + h = 4 * r + h /\ r * 4 + (0 \div 64) = 4 * r
    BY <2>2, SMT
  <2>11. 2^(11 - b) = 64 /\ 2^(b - 3) = 4 /\ 2^0 = 1
    BY <1>2, Shifts, Powers, SMT
  <2>12. /\ (b32_buffer(v) \div 2^(11 - b)) % 32 = Five(5, x, y)
         /\ b32_buffer(v) % 2^(11 - b) = y % 2^(11 - b)
         /\ (b32_buffer(buffer * 2^(b - 3)) \div 2^0) % 32 = Five(5, x, 0)
    <3> HIDE DEF v
    <3> QED BY <2>8, <2>9, <2>10, <2>11, Zenon DEF l
  <2> HIDE DEF v
  <2> QED BY <1>00, <1>2, <2>12, Zenon
<1>3. CASE b = 6
  <2> DEFINE u == buffer \div 4
             r == buffer % 4
             h == y \div 32
             l == y % 32
             w == buffer * 8
  <2>1. buffer % 4 = x % 4
    BY <1>3, Shifts, SMT
  <2>2. buffer = 4 * u + r /\ u \in Nat /\ r \in 0..3 /\ y = 32 * h + l /\ h \in 0..7 /\ l \in 0..31
    BY SMT DEF Byte
  <2> HIDE DEF u, r, h, l
  <2>3. v = 32 * (32 * u + (8 * r + h)) + l
    BY <2>2, SMT
  <2>4. v \div 32 = 32 * u + (8 * r + h) /\ v % 32 = l
    <3> HIDE DEF v
    <3> QED BY <2>2, <2>3, SMT
  <2>5. (32 * u + (8 * r + h)) % 32 = 8 * r + h
    BY <2>2, SMT
  <2>6. w = 32 * u + 8 * r /\ w \in Nat
    BY <2>2, SMT
  <2>7. (w \div 1) % 32 = 8 * r
    <3> HIDE DEF w
    <3> QED BY <2>2, <2>6, SMT
  <2>8. (b32_buffer(v) \div 32) % 32 = 8 * r + h /\ b32_buffer(v) % 32 = l /\ (b32_buffer(w) \div 1) % 32 = 8 * r
    <3> HIDE DEF v, w
    <3>1. (b32_buffer(v) \div 32) % 32 = (v \div 32) % 32 /\ b32_buffer(v) % 32 = v % 32
      <4>1. v \in Nat /\ 32 \in {16, 32, 64, 128}
        BY <1>0
      <4> QED BY <4>1, DigitBits, Zenon
    <3>2. (b32_buffer(w) \div 1) % 32 = (w \div 1) % 32
      BY <2>6, SixteenBits
    <3> QED BY <2>4, <2>5, <2>7, <3>1, <3>2
  <2>9. Five(6, x, y) = r * 8 + h /\ Five(6, x, 0) = r * 8 + (0 \div 32)
    <3>1. Five(6, x, y) = (x % 4) * 8 + (y \div 32)
      BY FiveIs
    <3>2. Five(6, x, 0) = (x % 4) * 8 + (0 \div 32)
      BY <1>0, FiveIs
    <3>3. x % 4 = r
      BY <2>1 DEF r
    <3> QED BY <3>1, <3>2, <3>3 DEF h
  <2>10. r * 8 + h = 8 * r + h /\ r * 8 + (0 \div 32) = 8 * r
    BY <2>2, SMT
  <2>11. 2^(11 - b) = 32 /\ 2^(b - 3) = 8 /\ 2^0 = 1
    BY <1>3, Shifts, Powers, SMT
  <2>12. /\ (b32_buffer(v) \div 2^(11 - b)) % 32 = Five(6, x, y)
         /\ b32_buffer(v) % 2^(11 - b) = y % 2^(11 - b)
         /\ (b32_buffer(buffer * 2^(b - 3)) \div 2^0) % 32 = Five(6, x, 0)
    <3> HIDE DEF v
    <3> QED BY <2>8, <2>9, <2>10, <2>11, Zenon DEF l
  <2> HIDE DEF v
  <2> QED BY <1>00, <1>3, <2>12, Zenon
<1>4. CASE b = 7
  <2> DEFINE u == buffer \div 2
             r == buffer % 2
             h == y \div 16
             l == y % 16
             w == buffer * 16
  <2>1. buffer % 2 = x % 2
    BY <1>4, Shifts, SMT
  <2>2. buffer = 2 * u + r /\ u \in Nat /\ r \in 0..1 /\ y = 16 * h + l /\ h \in 0..15 /\ l \in 0..15
    BY SMT DEF Byte
  <2> HIDE DEF u, r, h, l
  <2>3. v = 16 * (32 * u + (16 * r + h)) + l
    BY <2>2, SMT
  <2>4. v \div 16 = 32 * u + (16 * r + h) /\ v % 16 = l
    <3> HIDE DEF v
    <3> QED BY <2>2, <2>3, SMT
  <2>5. (32 * u + (16 * r + h)) % 32 = 16 * r + h
    BY <2>2, SMT
  <2>6. w = 32 * u + 16 * r /\ w \in Nat
    BY <2>2, SMT
  <2>7. (w \div 1) % 32 = 16 * r
    <3> HIDE DEF w
    <3> QED BY <2>2, <2>6, SMT
  <2>8. (b32_buffer(v) \div 16) % 32 = 16 * r + h /\ b32_buffer(v) % 16 = l /\ (b32_buffer(w) \div 1) % 32 = 16 * r
    <3> HIDE DEF v, w
    <3>1. (b32_buffer(v) \div 16) % 32 = (v \div 16) % 32 /\ b32_buffer(v) % 16 = v % 16
      <4>1. v \in Nat /\ 16 \in {16, 32, 64, 128}
        BY <1>0
      <4> QED BY <4>1, DigitBits, Zenon
    <3>2. (b32_buffer(w) \div 1) % 32 = (w \div 1) % 32
      BY <2>6, SixteenBits
    <3> QED BY <2>4, <2>5, <2>7, <3>1, <3>2
  <2>9. Five(7, x, y) = r * 16 + h /\ Five(7, x, 0) = r * 16 + (0 \div 16)
    <3>1. Five(7, x, y) = (x % 2) * 16 + (y \div 16)
      BY FiveIs
    <3>2. Five(7, x, 0) = (x % 2) * 16 + (0 \div 16)
      BY <1>0, FiveIs
    <3>3. x % 2 = r
      BY <2>1 DEF r
    <3> QED BY <3>1, <3>2, <3>3 DEF h
  <2>10. r * 16 + h = 16 * r + h /\ r * 16 + (0 \div 16) = 16 * r
    BY <2>2, SMT
  <2>11. 2^(11 - b) = 16 /\ 2^(b - 3) = 16 /\ 2^0 = 1
    BY <1>4, Shifts, Powers, SMT
  <2>12. /\ (b32_buffer(v) \div 2^(11 - b)) % 32 = Five(7, x, y)
         /\ b32_buffer(v) % 2^(11 - b) = y % 2^(11 - b)
         /\ (b32_buffer(buffer * 2^(b - 3)) \div 2^0) % 32 = Five(7, x, 0)
    <3> HIDE DEF v
    <3> QED BY <2>8, <2>9, <2>10, <2>11, Zenon DEF l
  <2> HIDE DEF v
  <2> QED BY <1>00, <1>4, <2>12, Zenon
<1> QED
  <2>1. b = 4 \/ b = 5 \/ b = 6 \/ b = 7
    OBVIOUS
  <2> QED BY <1>1, <1>2, <1>3, <1>4, <2>1

(* The accumulator keeps the bits of a byte. *)
LEMMA ByteBits ==
  ASSUME NEW v \in Nat, NEW e \in {1, 2, 4, 8, 16}
  PROVE  (b32_buffer(v) \div e) % 256 = (v \div e) % 256 /\ b32_buffer(v) % e = v % e
<1>0. b32_buffer(v) = v % 65536 /\ v % 65536 \in Nat
  BY Powers, SMT DEF b32_buffer
<1>1. CASE e = 1
  <2> DEFINE q == v \div 65536
             h == (v % 65536) \div 1
             l == (v % 65536) % 1
  <2>1. v = 1 * (256 * (256 * q) + h) + l /\ q \in Nat /\ h \in Nat /\ l \in 0..0
    BY SMT
  <2> HIDE DEF q, h, l
  <2>2. v \div 1 = 256 * (256 * q) + h /\ v % 1 = l
    BY <2>1, SMT
  <2>3. (256 * (256 * q) + h) % 256 = h % 256
    BY <2>1, SMT
  <2>4. ((v % 65536) \div 1) % 256 = (v \div 1) % 256 /\ (v % 65536) % 1 = v % 1
    BY <2>2, <2>3, SMT DEF h, l
  <2> QED BY <1>0, <1>1, <2>4, SMT
<1>2. CASE e = 2
  <2> DEFINE q == v \div 65536
             h == (v % 65536) \div 2
             l == (v % 65536) % 2
  <2>1. v = 2 * (256 * (128 * q) + h) + l /\ q \in Nat /\ h \in Nat /\ l \in 0..1
    BY SMT
  <2> HIDE DEF q, h, l
  <2>2. v \div 2 = 256 * (128 * q) + h /\ v % 2 = l
    BY <2>1, SMT
  <2>3. (256 * (128 * q) + h) % 256 = h % 256
    BY <2>1, SMT
  <2>4. ((v % 65536) \div 2) % 256 = (v \div 2) % 256 /\ (v % 65536) % 2 = v % 2
    BY <2>2, <2>3, SMT DEF h, l
  <2> QED BY <1>0, <1>2, <2>4, SMT
<1>3. CASE e = 4
  <2> DEFINE q == v \div 65536
             h == (v % 65536) \div 4
             l == (v % 65536) % 4
  <2>1. v = 4 * (256 * (64 * q) + h) + l /\ q \in Nat /\ h \in Nat /\ l \in 0..3
    BY SMT
  <2> HIDE DEF q, h, l
  <2>2. v \div 4 = 256 * (64 * q) + h /\ v % 4 = l
    BY <2>1, SMT
  <2>3. (256 * (64 * q) + h) % 256 = h % 256
    BY <2>1, SMT
  <2>4. ((v % 65536) \div 4) % 256 = (v \div 4) % 256 /\ (v % 65536) % 4 = v % 4
    BY <2>2, <2>3, SMT DEF h, l
  <2> QED BY <1>0, <1>3, <2>4, SMT
<1>4. CASE e = 8
  <2> DEFINE q == v \div 65536
             h == (v % 65536) \div 8
             l == (v % 65536) % 8
  <2>1. v = 8 * (256 * (32 * q) + h) + l /\ q \in Nat /\ h \in Nat /\ l \in 0..7
    BY SMT
  <2> HIDE DEF q, h, l
  <2>2. v \div 8 = 256 * (32 * q) + h /\ v % 8 = l
    BY <2>1, SMT
  <2>3. (256 * (32 * q) + h) % 256 = h % 256
    BY <2>1, SMT
  <2>4. ((v % 65536) \div 8) % 256 = (v \div 8) % 256 /\ (v % 65536) % 8 = v % 8
    BY <2>2, <2>3, SMT DEF h, l
  <2> QED BY <1>0, <1>4, <2>4, SMT
<1>5. CASE e = 16
  <2> DEFINE q == v \div 65536
             h == (v % 65536) \div 16
             l == (v % 65536) % 16
  <2>1. v = 16 * (256 * (16 * q) + h) + l /\ q \in Nat /\ h \in Nat /\ l \in 0..15
    BY SMT
  <2> HIDE DEF q, h, l
  <2>2. v \div 16 = 256 * (16 * q) + h /\ v % 16 = l
    BY <2>1, SMT
  <2>3. (256 * (16 * q) + h) % 256 = h % 256
    BY <2>1, SMT
  <2>4. ((v % 65536) \div 16) % 256 = (v \div 16) % 256 /\ (v % 65536) % 16 = v % 16
    BY <2>2, <2>3, SMT DEF h, l
  <2> QED BY <1>0, <1>5, <2>4, SMT
<1>6. e = 1 \/ e = 2 \/ e = 4 \/ e = 8 \/ e = 16
  OBVIOUS
<1> QED
  BY <1>1, <1>2, <1>3, <1>4, <1>5, <1>6, Zenon

(* A number of few bits is its own remainder. *)
LEMMA FewBits ==
  ASSUME NEW v \in Nat, NEW e \in {32, 64, 128}
  PROVE  b32_buffer(v) % e = v % e
<1>1. v \in Nat /\ e \in {16, 32, 64, 128}
  OBVIOUS
<1> QED
  BY <1>1, DigitBits, ZenonT(60)

(* What is left of a byte to the left: b bits. *)
LEMMA TakeInFew ==
  ASSUME NEW b \in 0..2, NEW buffer \in Nat, NEW x \in Byte, NEW y \in Byte,
         buffer % 2^b = x \div 2^(8 - b)
  PROVE  b32_buffer(buffer * 2^5 + Five(b, x, y)) % 2^(b + 5) = x \div 2^(8 - (b + 5))
<1>1. CASE b = 0
  <2> DEFINE u == buffer \div 1
             f == Five(0, x, y)
             v == buffer * 32 + f
  <2>1. 2^b = 1 /\ 2^(8 - b) = 256 /\ 2^(b + 5) = 32 /\ 2^(8 - (b + 5)) = 8 /\ 2^5 = 32
    <3>1. 2^0 = 1 /\ 2^(8 - 0) = 256 /\ 2^(0 + 5) = 32 /\ 2^(8 - (0 + 5)) = 8 /\ 2^5 = 32
      BY SMT
    <3> QED BY <1>1, <3>1
  <2>2. buffer % 1 = x \div 256
    BY <2>1, SMT
  <2>3. f = (x % 256) \div 8 /\ f \in Nat
    <3>1. x % 256 = x /\ (x % 256) \div 8 \in Nat
      BY SMT DEF Byte
    <3> QED BY <3>1, FiveIs, SMT
  <2>4. buffer = 1 * u + (x \div 256) /\ u \in Nat
    BY <2>2, SMT
  <2>5. 32 * (x \div 256) + ((x % 256) \div 8) = x \div 8 /\ x \div 8 \in 0..31
    BY SMT DEF Byte
  <2> HIDE DEF u, f
  <2>6. v = 32 * u + (x \div 8) /\ v \in Nat
    <3> DEFINE g == x \div 256
               h == (x % 256) \div 8
               t == x \div 8
    <3>1. 32 * g + h = t /\ f = h /\ buffer = 1 * u + g /\ t \in 0..31 /\ f \in Nat /\ g \in Int
      BY <2>3, <2>4, <2>5, SMT DEF Byte
    <3> HIDE DEF g, h, t
    <3>2. v = 32 * u + t /\ v \in Nat
      BY <2>4, <3>1, SMT
    <3> QED BY <3>2 DEF t
  <2>7. v % 32 = x \div 8
    <3> DEFINE t == x \div 8
    <3>1. v = 32 * u + t /\ t \in 0..31
      BY <2>5, <2>6
    <3> HIDE DEF t, v
    <3>2. v % 32 = t
      BY <2>4, <3>1, SMT
    <3> QED BY <3>2 DEF t
  <2>8. b32_buffer(v) % 32 = v % 32
    <3>1. v \in Nat /\ 32 \in {32, 64, 128}
      BY <2>6
    <3> HIDE DEF v
    <3> QED BY <3>1, FewBits, Zenon
  <2>9. buffer * 2^5 + Five(b, x, y) = v
    BY <1>1, <2>1 DEF f
  <2> HIDE DEF v
  <2> QED BY <2>1, <2>7, <2>8, <2>9, Zenon
<1>2. CASE b = 1
  <2> DEFINE u == buffer \div 2
             f == Five(1, x, y)
             v == buffer * 32 + f
  <2>1. 2^b = 2 /\ 2^(8 - b) = 128 /\ 2^(b + 5) = 64 /\ 2^(8 - (b + 5)) = 4 /\ 2^5 = 32
    <3>1. 2^1 = 2 /\ 2^(8 - 1) = 128 /\ 2^(1 + 5) = 64 /\ 2^(8 - (1 + 5)) = 4 /\ 2^5 = 32
      BY SMT
    <3> QED BY <1>2, <3>1
  <2>2. buffer % 2 = x \div 128
    BY <2>1, SMT
  <2>3. f = (x % 128) \div 4 /\ f \in Nat
    <3>1. x % 256 = x /\ (x % 128) \div 4 \in Nat
      BY SMT DEF Byte
    <3> QED BY <3>1, FiveIs, SMT
  <2>4. buffer = 2 * u + (x \div 128) /\ u \in Nat
    BY <2>2, SMT
  <2>5. 32 * (x \div 128) + ((x % 128) \div 4) = x \div 4 /\ x \div 4 \in 0..63
    BY SMT DEF Byte
  <2> HIDE DEF u, f
  <2>6. v = 64 * u + (x \div 4) /\ v \in Nat
    <3> DEFINE g == x \div 128
               h == (x % 128) \div 4
               t == x \div 4
    <3>1. 32 * g + h = t /\ f = h /\ buffer = 2 * u + g /\ t \in 0..63 /\ f \in Nat /\ g \in Int
      BY <2>3, <2>4, <2>5, SMT DEF Byte
    <3> HIDE DEF g, h, t
    <3>2. v = 64 * u + t /\ v \in Nat
      BY <2>4, <3>1, SMTT(30)
    <3> QED BY <3>2 DEF t
  <2>7. v % 64 = x \div 4
    <3> DEFINE t == x \div 4
    <3>1. v = 64 * u + t /\ t \in 0..63
      BY <2>5, <2>6
    <3> HIDE DEF t, v
    <3>2. v % 64 = t
      BY <2>4, <3>1, SMT
    <3> QED BY <3>2 DEF t
  <2>8. b32_buffer(v) % 64 = v % 64
    <3>1. v \in Nat /\ 64 \in {32, 64, 128}
      BY <2>6
    <3> HIDE DEF v
    <3> QED BY <3>1, FewBits, Zenon
  <2>9. buffer * 2^5 + Five(b, x, y) = v
    BY <1>2, <2>1 DEF f
  <2> HIDE DEF v
  <2> QED BY <2>1, <2>7, <2>8, <2>9, Zenon
<1>3. CASE b = 2
  <2> DEFINE u == buffer \div 4
             f == Five(2, x, y)
             v == buffer * 32 + f
  <2>1. 2^b = 4 /\ 2^(8 - b) = 64 /\ 2^(b + 5) = 128 /\ 2^(8 - (b + 5)) = 2 /\ 2^5 = 32
    <3>1. 2^2 = 4 /\ 2^(8 - 2) = 64 /\ 2^(2 + 5) = 128 /\ 2^(8 - (2 + 5)) = 2 /\ 2^5 = 32
      BY SMT
    <3> QED BY <1>3, <3>1
  <2>2. buffer % 4 = x \div 64
    BY <2>1, SMT
  <2>3. f = (x % 64) \div 2 /\ f \in Nat
    <3>1. x % 256 = x /\ (x % 64) \div 2 \in Nat
      BY SMT DEF Byte
    <3> QED BY <3>1, FiveIs, SMT
  <2>4. buffer = 4 * u + (x \div 64) /\ u \in Nat
    BY <2>2, SMT
  <2>5. 32 * (x \div 64) + ((x % 64) \div 2) = x \div 2 /\ x \div 2 \in 0..127
    BY SMT DEF Byte
  <2> HIDE DEF u, f
  <2>6. v = 128 * u + (x \div 2) /\ v \in Nat
    <3> DEFINE g == x \div 64
               h == (x % 64) \div 2
               t == x \div 2
    <3>1. 32 * g + h = t /\ f = h /\ buffer = 4 * u + g /\ t \in 0..127 /\ f \in Nat /\ g \in Int
      BY <2>3, <2>4, <2>5, SMT DEF Byte
    <3> HIDE DEF g, h, t
    <3>2. v = 128 * u + t /\ v \in Nat
      BY <2>4, <3>1, SMT
    <3> QED BY <3>2 DEF t
  <2>7. v % 128 = x \div 2
    <3> DEFINE t == x \div 2
    <3>1. v = 128 * u + t /\ t \in 0..127
      BY <2>5, <2>6
    <3> HIDE DEF t, v
    <3>2. v % 128 = t
      BY <2>4, <3>1, SMT
    <3> QED BY <3>2 DEF t
  <2>8. b32_buffer(v) % 128 = v % 128
    <3>1. v \in Nat /\ 128 \in {32, 64, 128}
      BY <2>6
    <3> HIDE DEF v
    <3> QED BY <3>1, FewBits, Zenon
  <2>9. buffer * 2^5 + Five(b, x, y) = v
    BY <1>3, <2>1 DEF f
  <2> HIDE DEF v
  <2> QED BY <2>1, <2>7, <2>8, <2>9, Zenon
<1>4. b = 0 \/ b = 1 \/ b = 2
  OBVIOUS
<1> QED
  BY <1>1, <1>2, <1>3, <1>4, Zenon

(* A byte, and what is left of the next. *)
LEMMA TakeInMore ==
  ASSUME NEW b \in 3..7, NEW buffer \in Nat, NEW x \in Byte, NEW y \in Byte,
         buffer % 2^b = x \div 2^(8 - b)
  PROVE  /\ (b32_buffer(buffer * 2^5 + Five(b, x, y)) \div 2^((b + 5) - 8)) % 2^8 = x
         /\ b32_buffer(buffer * 2^5 + Five(b, x, y)) % 2^((b + 5) - 8) = y \div 2^(8 - ((b + 5) - 8))
<1>1. CASE b = 3
  <2> DEFINE u == buffer \div 8
             f == Five(3, x, y)
             t == y \div 256
             v == buffer * 32 + f
  <2>1. 2^b = 8 /\ 2^(8 - b) = 32 /\ 2^((b + 5) - 8) = 1 /\ 2^(8 - ((b + 5) - 8)) = 256 /\ 2^5 = 32 /\ 2^8 = 256
    <3>1. 2^3 = 8 /\ 2^(8 - 3) = 32 /\ 2^((3 + 5) - 8) = 1 /\ 2^(8 - ((3 + 5) - 8)) = 256 /\ 2^5 = 32 /\ 2^8 = 256
      BY SMT
    <3> QED BY <1>1, <3>1
  <2>2. buffer % 8 = x \div 32
    BY <2>1, SMT
  <2>3. f = (x % 32) * 1 + t
    <3>1. (x % 32) * 1 + t = x % 32
      BY SMT DEF Byte
    <3> QED BY <3>1, FiveIs, SMT
  <2>4. buffer = 8 * u + (x \div 32) /\ u \in Nat
    BY <2>2, SMT
  <2>5. 32 * (x \div 32) + (x % 32) * 1 = 1 * x /\ t \in 0..0 /\ x \in 0..255
    BY SMT DEF Byte
  <2> HIDE DEF u, f, t
  <2>6. v = 1 * (256 * u + x) + t /\ v \in Nat
    BY <2>3, <2>4, <2>5, SMT
  <2>7. v \div 1 = 256 * u + x /\ v % 1 = t
    <3> HIDE DEF v
    <3> QED BY <2>4, <2>5, <2>6, SMT
  <2>8. (256 * u + x) % 256 = x
    BY <2>4, <2>5, SMT
  <2>9. (b32_buffer(v) \div 1) % 256 = (v \div 1) % 256 /\ b32_buffer(v) % 1 = v % 1
    <3>1. v \in Nat /\ 1 \in {1, 2, 4, 8, 16}
      BY <2>6
    <3> HIDE DEF v
    <3> QED BY <3>1, ByteBits, ZenonT(60)
  <2>10. buffer * 2^5 + Five(b, x, y) = v
    BY <1>1, <2>1 DEF f
  <2> HIDE DEF v
  <2> QED BY <2>1, <2>7, <2>8, <2>9, <2>10, ZenonT(60) DEF t
<1>2. CASE b = 4
  <2> DEFINE u == buffer \div 16
             f == Five(4, x, y)
             t == y \div 128
             v == buffer * 32 + f
  <2>1. 2^b = 16 /\ 2^(8 - b) = 16 /\ 2^((b + 5) - 8) = 2 /\ 2^(8 - ((b + 5) - 8)) = 128 /\ 2^5 = 32 /\ 2^8 = 256
    <3>1. 2^4 = 16 /\ 2^(8 - 4) = 16 /\ 2^((4 + 5) - 8) = 2 /\ 2^(8 - ((4 + 5) - 8)) = 128 /\ 2^5 = 32 /\ 2^8 = 256
      BY SMT
    <3> QED BY <1>2, <3>1
  <2>2. buffer % 16 = x \div 16
    BY <2>1, SMT
  <2>3. f = (x % 16) * 2 + t
    <3>1. (x % 16) * 2 + t = (x % 16) * 2 + (y \div 128)
      BY SMT DEF Byte
    <3> QED BY <3>1, FiveIs, SMT
  <2>4. buffer = 16 * u + (x \div 16) /\ u \in Nat
    BY <2>2, SMT
  <2>5. 32 * (x \div 16) + (x % 16) * 2 = 2 * x /\ t \in 0..1 /\ x \in 0..255
    BY SMT DEF Byte
  <2> HIDE DEF u, f, t
  <2>6. v = 2 * (256 * u + x) + t /\ v \in Nat
    BY <2>3, <2>4, <2>5, SMT
  <2>7. v \div 2 = 256 * u + x /\ v % 2 = t
    <3> HIDE DEF v
    <3> QED BY <2>4, <2>5, <2>6, SMT
  <2>8. (256 * u + x) % 256 = x
    BY <2>4, <2>5, SMT
  <2>9. (b32_buffer(v) \div 2) % 256 = (v \div 2) % 256 /\ b32_buffer(v) % 2 = v % 2
    <3>1. v \in Nat /\ 2 \in {1, 2, 4, 8, 16}
      BY <2>6
    <3> HIDE DEF v
    <3> QED BY <3>1, ByteBits, ZenonT(60)
  <2>10. buffer * 2^5 + Five(b, x, y) = v
    BY <1>2, <2>1 DEF f
  <2> HIDE DEF v
  <2> QED BY <2>1, <2>7, <2>8, <2>9, <2>10, ZenonT(60) DEF t
<1>3. CASE b = 5
  <2> DEFINE u == buffer \div 32
             f == Five(5, x, y)
             t == y \div 64
             v == buffer * 32 + f
  <2>1. 2^b = 32 /\ 2^(8 - b) = 8 /\ 2^((b + 5) - 8) = 4 /\ 2^(8 - ((b + 5) - 8)) = 64 /\ 2^5 = 32 /\ 2^8 = 256
    <3>1. 2^5 = 32 /\ 2^(8 - 5) = 8 /\ 2^((5 + 5) - 8) = 4 /\ 2^(8 - ((5 + 5) - 8)) = 64 /\ 2^5 = 32 /\ 2^8 = 256
      BY SMT
    <3> QED BY <1>3, <3>1
  <2>2. buffer % 32 = x \div 8
    BY <2>1, SMT
  <2>3. f = (x % 8) * 4 + t
    <3>1. (x % 8) * 4 + t = (x % 8) * 4 + (y \div 64)
      BY SMT DEF Byte
    <3> QED BY <3>1, FiveIs, SMT
  <2>4. buffer = 32 * u + (x \div 8) /\ u \in Nat
    BY <2>2, SMT
  <2>5. 32 * (x \div 8) + (x % 8) * 4 = 4 * x /\ t \in 0..3 /\ x \in 0..255
    BY SMT DEF Byte
  <2> HIDE DEF u, f, t
  <2>6. v = 4 * (256 * u + x) + t /\ v \in Nat
    BY <2>3, <2>4, <2>5, SMT
  <2>7. v \div 4 = 256 * u + x /\ v % 4 = t
    <3> HIDE DEF v
    <3> QED BY <2>4, <2>5, <2>6, SMT
  <2>8. (256 * u + x) % 256 = x
    BY <2>4, <2>5, SMT
  <2>9. (b32_buffer(v) \div 4) % 256 = (v \div 4) % 256 /\ b32_buffer(v) % 4 = v % 4
    <3>1. v \in Nat /\ 4 \in {1, 2, 4, 8, 16}
      BY <2>6
    <3> HIDE DEF v
    <3> QED BY <3>1, ByteBits, ZenonT(60)
  <2>10. buffer * 2^5 + Five(b, x, y) = v
    BY <1>3, <2>1 DEF f
  <2> HIDE DEF v
  <2> QED BY <2>1, <2>7, <2>8, <2>9, <2>10, ZenonT(60) DEF t
<1>4. CASE b = 6
  <2> DEFINE u == buffer \div 64
             f == Five(6, x, y)
             t == y \div 32
             v == buffer * 32 + f
  <2>1. 2^b = 64 /\ 2^(8 - b) = 4 /\ 2^((b + 5) - 8) = 8 /\ 2^(8 - ((b + 5) - 8)) = 32 /\ 2^5 = 32 /\ 2^8 = 256
    <3>1. 2^6 = 64 /\ 2^(8 - 6) = 4 /\ 2^((6 + 5) - 8) = 8 /\ 2^(8 - ((6 + 5) - 8)) = 32 /\ 2^5 = 32 /\ 2^8 = 256
      BY SMT
    <3> QED BY <1>4, <3>1
  <2>2. buffer % 64 = x \div 4
    BY <2>1, SMT
  <2>3. f = (x % 4) * 8 + t
    <3>1. (x % 4) * 8 + t = (x % 4) * 8 + (y \div 32)
      BY SMT DEF Byte
    <3> QED BY <3>1, FiveIs, SMT
  <2>4. buffer = 64 * u + (x \div 4) /\ u \in Nat
    BY <2>2, SMT
  <2>5. 32 * (x \div 4) + (x % 4) * 8 = 8 * x /\ t \in 0..7 /\ x \in 0..255
    BY SMT DEF Byte
  <2> HIDE DEF u, f, t
  <2>6. v = 8 * (256 * u + x) + t /\ v \in Nat
    BY <2>3, <2>4, <2>5, SMT
  <2>7. v \div 8 = 256 * u + x /\ v % 8 = t
    <3> HIDE DEF v
    <3> QED BY <2>4, <2>5, <2>6, SMT
  <2>8. (256 * u + x) % 256 = x
    BY <2>4, <2>5, SMT
  <2>9. (b32_buffer(v) \div 8) % 256 = (v \div 8) % 256 /\ b32_buffer(v) % 8 = v % 8
    <3>1. v \in Nat /\ 8 \in {1, 2, 4, 8, 16}
      BY <2>6
    <3> HIDE DEF v
    <3> QED BY <3>1, ByteBits, ZenonT(60)
  <2>10. buffer * 2^5 + Five(b, x, y) = v
    BY <1>4, <2>1 DEF f
  <2> HIDE DEF v
  <2> QED BY <2>1, <2>7, <2>8, <2>9, <2>10, ZenonT(60) DEF t
<1>5. CASE b = 7
  <2> DEFINE u == buffer \div 128
             f == Five(7, x, y)
             t == y \div 16
             v == buffer * 32 + f
  <2>1. 2^b = 128 /\ 2^(8 - b) = 2 /\ 2^((b + 5) - 8) = 16 /\ 2^(8 - ((b + 5) - 8)) = 16 /\ 2^5 = 32 /\ 2^8 = 256
    <3>1. 2^7 = 128 /\ 2^(8 - 7) = 2 /\ 2^((7 + 5) - 8) = 16 /\ 2^(8 - ((7 + 5) - 8)) = 16 /\ 2^5 = 32 /\ 2^8 = 256
      BY SMT
    <3> QED BY <1>5, <3>1
  <2>2. buffer % 128 = x \div 2
    BY <2>1, SMT
  <2>3. f = (x % 2) * 16 + t
    <3>1. (x % 2) * 16 + t = (x % 2) * 16 + (y \div 16)
      BY SMT DEF Byte
    <3> QED BY <3>1, FiveIs, SMT
  <2>4. buffer = 128 * u + (x \div 2) /\ u \in Nat
    BY <2>2, SMT
  <2>5. 32 * (x \div 2) + (x % 2) * 16 = 16 * x /\ t \in 0..15 /\ x \in 0..255
    BY SMT DEF Byte
  <2> HIDE DEF u, f, t
  <2>6. v = 16 * (256 * u + x) + t /\ v \in Nat
    BY <2>3, <2>4, <2>5, SMT
  <2>7. v \div 16 = 256 * u + x /\ v % 16 = t
    <3> HIDE DEF v
    <3> QED BY <2>4, <2>5, <2>6, SMT
  <2>8. (256 * u + x) % 256 = x
    BY <2>4, <2>5, SMT
  <2>9. (b32_buffer(v) \div 16) % 256 = (v \div 16) % 256 /\ b32_buffer(v) % 16 = v % 16
    <3>1. v \in Nat /\ 16 \in {1, 2, 4, 8, 16}
      BY <2>6
    <3> HIDE DEF v
    <3> QED BY <3>1, ByteBits, ZenonT(60)
  <2>10. buffer * 2^5 + Five(b, x, y) = v
    BY <1>5, <2>1 DEF f
  <2> HIDE DEF v
  <2> QED BY <2>1, <2>7, <2>8, <2>9, <2>10, ZenonT(60) DEF t
<1>6. b = 3 \/ b = 4 \/ b = 5 \/ b = 6 \/ b = 7
  OBVIOUS
<1> QED
  BY <1>1, <1>2, <1>3, <1>4, <1>5, <1>6, Zenon

-----------------------------------------------------------------------------
(* The encoder.                                                            *)

(* How many digits n bytes need, and the five bits of each. *)
DigitCount(n) == (8 * n + 4) \div 5

(* The byte at a place, zero after the last one. *)
ByteAt(data, i) == IF i <= Len(data) THEN data[i] ELSE 0

(* The digit at a place: the first one is at 0. *)
Quint(data, k) == Five((5 * k) % 8, data[((5 * k) \div 8) + 1], ByteAt(data, ((5 * k) \div 8) + 2))

(* The digits, without the padding. *)
B32Char == ToSet(B32Digits)

(* What the loop of the encoder keeps. *)
EncState == [data : Seq(Byte), buffer : Nat, next : Nat, bitsLeft : Nat, encoded : Seq(B32Char)]

(* Numbers below 32 have digits, none of which is the padding. *)
LEMMA Base32Char ==
  /\ \A v \in 0..31 : B32Digits[v + 1] \in B32Char
  /\ \A v \in 0..31 : B32Digits[v + 1] # "="
<1>1. Len(B32Digits) = 32 /\ \A i \in 1..32 : B32Digits[i] # "="
  BY DEF B32Digits
<1>2. \A v \in 0..31 : v + 1 \in 1..32
  OBVIOUS
<1> QED
  BY <1>1, <1>2 DEF B32Char, ToSet

(* The five bits of a digit that is needed. *)
LEMMA QuintIs ==
  ASSUME NEW data \in Seq(Byte), NEW k \in Nat, 5 * k < 8 * Len(data)
  PROVE  /\ data[((5 * k) \div 8) + 1] \in Byte
         /\ ByteAt(data, ((5 * k) \div 8) + 2) \in Byte
         /\ Quint(data, k) \in 0..31
<1>1. ((5 * k) \div 8) + 1 \in 1..Len(data) /\ (5 * k) % 8 \in 0..7 /\ 0 \in Byte
  BY DEF Byte
<1>2. data[((5 * k) \div 8) + 1] \in Byte
  BY <1>1
<1>3. ByteAt(data, ((5 * k) \div 8) + 2) \in Byte
  <2>1. ((5 * k) \div 8) + 2 \in Nat \ {0}
    BY <1>1
  <2> QED BY <1>1, <2>1 DEF ByteAt
<1> QED
  BY <1>1, <1>2, <1>3, FiveBits DEF Quint

(* The digits put out so far. *)
DigitsOf(data, encoded, k) ==
  /\ encoded \in Seq(B32Char) /\ Len(encoded) = k
  /\ \A j \in 0..(k - 1) : encoded[j + 1] = B32Digits[Quint(data, j) + 1]

(* One digit more. *)
LEMMA OneMoreDigit ==
  ASSUME NEW data \in Seq(Byte), NEW k \in Nat, 5 * k < 8 * Len(data),
         NEW encoded, DigitsOf(data, encoded, k)
  PROVE  DigitsOf(data, Append(encoded, B32Digits[Quint(data, k) + 1]), k + 1)
<1> DEFINE e == B32Digits[Quint(data, k) + 1]
           more == Append(encoded, e)
<1>1. e \in B32Char
  BY QuintIs, Base32Char
<1> HIDE DEF e
<1>2. /\ encoded \in Seq(B32Char) /\ Len(encoded) = k
      /\ \A j \in 0..(k - 1) : encoded[j + 1] = B32Digits[Quint(data, j) + 1]
  BY DEF DigitsOf
<1>3. more \in Seq(B32Char) /\ Len(more) = k + 1 /\ more[k + 1] = e /\ \A i \in 1..k : more[i] = encoded[i]
  BY <1>1, <1>2
<1> HIDE DEF more
<1>4. ASSUME NEW j \in 0..((k + 1) - 1) PROVE more[j + 1] = B32Digits[Quint(data, j) + 1]
  <2>1. CASE j = k
    BY <1>3, <2>1 DEF e
  <2>2. CASE j # k
    <3>1. j \in 0..(k - 1) /\ j + 1 \in 1..k
      BY <2>2
    <3> QED BY <1>2, <1>3, <3>1
  <2> QED BY <2>1, <2>2
<1> QED
  BY <1>3, <1>4 DEF DigitsOf, more, e

(* Putting out a digit. *)
LEMMA PutOutParts ==
  ASSUME NEW t \in EncState, t.bitsLeft >= 5, NEW v \in 0..31, (t.buffer \div 2^(t.bitsLeft - 5)) % 32 = v
  PROVE  /\ B32PutOut(t) \in EncState
         /\ B32PutOut(t).data = t.data /\ B32PutOut(t).buffer = t.buffer /\ B32PutOut(t).next = t.next
         /\ B32PutOut(t).bitsLeft = t.bitsLeft - 5
         /\ B32PutOut(t).encoded = Append(t.encoded, B32Digits[v + 1])
<1> DEFINE d == B32Digits[v + 1]
           bits == t.bitsLeft - 5
           more == Append(t.encoded, d)
<1>1. d \in B32Char /\ B32Digit(t) = d
  BY Base32Char DEF B32Digit
<1> HIDE DEF d
<1>2. bits \in Nat /\ more \in Seq(B32Char)
  BY <1>1 DEF EncState
<1>3. B32PutOut(t) = [t EXCEPT !.bitsLeft = bits, !.encoded = more]
  BY <1>1 DEF B32PutOut
<1> HIDE DEF bits, more
<1> QED
  BY <1>2, <1>3 DEF EncState, bits, more, d

(* After the last byte, bits that are zero follow. *)
LEMMA PutOutLast ==
  ASSUME NEW b \in 4..7, NEW buffer \in Nat, NEW x \in Byte, buffer % 2^(8 - b) = x % 2^(8 - b)
  PROVE  (b32_buffer(buffer * 2^(b - 3)) \div 2^0) % 32 = Five(b, x, 0)
<1>1. 0 \in Byte
  BY DEF Byte
<1> QED
  BY <1>1, PutOutMore, Zenon

(* Where the loop is after k rounds: n bytes, of which next is the one to  *)
(* be taken in, and so many bits left of the last one taken in.            *)
Running(n, k, next, bits) ==
  next \in 2..(n + 1) /\ bits = 8 * (next - 1) - 5 * k /\ bits \in 0..8

(* The accumulator ends with the bits that are left. *)
Held(data, buffer, next, bits) == buffer % 2^bits = data[next - 1] % 2^bits

(* What the loop has put out and what it has left. *)
Progress(data, k, buffer, next, bits, encoded) ==
  IF 5 * k < 8 * Len(data)
    THEN /\ Running(Len(data), k, next, bits) /\ Held(data, buffer, next, bits)
         /\ DigitsOf(data, encoded, k)
    ELSE bits = 0 /\ next = Len(data) + 1 /\ DigitsOf(data, encoded, DigitCount(Len(data)))

(* The invariant of the loop of b32_encode. *)
EncAt(s, data, k) ==
  s \in EncState /\ s.data = data /\ Progress(data, k, s.buffer, s.next, s.bitsLeft, s.encoded)

(* What the next round starts with, once the digit was put out. *)
Left(data, k, buffer, next, bits) ==
  IF 5 * (k + 1) < 8 * Len(data)
    THEN Running(Len(data), k + 1, next, bits) /\ Held(data, buffer, next, bits)
    ELSE bits = 0 /\ next = Len(data) + 1

(* The last digit is the one at the count of them. *)
LEMMA LastDigit ==
  ASSUME NEW n \in Nat, NEW k \in Nat, 5 * k < 8 * n, ~(5 * (k + 1) < 8 * n)
  PROVE  DigitCount(n) = k + 1
<1>1. 8 * n + 4 = 5 * (k + 1) + (8 * n + 4 - 5 * (k + 1)) /\ 8 * n + 4 - 5 * (k + 1) \in 0..4
  OBVIOUS
<1> DEFINE r == 8 * n + 4 - 5 * (k + 1)
           v == 8 * n + 4
<1>2. v = 5 * (k + 1) + r /\ r \in 0..4
  BY <1>1
<1> HIDE DEF r, v
<1>3. v \div 5 = k + 1
  BY <1>2
<1> QED
  BY <1>3 DEF DigitCount, v

(* Where the digit is, when there are enough bits for it. *)
LEMMA FewPlace ==
  ASSUME NEW n \in Nat, NEW k \in Nat, NEW next \in Nat, NEW bits \in Nat,
         5 * k < 8 * n, Running(n, k, next, bits), bits >= 5
  PROVE  /\ ((5 * k) \div 8) + 1 = next - 1 /\ (5 * k) % 8 = 8 - bits /\ 8 - bits \in 0..3
         /\ IF 5 * (k + 1) < 8 * n THEN Running(n, k + 1, next, bits - 5) ELSE bits = 5 /\ next = n + 1
<1>1. next \in 2..(n + 1) /\ bits = 8 * (next - 1) - 5 * k /\ bits \in 5..8
  BY DEF Running
<1> DEFINE v == 5 * k
           q == next - 2
           r == 8 - bits
<1>2. v = 8 * q + r /\ q \in Nat /\ r \in 0..3 /\ next - 1 = q + 1
  BY <1>1
<1>3. v \div 8 = q /\ v % 8 = r
  <2> HIDE DEF v, q, r
  <2> QED BY <1>2
<1>4. IF 5 * (k + 1) < 8 * n
        THEN next \in 2..(n + 1) /\ bits - 5 = 8 * (next - 1) - 5 * (k + 1) /\ bits - 5 \in 0..8
        ELSE bits = 5 /\ next = n + 1
  BY <1>1
<1> QED
  BY <1>2, <1>3, <1>4 DEF Running

(* Where the digit is, when there are not. *)
LEMMA MorePlace ==
  ASSUME NEW n \in Nat, NEW k \in Nat, NEW next \in Nat, NEW bits \in Nat,
         5 * k < 8 * n, Running(n, k, next, bits), bits < 5
  PROVE  /\ bits = 0 => ((5 * k) \div 8) + 1 = next /\ (5 * k) % 8 = 0 /\ next <= n
         /\ bits # 0 => ((5 * k) \div 8) + 1 = next - 1 /\ (5 * k) % 8 = 8 - bits /\ 8 - bits \in 4..7
         /\ next <= n => 5 * (k + 1) < 8 * n /\ Running(n, k + 1, next + 1, bits + 3)
         /\ next > n => next = n + 1 /\ ~(5 * (k + 1) < 8 * n) /\ bits \in 1..4
<1>1. next \in 2..(n + 1) /\ bits = 8 * (next - 1) - 5 * k /\ bits \in 0..4
  BY DEF Running
<1> DEFINE v == 5 * k
           q == next - 2
           r == 8 - bits
<1>2. v = 8 * q + r /\ q \in Nat /\ r \in 4..8 /\ next - 1 = q + 1 /\ next = (q + 1) + 1
  BY <1>1
<1>3. (r = 8 => v \div 8 = q + 1 /\ v % 8 = 0) /\ (r # 8 => v \div 8 = q /\ v % 8 = r)
  <2> HIDE DEF v, q, r
  <2> QED BY <1>2
<1>4. /\ next <= n => /\ 5 * (k + 1) < 8 * n /\ next + 1 \in 2..(n + 1)
                      /\ bits + 3 = 8 * ((next + 1) - 1) - 5 * (k + 1) /\ bits + 3 \in 0..8
      /\ next > n => next = n + 1 /\ ~(5 * (k + 1) < 8 * n) /\ bits \in 1..4
      /\ bits = 0 => next <= n
  BY <1>1
<1>5. (bits = 0 <=> r = 8) /\ (bits # 0 => r \in 4..7)
  BY <1>1
<1> HIDE DEF v
<1> QED
  BY <1>2, <1>3, <1>4, <1>5 DEF Running, v

(* The bits for the next digit are there, in t: the digit is put out. *)
LEMMA DigitPutOut ==
  ASSUME NEW data \in Seq(Byte), NEW k \in Nat, 5 * k < 8 * Len(data), NEW t \in EncState,
         t.data = data, DigitsOf(data, t.encoded, k), t.bitsLeft >= 5,
         (t.buffer \div 2^(t.bitsLeft - 5)) % 32 = Quint(data, k),
         Left(data, k, t.buffer, t.next, t.bitsLeft - 5)
  PROVE  EncAt(B32PutOut(t), data, k + 1)
<1> DEFINE s == B32PutOut(t)
           n == Len(data)
<1>1. /\ s \in EncState /\ s.data = data /\ s.buffer = t.buffer /\ s.next = t.next /\ s.bitsLeft = t.bitsLeft - 5
      /\ s.encoded = Append(t.encoded, B32Digits[Quint(data, k) + 1])
  <2>1. Quint(data, k) \in 0..31
    BY QuintIs
  <2> QED BY <2>1, PutOutParts
<1>2. DigitsOf(data, s.encoded, k + 1)
  BY <1>1, OneMoreDigit
<1>3. ~(5 * (k + 1) < 8 * n) => DigitCount(n) = k + 1
  <2>1. n \in Nat
    OBVIOUS
  <2> HIDE DEF n
  <2>2. 5 * k < 8 * n
    BY DEF n
  <2> QED BY <2>1, <2>2, LastDigit
<1> HIDE DEF s
<1>4. CASE 5 * (k + 1) < 8 * n
  <2>1. Running(n, k + 1, t.next, t.bitsLeft - 5) /\ Held(data, t.buffer, t.next, t.bitsLeft - 5)
    BY <1>4, Zenon DEF Left
  <2>2. Progress(data, k + 1, t.buffer, t.next, t.bitsLeft - 5, s.encoded)
    BY <1>2, <1>4, <2>1, Zenon DEF Progress
  <2> QED BY <1>1, <2>2, Zenon DEF EncAt, s
<1>5. CASE ~(5 * (k + 1) < 8 * n)
  <2>1. t.bitsLeft - 5 = 0 /\ t.next = n + 1
    BY <1>5, Zenon DEF Left
  <2>2. Progress(data, k + 1, t.buffer, t.next, t.bitsLeft - 5, s.encoded)
    BY <1>2, <1>3, <1>5, <2>1, Zenon DEF Progress
  <2> QED BY <1>1, <2>2, Zenon DEF EncAt, s
<1> QED
  BY <1>4, <1>5 DEF s

(* The state of a round that puts out a digit, its parts by name. *)
Round(s, data, n, k, buffer, next, bits) ==
  /\ n = Len(data) /\ 5 * k < 8 * n
  /\ s \in EncState /\ s.data = data /\ s.buffer = buffer /\ s.next = next /\ s.bitsLeft = bits
  /\ Running(n, k, next, bits) /\ Held(data, buffer, next, bits)
  /\ DigitsOf(data, s.encoded, k)

(* Enough bits are left. *)
LEMMA RoundOfFew ==
  ASSUME NEW data \in Seq(Byte), NEW n \in Nat, NEW k \in Nat, NEW s, NEW buffer \in Nat, NEW next \in Nat,
         NEW bits \in Nat, Round(s, data, n, k, buffer, next, bits), bits >= 5
  PROVE  EncAt(B32PutOut(B32Filled(s)), data, k + 1)
<1> DEFINE b == 8 - bits
           x == data[next - 1]
           y == ByteAt(data, ((5 * k) \div 8) + 2)
<1>1. /\ n = Len(data) /\ 5 * k < 8 * n /\ 5 * k < 8 * Len(data)
      /\ s \in EncState /\ s.data = data /\ s.buffer = buffer /\ s.next = next /\ s.bitsLeft = bits
      /\ Running(n, k, next, bits) /\ Held(data, buffer, next, bits)
      /\ DigitsOf(data, s.encoded, k)
  BY Zenon DEF Round
<1>2. B32Filled(s) = s
  <2>1. ~(s.bitsLeft < 5) /\ s.bitsLeft >= 5
    BY <1>1
  <2> QED BY <2>1, Zenon DEF B32Filled
<1>3. /\ ((5 * k) \div 8) + 1 = next - 1 /\ (5 * k) % 8 = b /\ b \in 0..3
      /\ IF 5 * (k + 1) < 8 * n THEN Running(n, k + 1, next, bits - 5) ELSE bits = 5 /\ next = n + 1
  BY <1>1, FewPlace
<1>4. 8 - b = bits /\ 3 - b = bits - 5
  OBVIOUS
<1>5. x \in Byte /\ y \in Byte /\ Quint(data, k) = Five(b, x, y)
  <2>1. data[((5 * k) \div 8) + 1] \in Byte /\ y \in Byte
    BY <1>1, QuintIs, Zenon
  <2> QED BY <1>3, <2>1, Zenon DEF Quint
<1>6. (buffer \div 2^(bits - 5)) % 32 = Five(b, x, y) /\ buffer % 2^(bits - 5) = x % 2^(bits - 5)
  <2>1. buffer % 2^(8 - b) = x % 2^(8 - b)
    BY <1>1, <1>4, Zenon DEF Held
  <2> HIDE DEF b, x, y
  <2>2. (buffer \div 2^(3 - b)) % 32 = Five(b, x, y) /\ buffer % 2^(3 - b) = x % 2^(3 - b)
    BY <1>3, <1>5, <2>1, PutOutFew
  <2> QED BY <1>4, <2>2, Zenon
<1>7. Left(data, k, buffer, next, bits - 5)
  <2>1. Held(data, buffer, next, bits - 5)
    BY <1>6, Zenon DEF Held
  <2>2. bits = 5 => bits - 5 = 0
    OBVIOUS
  <2> QED BY <1>1, <1>3, <2>1, <2>2, Zenon DEF Left
<1>8. (buffer \div 2^(bits - 5)) % 32 = Quint(data, k)
  BY <1>5, <1>6, Zenon
<1>9. s.bitsLeft >= 5 /\ (s.buffer \div 2^(s.bitsLeft - 5)) % 32 = Quint(data, k)
      /\ Left(data, k, s.buffer, s.next, s.bitsLeft - 5)
  BY <1>1, <1>7, <1>8, Zenon
<1> QED
  BY <1>1, <1>2, <1>9, DigitPutOut, Zenon

(* Taking in a byte. *)
Takes(s, t, x, next, bits) == t = [s EXCEPT !.buffer = x, !.next = next, !.bitsLeft = bits]

(* The state after it. *)
LEMMA TakenIn ==
  ASSUME NEW s \in EncState, NEW x \in Nat, NEW next \in Nat, NEW bits \in Nat,
         NEW t, Takes(s, t, x, next, bits)
  PROVE  t \in EncState /\ t.data = s.data /\ t.encoded = s.encoded /\ t.buffer = x /\ t.next = next /\ t.bitsLeft = bits
BY DEF EncState, Takes

(* The last byte of the accumulator is what was taken in. *)
LEMMA LowByte ==
  ASSUME NEW v \in Nat
  PROVE  b32_buffer(v) \in Nat /\ b32_buffer(v) % 256 = v % 256
BY SixteenBits, ZenonT(60)

(* The bits of a byte and of the one after it, in the accumulator. *)
ByteHeld(b, buffer, x) == b # 0 => x \in Byte /\ buffer % 2^(8 - b) = x % 2^(8 - b)

(* The next digit is at its place, the rest of the byte behind it. *)
BytesHeld(b, v, x, y, z) ==
  /\ v \in Nat
  /\ b = 0 => (v \div 2^3) % 32 = Five(0, y, z) /\ v % 2^3 = y % 2^3
  /\ b # 0 => (v \div 2^(11 - b)) % 32 = Five(b, x, y) /\ v % 2^(11 - b) = y % 2^(11 - b)

(* A byte that is taken in makes the next digit. *)
LEMMA TwoBytes ==
  ASSUME NEW b \in {0} \cup 4..7, NEW buffer \in Nat, NEW x, NEW y \in Byte, NEW z \in Byte,
         ByteHeld(b, buffer, x)
  PROVE  BytesHeld(b, b32_buffer(buffer * 2^8 + y), x, y, z)
<1> DEFINE u == buffer * 2^8 + y
           v == b32_buffer(u)
<1>1. u \in Nat /\ u = 256 * buffer + y /\ y \in 0..255
  BY Powers DEF Byte
<1>2. u % 256 = y /\ y % 256 = y
  <2> HIDE DEF u
  <2> QED BY <1>1
<1> HIDE DEF u
<1>3. v \in Nat /\ v % 256 = y % 256
  <2>1. b32_buffer(u) \in Nat /\ b32_buffer(u) % 256 = u % 256
    BY <1>1, LowByte
  <2> QED BY <1>2, <2>1, Zenon
<1> HIDE DEF v
<1>4. CASE b = 0
  <2>1. 2^(8 - 0) = 256 /\ 2^(3 - 0) = 2^3 /\ 0 \in 0..3
    BY Shifts, Powers
  <2>2. v % 2^(8 - 0) = y % 2^(8 - 0)
    BY <1>3, <2>1, Zenon
  <2>3. (v \div 2^(3 - 0)) % 32 = Five(0, y, z) /\ v % 2^(3 - 0) = y % 2^(3 - 0)
    <3> DEFINE c == 0
    <3>1. c \in 0..3 /\ v \in Nat /\ v % 2^(8 - c) = y % 2^(8 - c)
      BY <1>3, <2>1, <2>2, Zenon
    <3> HIDE DEF c
    <3>2. (v \div 2^(3 - c)) % 32 = Five(c, y, z) /\ v % 2^(3 - c) = y % 2^(3 - c)
      BY <3>1, PutOutFew, ZenonT(60)
    <3> QED BY <3>2, Zenon DEF c
  <2> QED BY <1>3, <1>4, <2>1, <2>3, Zenon DEF BytesHeld, u, v
<1>5. CASE b # 0
  <2>1. b \in 4..7 /\ x \in Byte /\ buffer % 2^(8 - b) = x % 2^(8 - b)
    BY <1>5, Zenon DEF ByteHeld
  <2>2. (v \div 2^(11 - b)) % 32 = Five(b, x, y) /\ v % 2^(11 - b) = y % 2^(11 - b)
    BY <2>1, PutOutMore, Zenon DEF u, v
  <2> QED BY <1>3, <1>5, <2>2, Zenon DEF BytesHeld, u, v
<1> QED
  BY <1>4, <1>5, Zenon

(* A byte is taken in. *)
LEMMA RoundOfByte ==
  ASSUME NEW data \in Seq(Byte), NEW n \in Nat, NEW k \in Nat, NEW s, NEW buffer \in Nat, NEW next \in Nat,
         NEW bits \in Nat, Round(s, data, n, k, buffer, next, bits), bits < 5, next <= n
  PROVE  EncAt(B32PutOut(B32Filled(s)), data, k + 1)
<1> DEFINE b == (5 * k) % 8
           x == data[next - 1]
           y == data[next]
           z == ByteAt(data, ((5 * k) \div 8) + 2)
           v == b32_buffer(buffer * 2^8 + y)
           t == [s EXCEPT !.buffer = v, !.next = next + 1, !.bitsLeft = bits + 8]
<1>1. /\ n = Len(data) /\ 5 * k < 8 * n /\ 5 * k < 8 * Len(data)
      /\ s \in EncState /\ s.data = data /\ s.buffer = buffer /\ s.next = next /\ s.bitsLeft = bits
      /\ Running(n, k, next, bits) /\ Held(data, buffer, next, bits)
      /\ DigitsOf(data, s.encoded, k)
  BY Zenon DEF Round
<1>2. /\ bits = 0 => ((5 * k) \div 8) + 1 = next /\ b = 0
      /\ bits # 0 => ((5 * k) \div 8) + 1 = next - 1 /\ b = 8 - bits /\ 8 - bits \in 4..7
      /\ 5 * (k + 1) < 8 * n /\ Running(n, k + 1, next + 1, bits + 3)
  BY <1>1, MorePlace
<1>3. y \in Byte /\ z \in Byte /\ (bits # 0 => x \in Byte)
  <2>1. next \in 2..n
    BY <1>1 DEF Running
  <2>2. next \in 1..Len(data) /\ next - 1 \in 1..Len(data)
    BY <1>1, <2>1
  <2>3. z \in Byte
    BY <1>1, QuintIs, Zenon
  <2> HIDE DEF z
  <2> QED BY <2>2, <2>3
<1>4. /\ v \in Nat
      /\ b = 0 => (v \div 2^3) % 32 = Five(0, y, z) /\ v % 2^3 = y % 2^3
      /\ b # 0 => (v \div 2^(11 - b)) % 32 = Five(b, x, y) /\ v % 2^(11 - b) = y % 2^(11 - b)
  <2>1. b \in {0} \cup 4..7 /\ (b # 0 => bits # 0)
    BY <1>2
  <2>2. b # 0 => 8 - b = bits
    BY <1>2, <2>1
  <2>3. ByteHeld(b, buffer, x)
    BY <1>1, <1>3, <2>1, <2>2, Zenon DEF Held, ByteHeld
  <2> HIDE DEF b, x, y, z
  <2>4. BytesHeld(b, v, x, y, z)
    BY <1>3, <2>1, <2>3, TwoBytes, Zenon
  <2> HIDE DEF v
  <2> QED BY <2>4, Zenon DEF BytesHeld
<1>5. (v \div 2^(bits + 3)) % 32 = Quint(data, k) /\ v % 2^(bits + 3) = y % 2^(bits + 3)
  <2> HIDE DEF v
  <2>1. CASE bits = 0
    <3>1. bits + 3 = 3
      BY <2>1
    <3> QED BY <1>2, <1>4, <2>1, <3>1, Zenon DEF Quint
  <2>2. CASE bits # 0
    <3>1. bits + 3 = 11 - b /\ b # 0
      BY <1>2, <2>2
    <3>2. ByteAt(data, ((5 * k) \div 8) + 2) = y
      <4>1. ((5 * k) \div 8) + 2 = next
        BY <1>2, <2>2
      <4> QED BY <1>1, <4>1, Zenon DEF ByteAt
    <3> QED BY <1>2, <1>4, <2>2, <3>1, <3>2, Zenon DEF Quint
  <2> QED BY <2>1, <2>2
<1>6. B32Filled(s) = t
  <2>1. ~(bits >= 5)
    OBVIOUS
  <2> QED BY <1>1, <2>1, Zenon DEF B32Filled
<1>7. /\ t \in EncState /\ t.data = data /\ t.encoded = s.encoded /\ t.buffer = v
      /\ t.next = next + 1 /\ t.bitsLeft = bits + 8
  <2>1. next + 1 \in Nat /\ bits + 8 \in Nat
    OBVIOUS
  <2> HIDE DEF v
  <2>2. Takes(s, t, v, next + 1, bits + 8)
    BY DEF Takes
  <2> HIDE DEF t
  <2>3. t \in EncState /\ t.data = s.data /\ t.encoded = s.encoded /\ t.buffer = v /\ t.next = next + 1 /\ t.bitsLeft = bits + 8
    <3>1. s \in EncState /\ v \in Nat /\ next + 1 \in Nat /\ bits + 8 \in Nat
      BY <1>1, <1>4, <2>1
    <3> QED BY <2>2, <3>1, TakenIn
  <2> QED BY <1>1, <2>3, Zenon
<1> HIDE DEF t, v, y
<1>8. (bits + 8) - 5 = bits + 3 /\ bits + 8 >= 5 /\ (next + 1) - 1 = next
  OBVIOUS
<1>9. Left(data, k, v, next + 1, bits + 3)
  BY <1>1, <1>2, <1>5, <1>8, Zenon DEF Left, Held, y
<1>10. t.bitsLeft >= 5 /\ (t.buffer \div 2^(t.bitsLeft - 5)) % 32 = Quint(data, k)
       /\ Left(data, k, t.buffer, t.next, t.bitsLeft - 5)
  BY <1>5, <1>7, <1>8, <1>9, Zenon
<1>11. DigitsOf(data, t.encoded, k)
  BY <1>1, <1>7, Zenon
<1> QED
  BY <1>1, <1>6, <1>7, <1>10, <1>11, DigitPutOut, Zenon

(* The last byte was taken in: padding bits are. *)
LEMMA RoundOfPadding ==
  ASSUME NEW data \in Seq(Byte), NEW n \in Nat, NEW k \in Nat, NEW s, NEW buffer \in Nat, NEW next \in Nat,
         NEW bits \in Nat, Round(s, data, n, k, buffer, next, bits), bits < 5, next > n
  PROVE  EncAt(B32PutOut(B32Filled(s)), data, k + 1)
<1> DEFINE b == 8 - bits
           x == data[next - 1]
           v == b32_buffer(buffer * 2^(5 - bits))
           t == [s EXCEPT !.buffer = v, !.next = next, !.bitsLeft = 5]
<1>1. /\ n = Len(data) /\ 5 * k < 8 * n /\ 5 * k < 8 * Len(data)
      /\ s \in EncState /\ s.data = data /\ s.buffer = buffer /\ s.next = next /\ s.bitsLeft = bits
      /\ Running(n, k, next, bits) /\ Held(data, buffer, next, bits)
      /\ DigitsOf(data, s.encoded, k)
  BY Zenon DEF Round
<1>2. /\ next = n + 1 /\ ~(5 * (k + 1) < 8 * n) /\ bits \in 1..4
      /\ ((5 * k) \div 8) + 1 = next - 1 /\ (5 * k) % 8 = b /\ b \in 4..7
  BY <1>1, MorePlace
<1>3. x \in Byte
  <2>1. next - 1 \in 1..Len(data)
    BY <1>1, <1>2 DEF Running
  <2> QED BY <2>1
<1>4. 8 - b = bits /\ b - 3 = 5 - bits /\ 0 \in Byte
  BY <1>2 DEF Byte
<1>5. v \in Nat
  <2> DEFINE e == 5 - bits
             p == 2^e
  <2>1. e = 1 \/ e = 2 \/ e = 3 \/ e = 4
    BY <1>2
  <2> HIDE DEF e
  <2>2. p = 2 \/ p = 4 \/ p = 8 \/ p = 16
    <3>1. CASE e = 1
      BY <3>1, Powers
    <3>2. CASE e = 2
      BY <3>2, Powers
    <3>3. CASE e = 3
      BY <3>3, Powers
    <3>4. CASE e = 4
      BY <3>4, Powers
    <3> QED BY <2>1, <3>1, <3>2, <3>3, <3>4, Zenon
  <2> HIDE DEF p
  <2>3. buffer * p \in Nat
    BY <2>2
  <2> QED BY <2>3, SixteenBits DEF p, e
<1>6. (v \div 2^0) % 32 = Quint(data, k)
  <2>1. buffer % 2^(8 - b) = x % 2^(8 - b)
    BY <1>1, <1>4, Zenon DEF Held
  <2>2. v = b32_buffer(buffer * 2^(b - 3))
    BY <1>4, Zenon
  <2>3. ByteAt(data, ((5 * k) \div 8) + 2) = 0
    <3>1. ((5 * k) \div 8) + 2 = n + 1 /\ ~(n + 1 <= n)
      BY <1>2
    <3> QED BY <1>1, <3>1, Zenon DEF ByteAt
  <2> HIDE DEF b, x, v
  <2>4. (v \div 2^0) % 32 = Five(b, x, 0)
    BY <1>2, <1>3, <2>1, <2>2, PutOutLast, Zenon
  <2>5. Quint(data, k) = Five(b, x, 0)
    BY <1>2, <2>3, Zenon DEF Quint, x
  <2> QED BY <2>4, <2>5, Zenon
<1>7. B32Filled(s) = t
  <2>1. ~(bits >= 5) /\ ~(next <= n)
    OBVIOUS
  <2>2. B32Filled(s) = [s EXCEPT !.buffer = v, !.bitsLeft = 5]
    BY <1>1, <2>1, Zenon DEF B32Filled
  <2> HIDE DEF v
  <2>3. [s EXCEPT !.buffer = v, !.bitsLeft = 5] = [s EXCEPT !.buffer = v, !.next = next, !.bitsLeft = 5]
    BY <1>1 DEF EncState
  <2> QED BY <2>2, <2>3, Zenon
<1>8. /\ t \in EncState /\ t.data = data /\ t.encoded = s.encoded /\ t.buffer = v
      /\ t.next = next /\ t.bitsLeft = 5
  <2> HIDE DEF v
  <2>1. Takes(s, t, v, next, 5)
    BY DEF Takes
  <2>2. 5 \in Nat
    OBVIOUS
  <2> HIDE DEF t
  <2>3. t \in EncState /\ t.data = s.data /\ t.encoded = s.encoded /\ t.buffer = v /\ t.next = next /\ t.bitsLeft = 5
    <3>1. s \in EncState /\ v \in Nat /\ next \in Nat
      BY <1>1, <1>5
    <3> QED BY <2>1, <2>2, <3>1, TakenIn
  <2> QED BY <1>1, <2>3, Zenon
<1> HIDE DEF t, v
<1>9. 5 - 5 = 0 /\ 5 >= 5
  OBVIOUS
<1>10. Left(data, k, v, next, 0)
  BY <1>1, <1>2, Zenon DEF Left
<1>11. t.bitsLeft >= 5 /\ (t.buffer \div 2^(t.bitsLeft - 5)) % 32 = Quint(data, k)
       /\ Left(data, k, t.buffer, t.next, t.bitsLeft - 5)
  BY <1>6, <1>8, <1>9, <1>10, Zenon
<1>12. DigitsOf(data, t.encoded, k)
  BY <1>1, <1>8, Zenon
<1> QED
  BY <1>1, <1>7, <1>8, <1>11, <1>12, DigitPutOut, Zenon

(* One round of the loop keeps the invariant. *)
LEMMA RoundKeeps ==
  ASSUME NEW data \in Seq(Byte), NEW k \in Nat, NEW s, NEW i, EncAt(s, data, k)
  PROVE  EncAt(B32EncodeStep(s, i), data, k + 1)
<1> DEFINE n == Len(data)
           buffer == s.buffer
           next == s.next
           bits == s.bitsLeft
<1>1. n \in Nat /\ s \in EncState /\ s.data = data /\ bits \in Nat /\ buffer \in Nat /\ next \in Nat
  BY DEF EncAt, EncState
<1>2. Progress(data, k, buffer, next, bits, s.encoded)
  BY Zenon DEF EncAt
<1> HIDE DEF n, buffer, next, bits
<1>3. CASE ~(5 * k < 8 * n)
  <2>1. bits = 0 /\ next = n + 1 /\ DigitsOf(data, s.encoded, DigitCount(n))
    BY <1>2, <1>3, Zenon DEF Progress, n
  <2>2. ~(bits > 0) /\ ~(next <= n)
    BY <1>1, <2>1
  <2>3. B32EncodeStep(s, i) = s
    BY <1>1, <2>2, Zenon DEF B32EncodeStep, n, bits, next
  <2>4. ~(5 * (k + 1) < 8 * n)
    BY <1>1, <1>3
  <2>5. Progress(data, k + 1, buffer, next, bits, s.encoded)
    BY <2>1, <2>4, Zenon DEF Progress, n
  <2> QED BY <1>1, <2>3, <2>5, Zenon DEF EncAt, buffer, next, bits
<1>4. CASE 5 * k < 8 * n
  <2>1. Round(s, data, n, k, buffer, next, bits)
    BY <1>1, <1>2, <1>4, Zenon DEF Round, Progress, n, buffer, next, bits
  <2>2. B32EncodeStep(s, i) = B32PutOut(B32Filled(s))
    <3>1. bits > 0 \/ next <= n
      <4>1. Running(n, k, next, bits)
        BY <2>1, Zenon DEF Round
      <4> QED BY <1>1, <1>4, <4>1 DEF Running
    <3> QED BY <1>1, <3>1, Zenon DEF B32EncodeStep, n, bits, next
  <2>3. CASE bits >= 5
    BY <1>1, <2>1, <2>2, <2>3, RoundOfFew, Zenon
  <2>4. CASE bits < 5 /\ next <= n
    BY <1>1, <2>1, <2>2, <2>4, RoundOfByte, Zenon
  <2>5. CASE bits < 5 /\ next > n
    BY <1>1, <2>1, <2>2, <2>5, RoundOfPadding, Zenon
  <2> QED BY <1>1, <2>3, <2>4, <2>5
<1> QED
  BY <1>3, <1>4

(* The loop is a fold, of which FoldFacts says what it computes. *)
LEMMA EncodeFolds == \A start, s : FoldLeft(B32EncodeStep, start, s) = Enc!Fold(start, s)
BY DEF Enc!Fold, FoldLeft, MapThenFoldSet, Max, Enc!FoldLeft, Enc!MapThenFoldSet, Enc!Max

(* Bytes are numbers. *)
LEMMA ByteIsNat == \A x \in Byte : x \in Nat
BY DEF Byte

(* Before the first round. *)
EncStart(data) == [data |-> data, buffer |-> data[1], next |-> 2, bitsLeft |-> 8, encoded |-> <<>>]

(* As many rounds as the buffer has room for, and not fewer than digits. *)
LEMMA RoundsEncode ==
  ASSUME NEW data \in Seq(Byte), data # <<>>, NEW size \in Nat, DigitCount(Len(data)) <= size
  PROVE  DigitsOf(data, FoldLeft(B32EncodeStep, EncStart(data), [i \in 1..size |-> i]).encoded, DigitCount(Len(data)))
<1> DEFINE n == Len(data)
           start == EncStart(data)
           s == [i \in 1..size |-> i]
<1>1. n \in Nat \ {0} /\ data[1] \in Byte /\ data[1] \in Nat
  <2>1. n \in Nat \ {0}
    OBVIOUS
  <2>2. data[1] \in Byte
    BY <2>1
  <2>3. data[1] \in Nat
    BY <2>2, ByteIsNat
  <2> QED BY <2>1, <2>2, <2>3
<1>2. EncAt(start, data, 0)
  <2>1. start \in EncState
    BY <1>1 DEF EncState, EncStart
  <2>2. /\ start.data = data /\ start.next = 2 /\ start.bitsLeft = 8 /\ start.buffer = data[1] /\ start.encoded = <<>>
    BY DEF EncStart
  <2>3. DigitsOf(data, <<>>, 0)
    BY DEF DigitsOf
  <2>4. Running(n, 0, 2, 8) /\ 2 - 1 = 1 /\ 5 * 0 < 8 * n
    <3>1. 2 \in 2..(n + 1) /\ 8 = 8 * (2 - 1) - 5 * 0 /\ 8 \in 0..8 /\ 2 - 1 = 1 /\ 5 * 0 < 8 * n
      BY <1>1
    <3> QED BY <3>1, Zenon DEF Running
  <2> HIDE DEF start
  <2>5. Held(data, data[1], 2, 8)
    BY <2>4, Zenon DEF Held
  <2>6. Progress(data, 0, data[1], 2, 8, <<>>)
    BY <2>3, <2>4, <2>5, Zenon DEF Progress
  <2> QED BY <2>1, <2>2, <2>6, Zenon DEF EncAt
<1>3. s \in Seq(Nat) /\ Len(s) = size
  OBVIOUS
<1> HIDE DEF s, start
<1>4. PICK f : Enc!Steps(start, s, f) /\ Enc!Fold(start, s) = f[Len(s)]
  BY <1>3, Enc!FoldSteps
<1> DEFINE S == {m \in Nat : m <= size => EncAt(f[m], data, m)}
<1>5. 0 \in S
  BY <1>2, <1>4 DEF Enc!Steps
<1>6. ASSUME NEW m \in S PROVE m + 1 \in S
  <2> SUFFICES ASSUME m + 1 <= size PROVE EncAt(f[m + 1], data, m + 1)
    OBVIOUS
  <2>1. m \in Nat /\ m + 1 \in 1..Len(s) /\ (m + 1) - 1 = m /\ EncAt(f[m], data, m)
    BY <1>3
  <2>2. f[m + 1] = B32EncodeStep(f[m], s[m + 1])
    BY <1>4, <2>1 DEF Enc!Steps
  <2> QED BY <2>1, <2>2, RoundKeeps
<1>7. S = Nat
  <2> HIDE DEF S
  <2>1. S \in SUBSET Nat
    BY DEF S
  <2> QED BY <1>5, <1>6, <2>1, Enc!Induction
<1>8. EncAt(f[size], data, size)
  BY <1>7
<1>9. ~(5 * size < 8 * n)
  <2> DEFINE k == DigitCount(n)
  <2>1. k \in Nat /\ 5 * k >= 8 * n /\ k <= size
    BY <1>1 DEF DigitCount
  <2> HIDE DEF k, n
  <2> QED BY <1>1, <2>1
<1>10. DigitsOf(data, f[size].encoded, DigitCount(n))
  BY <1>8, <1>9, Zenon DEF EncAt, Progress
<1> QED
  BY <1>3, <1>4, <1>10, EncodeFolds DEF start, s

(* A text that encodes data, padded or not. *)
Encodes(text, data) ==
  /\ text \in Seq(B32Char \cup {"="}) /\ Len(text) >= DigitCount(Len(data))
  /\ \A j \in 0..(DigitCount(Len(data)) - 1) : text[j + 1] = B32Digits[Quint(data, j) + 1]
  /\ \A i \in (DigitCount(Len(data)) + 1)..Len(text) : text[i] = "="

(* What the encoder makes of data, in a buffer with room for its digits. *)
LEMMA Base32Encodes ==
  ASSUME NEW data \in Seq(Byte), data # <<>>, NEW size \in Nat, DigitCount(Len(data)) <= size
  PROVE  /\ Encodes(b32_encode(data, size), data)
         /\ Len(b32_encode(data, size)) = DigitCount(Len(data)) + b32_padding(DigitCount(Len(data)), size)
<1> DEFINE n == Len(data)
           k == DigitCount(n)
           digits == FoldLeft(B32EncodeStep, EncStart(data), [i \in 1..size |-> i]).encoded
           pad == b32_padding(k, size)
           tail == [i \in 1..pad |-> "="]
           text == b32_encode(data, size)
<1>1. n \in Nat /\ k \in Nat
  BY DEF DigitCount
<1>2. DigitsOf(data, digits, k)
  BY RoundsEncode
<1>3. pad \in Nat
  <2> HIDE DEF k
  <2> QED BY <1>1 DEF b32_padding
<1>4. text = digits \o [i \in 1..b32_padding(Len(digits), size) |-> "="]
  <2> HIDE DEF n, k
  <2> QED BY Zenon DEF b32_encode, EncStart
<1> HIDE DEF digits, k, n, pad, text
<1>5. /\ digits \in Seq(B32Char) /\ Len(digits) = k
      /\ \A j \in 0..(k - 1) : digits[j + 1] = B32Digits[Quint(data, j) + 1]
  BY <1>2 DEF DigitsOf
<1>6. text = digits \o tail
  BY <1>4, <1>5 DEF pad
<1>7. tail \in Seq(B32Char \cup {"="}) /\ Len(tail) = pad /\ \A i \in 1..pad : tail[i] = "="
  BY <1>3
<1> HIDE DEF tail
<1> DEFINE C == B32Char \cup {"="}
<1>8. digits \in Seq(C)
  BY <1>5
<1>9. /\ text \in Seq(C) /\ Len(text) = k + pad
      /\ \A i \in 1..k : text[i] = digits[i]
      /\ \A i \in (k + 1)..(k + pad) : i - k \in 1..pad /\ text[i] = tail[i - k]
  <2> DEFINE both == digits \o tail
  <2>1. digits \in Seq(C) /\ tail \in Seq(C)
    BY <1>7, <1>8
  <2> HIDE DEF C
  <2>2. /\ both \in Seq(C) /\ Len(both) = Len(digits) + Len(tail)
        /\ \A i \in 1..Len(digits) : both[i] = digits[i]
        /\ \A i \in 1..Len(both) : i > Len(digits) => i - Len(digits) \in 1..Len(tail) /\ both[i] = tail[i - Len(digits)]
    BY <2>1
  <2>3. text = both
    BY <1>6
  <2> HIDE DEF both
  <2>4. \A i \in (k + 1)..(k + pad) : i - k \in 1..pad /\ text[i] = tail[i - k]
    <3> SUFFICES ASSUME NEW i \in (k + 1)..(k + pad) PROVE i - k \in 1..pad /\ text[i] = tail[i - k]
      OBVIOUS
    <3>1. i \in 1..Len(both) /\ i > Len(digits)
      BY <1>1, <1>3, <1>5, <1>7, <2>2
    <3> QED BY <1>5, <1>7, <2>2, <2>3, <3>1
  <2> QED BY <1>1, <1>3, <1>5, <1>7, <2>2, <2>3, <2>4
<1>10. \A j \in 0..(k - 1) : text[j + 1] = B32Digits[Quint(data, j) + 1]
  BY <1>1, <1>5, <1>9
<1>11. \A i \in (k + 1)..Len(text) : text[i] = "="
  BY <1>7, <1>9
<1>12. Len(text) >= k
  BY <1>1, <1>3, <1>9
<1> QED
  BY <1>9, <1>10, <1>11, <1>12 DEF Encodes, n, k, text, pad

-----------------------------------------------------------------------------
(* The decoder.                                                            *)

(* The loop of the decoder is a fold, too. *)
LEMMA DecodeFolds == \A start, s : FoldLeft(B32DecodeStep, start, s) = Dec!Fold(start, s)
BY DEF Dec!Fold, FoldLeft, MapThenFoldSet, Max, Dec!FoldLeft, Dec!MapThenFoldSet, Dec!Max

(* A digit has its value. *)
LEMMA Base32Value ==
  ASSUME NEW v \in 0..31
  PROVE  /\ B32Digits[v + 1] \in DOMAIN B32Value /\ B32Value[B32Digits[v + 1]] = v
         /\ B32Digits[v + 1] \notin Separators /\ B32Digits[v + 1] # "=" /\ "=" \notin Separators
<1> DEFINE c == B32Digits[v + 1]
<1>1. /\ Len(B32Digits) = 32 /\ \A i, j \in 1..32 : B32Digits[i] = B32Digits[j] => i = j
      /\ \A i \in 1..32 : B32Digits[i] # "=" /\ B32Digits[i] \notin Separators
      /\ "=" \notin Separators
  BY DEF B32Digits, Separators
<1>2. v + 1 \in 1..32
  OBVIOUS
<1>3. c \in ToSet(B32Digits)
  BY <1>1, <1>2 DEF ToSet
<1>4. SelectInSeq(B32Digits, LAMBDA d : d = c) = v + 1
  <2>1. Distinct(B32Digits, 32)
    BY <1>1 DEF Distinct
  <2>2. Places(B32Digits, c) # {} /\ Min(Places(B32Digits, c)) = v + 1
    BY <1>2, <2>1, PlaceInSeq
  <2> QED BY <2>2, Zenon DEF SelectInSeq, Places
<1> HIDE DEF c
<1>5. c \in DOMAIN B32Value /\ B32Value[c] = SelectInSeq(B32Digits, LAMBDA d : d = c) - 1
  <2>1. c \in DOMAIN B32Value
    BY <1>3 DEF B32Value
  <2>2. B32Value[c] = DigitIndex(B32Digits, c)
    <3> DEFINE D == ToSet(B32Digits) \cup ToSet(LowerCase) \cup {"0", "1", "8"}
    <3>1. c \in D
      BY <1>3
    <3> HIDE DEF D
    <3>2. B32Value = [d \in D |-> CASE d \in ToSet(B32Digits) -> DigitIndex(B32Digits, d)
                                   [] d \in ToSet(LowerCase) -> DigitIndex(LowerCase, d)
                                   [] d = "0" -> 14
                                   [] d = "1" -> 11
                                   [] d = "8" -> 1]
      BY Zenon DEF B32Value, D
    <3>3. B32Value[c] = CASE c \in ToSet(B32Digits) -> DigitIndex(B32Digits, c)
                          [] c \in ToSet(LowerCase) -> DigitIndex(LowerCase, c)
                          [] c = "0" -> 14
                          [] c = "1" -> 11
                          [] c = "8" -> 1
      BY <3>1, <3>2, ZenonT(60)
    <3>4. c \notin ToSet(LowerCase) /\ c # "0" /\ c # "1" /\ c # "8"
      <4>1. /\ Len(LowerCase) = 26
            /\ \A i \in 1..32 : /\ \A j \in 1..26 : B32Digits[i] # LowerCase[j]
                              /\ B32Digits[i] # "0" /\ B32Digits[i] # "1" /\ B32Digits[i] # "8"
        BY DEF B32Digits, LowerCase
      <4>2. c # "0" /\ c # "1" /\ c # "8" /\ \A j \in DOMAIN LowerCase : c # LowerCase[j]
        BY <1>2, <4>1 DEF c
      <4> QED BY <4>2 DEF ToSet
    <3> QED BY <1>3, <3>3, <3>4
  <2> QED BY <2>1, <2>2, Zenon DEF DigitIndex
<1> QED
  BY <1>1, <1>2, <1>4, <1>5 DEF c

(* What the loop of the decoder keeps. *)
DecState == [output_size : Nat, buffer : Nat, bitsLeft : Nat, decoded : Seq(Byte), end : BOOLEAN,
             ret : {"SUCCESS", "INVALID_PARAM"}]

(* The first bytes. *)
First(decoded, data, m) ==
  /\ decoded \in Seq(Byte) /\ Len(decoded) = m
  /\ \A i \in 1..m : decoded[i] = data[i]

(* Where the loop is after k characters. *)
DecAt(s, data, k, size) ==
  /\ s \in DecState /\ s.output_size = size /\ s.ret = "SUCCESS"
  /\ 5 * k < 8 * Len(data) =>
       LET m == (5 * k) \div 8
           b == (5 * k) % 8
       IN  /\ ~s.end /\ First(s.decoded, data, m) /\ s.bitsLeft = b
           /\ s.buffer % 2^b = data[m + 1] \div 2^(8 - b)
  /\ 5 * k >= 8 * Len(data) => s.decoded = data

(* The reading of a digit. *)
LEMMA DigitTakenIn ==
  ASSUME NEW s \in DecState, ~s.end, Len(s.decoded) # s.output_size, NEW v \in 0..31
  PROVE  LET t == B32DecodeStep(s, B32Digits[v + 1])
             buffer == b32_buffer(s.buffer * 2^5 + v)
             bits == s.bitsLeft + 5
             byte == (buffer \div 2^(bits - 8)) % 2^8
         IN  /\ t.output_size = s.output_size /\ t.end = s.end /\ t.ret = s.ret /\ t.buffer = buffer
             /\ bits < 8 => t \in DecState /\ t.bitsLeft = bits /\ t.decoded = s.decoded
             /\ bits >= 8 /\ byte \in Byte =>
                  t \in DecState /\ t.bitsLeft = bits - 8 /\ t.decoded = Append(s.decoded, byte)
<1> DEFINE c == B32Digits[v + 1]
           buffer == b32_buffer(s.buffer * 2^5 + v)
           bits == s.bitsLeft + 5
           byte == (buffer \div 2^(bits - 8)) % 2^8
           t == B32DecodeStep(s, c)
<1>1. c \in DOMAIN B32Value /\ B32Value[c] = v /\ c \notin Separators /\ c # "="
  BY Base32Value
<1>2. buffer \in Nat /\ bits \in Nat
  <2>1. s.buffer \in Nat /\ s.bitsLeft \in Nat
    BY DEF DecState
  <2>2. s.buffer * 2^5 + v \in Nat
    <3> DEFINE x == s.buffer
    <3>1. x \in Nat
      BY <2>1
    <3> HIDE DEF x
    <3>2. x * 2^5 + v \in Nat
      BY <3>1, Powers
    <3> QED BY <3>2 DEF x
  <2>3. buffer \in Nat
    <3> DEFINE x == s.buffer * 2^5 + v
    <3>1. x \in Nat
      BY <2>2
    <3> HIDE DEF x
    <3>2. b32_buffer(x) \in Nat
      BY <3>1, SixteenBits
    <3> QED BY <3>2 DEF x
  <2> QED BY <2>1, <2>3
<1>3. t = IF bits < 8 THEN [s EXCEPT !.buffer = buffer, !.bitsLeft = bits]
          ELSE [s EXCEPT !.buffer = buffer, !.bitsLeft = bits - 8, !.decoded = Append(@, byte)]
  <2> HIDE DEF c
  <2> QED BY <1>1, Zenon DEF B32DecodeStep
<1> HIDE DEF buffer, bits, byte, c
<1>4. CASE bits < 8
  <2>1. t = [s EXCEPT !.buffer = buffer, !.bitsLeft = bits]
    BY <1>3, <1>4
  <2> HIDE DEF t
  <2>2. ~(bits >= 8)
    BY <1>2, <1>4
  <2> QED BY <1>2, <1>4, <2>1, <2>2 DEF DecState, t, c, buffer, bits, byte
<1>5. CASE ~(bits < 8)
  <2> DEFINE more == Append(s.decoded, byte)
             rest == bits - 8
  <2>1. t = [s EXCEPT !.buffer = buffer, !.bitsLeft = rest, !.decoded = more]
    BY <1>3, <1>5
  <2>2. byte \in Byte => more \in Seq(Byte)
    BY DEF DecState
  <2>3. rest \in Nat
    BY <1>2, <1>5
  <2> HIDE DEF t, more, rest
  <2> QED BY <1>2, <1>5, <2>1, <2>2, <2>3 DEF DecState, t, c, buffer, bits, byte, more, rest
<1> QED
  BY <1>4, <1>5

(* One byte more. *)
LEMMA OneMoreByte ==
  ASSUME NEW data \in Seq(Byte), NEW m \in Nat, m < Len(data), NEW decoded, First(decoded, data, m)
  PROVE  /\ First(Append(decoded, data[m + 1]), data, m + 1)
         /\ m + 1 = Len(data) => Append(decoded, data[m + 1]) = data
<1> DEFINE e == data[m + 1]
           more == Append(decoded, e)
<1>1. e \in Byte /\ Len(data) \in Nat
  OBVIOUS
<1>2. decoded \in Seq(Byte) /\ Len(decoded) = m /\ \A i \in 1..m : decoded[i] = data[i]
  BY DEF First
<1> HIDE DEF e
<1>3. more \in Seq(Byte) /\ Len(more) = m + 1 /\ more[m + 1] = e /\ \A i \in 1..m : more[i] = decoded[i]
  BY <1>1, <1>2
<1> HIDE DEF more
<1>4. \A i \in 1..(m + 1) : more[i] = data[i]
  BY <1>2, <1>3 DEF e
<1>5. First(more, data, m + 1)
  BY <1>3, <1>4 DEF First
<1>6. m + 1 = Len(data) => more = data
  BY <1>3, <1>4, SeqEqual
<1> QED
  BY <1>5, <1>6 DEF more, e

(* The place of the next digit. *)
LEMMA NextPlace ==
  ASSUME NEW k \in Nat, NEW m \in Nat, NEW b \in 0..7, 5 * k = 8 * m + b
  PROVE  /\ b <= 2 => (5 * (k + 1)) \div 8 = m /\ (5 * (k + 1)) % 8 = b + 5
         /\ b > 2 => (5 * (k + 1)) \div 8 = m + 1 /\ (5 * (k + 1)) % 8 = (b + 5) - 8
<1> DEFINE w == 5 * (k + 1)
<1>1. w \in Nat /\ w = 8 * m + (b + 5) /\ w = 8 * (m + 1) + ((b + 5) - 8)
  OBVIOUS
<1> HIDE DEF w
<1>2. CASE b <= 2
  <2>1. w \div 8 = m /\ w % 8 = b + 5
    BY <1>1, <1>2
  <2> QED BY <1>2, <2>1 DEF w
<1>3. CASE b > 2
  <2>1. w \div 8 = m + 1 /\ w % 8 = (b + 5) - 8
    BY <1>1, <1>3
  <2> QED BY <1>3, <2>1 DEF w
<1> QED
  BY <1>2, <1>3

(* What the accumulator holds of the byte x before the next digit. *)
Fits(b, buffer, x) == buffer % 2^b = x \div 2^(8 - b)

(* The digit completes x and holds the first bits of y. *)
ByteComplete(b, buffer, v, x, y) ==
  /\ (b32_buffer(buffer * 2^5 + v) \div 2^((b + 5) - 8)) % 2^8 = x
  /\ b32_buffer(buffer * 2^5 + v) % 2^((b + 5) - 8) = y \div 2^(8 - ((b + 5) - 8))

(* The digit that completes a byte, for any of them. *)
LEMMA TakenInMore ==
  \A b \in 3..7, buffer \in Nat, x \in Byte, y \in Byte :
     Fits(b, buffer, x) => ByteComplete(b, buffer, Five(b, x, y), x, y)
<1> SUFFICES ASSUME NEW b \in 3..7, NEW buffer \in Nat, NEW x \in Byte, NEW y \in Byte, Fits(b, buffer, x)
             PROVE  ByteComplete(b, buffer, Five(b, x, y), x, y)
  OBVIOUS
<1>1. buffer % 2^b = x \div 2^(8 - b)
  BY DEF Fits
<1> QED
  BY <1>1, TakeInMore, ZenonT(60) DEF ByteComplete

(* A digit v that can be read, with the byte that it may complete. *)
Readable(s, v, b, byte) ==
  /\ s \in DecState /\ ~s.end /\ Len(s.decoded) # s.output_size /\ v \in 0..31
  /\ b \in Nat /\ s.bitsLeft = b
  /\ b + 5 >= 8 => byte = (b32_buffer(s.buffer * 2^5 + v) \div 2^((b + 5) - 8)) % 2^8 /\ byte \in Byte

(* What the decoder makes of it. *)
ReadInto(t, s, v, b, byte) ==
  /\ t \in DecState /\ t.output_size = s.output_size /\ ~t.end /\ t.ret = s.ret
  /\ t.buffer = b32_buffer(s.buffer * 2^5 + v)
  /\ b + 5 < 8 => t.bitsLeft = b + 5 /\ t.decoded = s.decoded
  /\ b + 5 >= 8 => t.bitsLeft = (b + 5) - 8 /\ t.decoded = Append(s.decoded, byte)

(* Digits are read into the decoder's state. *)
LEMMA DigitsReadInto ==
  \A s, v, b, byte : Readable(s, v, b, byte) => ReadInto(B32DecodeStep(s, B32Digits[v + 1]), s, v, b, byte)
<1> SUFFICES ASSUME NEW s, NEW v, NEW b, NEW byte, Readable(s, v, b, byte)
             PROVE  ReadInto(B32DecodeStep(s, B32Digits[v + 1]), s, v, b, byte)
  OBVIOUS
<1>1. /\ s \in DecState /\ ~s.end /\ Len(s.decoded) # s.output_size /\ v \in 0..31
      /\ b \in Nat /\ s.bitsLeft = b
      /\ (b + 5 >= 8 => byte = (b32_buffer(s.buffer * 2^5 + v) \div 2^((b + 5) - 8)) % 2^8 /\ byte \in Byte)
  BY DEF Readable
<1> DEFINE buffer == b32_buffer(s.buffer * 2^5 + v)
           t == B32DecodeStep(s, B32Digits[v + 1])
<1>2. /\ t.output_size = s.output_size /\ t.end = s.end /\ t.ret = s.ret /\ t.buffer = buffer
      /\ s.bitsLeft + 5 < 8 => t \in DecState /\ t.bitsLeft = s.bitsLeft + 5 /\ t.decoded = s.decoded
      /\ s.bitsLeft + 5 >= 8 /\ (buffer \div 2^((s.bitsLeft + 5) - 8)) % 2^8 \in Byte =>
           t \in DecState /\ t.bitsLeft = (s.bitsLeft + 5) - 8
           /\ t.decoded = Append(s.decoded, (buffer \div 2^((s.bitsLeft + 5) - 8)) % 2^8)
  BY <1>1, DigitTakenIn
<1> HIDE DEF buffer, t
<1>3. b + 5 >= 8 => byte = (buffer \div 2^((b + 5) - 8)) % 2^8 /\ byte \in Byte
  BY <1>1 DEF buffer
<1>4. CASE b + 5 < 8
  <2>1. ~(b + 5 >= 8)
    BY <1>1, <1>4
  <2> QED BY <1>1, <1>2, <1>4, <2>1 DEF buffer, t, ReadInto
<1>5. CASE b + 5 >= 8
  <2> DEFINE more == Append(s.decoded, byte)
             bits == (b + 5) - 8
  <2>1. t \in DecState /\ t.bitsLeft = bits /\ t.decoded = more
    BY <1>1, <1>2, <1>3, <1>5
  <2>2. ~(b + 5 < 8)
    BY <1>1, <1>5
  <2> HIDE DEF more, bits
  <2> QED BY <1>1, <1>2, <2>1, <2>2 DEF buffer, more, bits, t, ReadInto
<1> QED
  BY <1>1, <1>4, <1>5

(* One character of a text keeps the invariant. *)
LEMMA CharacterKeeps ==
  ASSUME NEW data \in Seq(Byte), NEW text, Encodes(text, data), NEW k \in Nat, k + 1 <= Len(text),
         NEW size \in Nat, Len(data) <= size, NEW s, DecAt(s, data, k, size)
  PROVE  DecAt(B32DecodeStep(s, text[k + 1]), data, k + 1, size)
<1> DEFINE n == Len(data)
           m == (5 * k) \div 8
           b == (5 * k) % 8
           t == B32DecodeStep(s, text[k + 1])
<1>0. /\ n \in Nat /\ s \in DecState /\ s.output_size = size /\ s.ret = "SUCCESS"
      /\ m \in Nat /\ b \in 0..7 /\ 5 * k = 8 * m + b
      /\ DigitCount(n) \in Nat /\ 5 * DigitCount(n) \in (8 * n)..(8 * n + 4)
      /\ Len(text) \in Nat
  <2>1. n \in Nat /\ Len(text) \in Nat
    BY DEF Encodes
  <2>2. s \in DecState /\ s.output_size = size /\ s.ret = "SUCCESS"
    BY DEF DecAt
  <2>3. m \in Nat /\ b \in 0..7 /\ 5 * k = 8 * m + b
    OBVIOUS
  <2> HIDE DEF n, m, b
  <2>4. DigitCount(n) \in Nat /\ 5 * DigitCount(n) \in (8 * n)..(8 * n + 4)
    BY <2>1 DEF DigitCount
  <2> QED BY <2>1, <2>2, <2>3, <2>4 DEF n
<1>1. CASE 5 * k >= 8 * n
  <2>1. s.decoded = data
    BY <1>1 DEF DecAt
  <2>2. text[k + 1] = "="
    <3>1. k + 1 \in (DigitCount(n) + 1)..Len(text)
      BY <1>0, <1>1
    <3> QED BY <3>1 DEF Encodes
  <2>3. "=" \notin Separators
    BY Base32Value
  <2>4. t = s \/ t = [s EXCEPT !.end = TRUE]
    BY <2>2, <2>3, Zenon DEF B32DecodeStep
  <2>5. t \in DecState /\ t.output_size = size /\ t.ret = "SUCCESS" /\ t.decoded = data
    BY <1>0, <2>1, <2>4 DEF DecState
  <2>6. ~(5 * (k + 1) < 8 * n)
    BY <1>0, <1>1
  <2> HIDE DEF t
  <2> QED BY <2>5, <2>6 DEF DecAt, t
<1>2. CASE 5 * k < 8 * n
  <2> DEFINE x == data[m + 1]
             y == ByteAt(data, m + 2)
             v == Quint(data, k)
  <2>1. /\ ~s.end /\ First(s.decoded, data, m) /\ s.bitsLeft = b
        /\ s.buffer % 2^b = x \div 2^(8 - b)
    BY <1>2 DEF DecAt
  <2>2. x \in Byte /\ y \in Byte /\ v \in 0..31 /\ v = Five(b, x, y) /\ m < n
    <3>1. m < n
      BY <1>0, <1>2
    <3> QED BY <1>2, <3>1, QuintIs DEF Quint
  <2>3. text[k + 1] = B32Digits[v + 1]
    <3>1. k \in 0..(DigitCount(n) - 1)
      BY <1>0, <1>2
    <3> QED BY <3>1 DEF Encodes
  <2>4. Len(s.decoded) # s.output_size
    <3>1. Len(s.decoded) = m
      BY <2>1 DEF First
    <3> QED BY <1>0, <2>2, <3>1
  <2>5. s.buffer \in Nat
    BY <1>0 DEF DecState
  <2>6. s.bitsLeft = b /\ b \in Nat /\ t = B32DecodeStep(s, B32Digits[v + 1])
    BY <1>0, <2>1, <2>3
  <2> HIDE DEF t, x, y, v, m, b
  <2>7. CASE b <= 2
    <3>1. (5 * (k + 1)) \div 8 = m /\ (5 * (k + 1)) % 8 = b + 5
      <4>1. k \in Nat /\ m \in Nat /\ b \in 0..7 /\ 5 * k = 8 * m + b
        BY <1>0
      <4> QED BY <2>7, <4>1, NextPlace, Zenon
    <3>2. 5 * (k + 1) < 8 * n /\ ~(5 * (k + 1) >= 8 * n) /\ b \in 0..2 /\ b + 5 < 8 /\ ~(b + 5 >= 8)
      <4> HIDE DEF n
      <4> QED BY <1>0, <2>2, <2>7
    <3>3. b32_buffer(s.buffer * 2^5 + v) % 2^(b + 5) = x \div 2^(8 - (b + 5))
      BY <2>1, <2>2, <2>5, <3>2, TakeInFew
    <3>4. /\ t \in DecState /\ t.bitsLeft = b + 5 /\ t.decoded = s.decoded /\ ~t.end /\ t.ret = s.ret
          /\ t.output_size = s.output_size /\ t.buffer = b32_buffer(s.buffer * 2^5 + v)
      <4>1. Readable(s, v, b, x)
        BY <1>0, <2>1, <2>2, <2>4, <2>6, <3>2 DEF Readable
      <4>2. b + 5 < 8
        BY <3>2
      <4>3. ReadInto(t, s, v, b, x)
        BY <2>6, <4>1, DigitsReadInto
      <4> QED BY <4>2, <4>3 DEF ReadInto
    <3>5. t.buffer % 2^(b + 5) = x \div 2^(8 - (b + 5)) /\ First(t.decoded, data, m)
      BY <2>1, <3>3, <3>4
    <3> HIDE DEF n
    <3> QED BY <1>0, <3>1, <3>2, <3>4, <3>5, Zenon DEF DecAt, t, x, n
  <2>8. CASE b > 2
    <3>1. (5 * (k + 1)) \div 8 = m + 1 /\ (5 * (k + 1)) % 8 = (b + 5) - 8
      <4>1. k \in Nat /\ m \in Nat /\ b \in 0..7 /\ 5 * k = 8 * m + b
        BY <1>0
      <4> QED BY <2>8, <4>1, NextPlace, Zenon
    <3>2. /\ (5 * (k + 1) < 8 * n <=> m + 1 < n) /\ (5 * (k + 1) >= 8 * n <=> m + 1 = n)
          /\ b \in 3..7 /\ b + 5 >= 8 /\ ~(b + 5 < 8)
      <4> HIDE DEF n
      <4> QED BY <1>0, <2>2, <2>8, SMTT(30)
    <3>3. /\ (b32_buffer(s.buffer * 2^5 + v) \div 2^((b + 5) - 8)) % 2^8 = x
          /\ b32_buffer(s.buffer * 2^5 + v) % 2^((b + 5) - 8) = y \div 2^(8 - ((b + 5) - 8))
      <4> DEFINE buffer == s.buffer
      <4>1. buffer \in Nat /\ b \in 3..7 /\ x \in Byte /\ y \in Byte /\ Fits(b, buffer, x)
        BY <2>1, <2>2, <2>5, <3>2 DEF Fits
      <4> HIDE DEF buffer
      <4>2. ByteComplete(b, buffer, v, x, y)
        BY <2>2, <4>1, TakenInMore
      <4> QED BY <4>2, Zenon DEF buffer, ByteComplete
    <3>4. /\ t \in DecState /\ t.bitsLeft = (b + 5) - 8 /\ t.decoded = Append(s.decoded, x)
          /\ ~t.end /\ t.ret = s.ret /\ t.output_size = s.output_size
          /\ t.buffer = b32_buffer(s.buffer * 2^5 + v)
      <4>1. Readable(s, v, b, x)
        BY <1>0, <2>1, <2>2, <2>4, <2>6, <3>3 DEF Readable
      <4>2. b + 5 >= 8
        BY <3>2
      <4>3. ReadInto(t, s, v, b, x)
        BY <2>6, <4>1, DigitsReadInto
      <4> QED BY <4>2, <4>3 DEF ReadInto
    <3>5. First(t.decoded, data, m + 1) /\ (m + 1 = n => t.decoded = data)
      BY <1>0, <2>1, <2>2, <3>4, OneMoreByte DEF x
    <3>6. t.buffer % 2^((b + 5) - 8) = y \div 2^(8 - ((b + 5) - 8))
      BY <3>3, <3>4
    <3>7. CASE m + 1 < n
      <4>1. y = data[(m + 1) + 1]
        <5>1. m + 2 <= n /\ (m + 1) + 1 = m + 2
          BY <1>0, <3>7
        <5> QED BY <5>1 DEF y, ByteAt
      <4>2. 5 * (k + 1) < 8 * n /\ ~(5 * (k + 1) >= 8 * n)
        <5>1. m + 1 # n
          BY <1>0, <3>7
        <5> QED BY <3>2, <3>7, <5>1
      <4> HIDE DEF n
      <4> QED BY <1>0, <3>1, <3>4, <3>5, <3>6, <4>1, <4>2, Zenon DEF DecAt, t, n
    <3>8. CASE ~(m + 1 < n)
      <4>1. ~(5 * (k + 1) < 8 * n) /\ m + 1 = n
        BY <1>0, <2>2, <3>2, <3>8
      <4>2. t.decoded = data
        BY <3>5, <4>1
      <4> HIDE DEF n
      <4> QED BY <1>0, <3>4, <4>1, <4>2, Zenon DEF DecAt, t, n
    <3> QED BY <3>7, <3>8
  <2> QED BY <1>0, <2>7, <2>8
<1> QED
  BY <1>0, <1>1, <1>2

(* What Encodes data is decoded to it, with room for it. *)
LEMMA Base32Decodes ==
  ASSUME NEW data \in Seq(Byte), data # <<>>, NEW text, Encodes(text, data), NEW size \in Nat, Len(data) <= size
  PROVE  b32_decode(text, size).data = data
<1> DEFINE start == [output_size |-> size, buffer |-> 0, bitsLeft |-> 0, decoded |-> <<>>,
                     end |-> FALSE, ret |-> "SUCCESS"]
           n == Len(data)
<1>1. DecAt(start, data, 0, size)
  <2>1. start \in DecState /\ First(<<>>, data, 0)
    BY DEF DecState, First
  <2>2. n \in Nat \ {0} /\ data[1] \in Byte
    <3>1. n \in Nat \ {0}
      OBVIOUS
    <3> QED BY <3>1
  <2>3. 0 % 2^0 = data[1] \div 2^(8 - 0)
    <3>1. \A d \in Byte : d \div 256 = 0
      BY DEF Byte
    <3>2. 0 % 2^0 = 0 /\ 2^(8 - 0) = 256
      BY Powers
    <3> QED BY <2>2, <3>1, <3>2
  <2>4. (5 * 0) \div 8 = 0 /\ (5 * 0) % 8 = 0 /\ 0 + 1 = 1 /\ ~(5 * 0 >= 8 * n)
    BY <2>2
  <2>5. /\ start.output_size = size /\ start.ret = "SUCCESS" /\ ~start.end /\ start.decoded = <<>>
        /\ start.bitsLeft = 0 /\ start.buffer = 0
    OBVIOUS
  <2> HIDE DEF start, n
  <2> QED BY <2>1, <2>3, <2>4, <2>5 DEF DecAt, n
<1>2. text \in Seq(B32Char \cup {"="}) /\ Len(text) \in Nat /\ Len(text) >= DigitCount(n)
  BY DEF Encodes
<1> HIDE DEF start
<1>3. PICK f : Dec!Steps(start, text, f) /\ Dec!Fold(start, text) = f[Len(text)]
  BY <1>2, Dec!FoldSteps
<1> DEFINE S == {k \in Nat : k <= Len(text) => DecAt(f[k], data, k, size)}
<1>4. 0 \in S
  BY <1>1, <1>3 DEF Dec!Steps
<1>5. ASSUME NEW k \in S PROVE k + 1 \in S
  <2> SUFFICES ASSUME k + 1 <= Len(text) PROVE DecAt(f[k + 1], data, k + 1, size)
    OBVIOUS
  <2>1. k \in Nat /\ k + 1 \in 1..Len(text) /\ (k + 1) - 1 = k /\ DecAt(f[k], data, k, size)
    BY <1>2
  <2>2. f[k + 1] = B32DecodeStep(f[k], text[k + 1])
    BY <1>3, <2>1 DEF Dec!Steps
  <2> QED BY <2>1, <2>2, CharacterKeeps
<1>6. S = Nat
  <2> HIDE DEF S
  <2>1. S \in SUBSET Nat
    BY DEF S
  <2> QED BY <1>4, <1>5, <2>1, Dec!Induction
<1>7. DecAt(f[Len(text)], data, Len(text), size)
  BY <1>2, <1>6
<1>8. 5 * Len(text) >= 8 * n
  <2> DEFINE k == DigitCount(n)
             l == Len(text)
  <2>1. k \in Nat /\ 5 * k >= 8 * n /\ k <= l /\ l \in Nat /\ n \in Nat
    BY <1>2 DEF DigitCount
  <2> HIDE DEF k, l, n
  <2>2. 5 * l >= 8 * n
    BY <2>1
  <2> QED BY <2>2 DEF l
<1>9. f[Len(text)].decoded = data
  BY <1>7, <1>8 DEF DecAt
<1>10. b32_decode(text, size).data = Dec!Fold(start, text).decoded
  <2> DEFINE r == FoldLeft(B32DecodeStep, start, text)
  <2>1. b32_decode(text, size) = [ret |-> r.ret, data |-> r.decoded, size |-> IF r.ret = "SUCCESS" THEN Len(r.decoded) ELSE size]
    BY Zenon DEF b32_decode, start
  <2>2. r = Dec!Fold(start, text)
    BY DecodeFolds
  <2> HIDE DEF r
  <2> QED BY <2>1, <2>2
<1> QED
  BY <1>3, <1>9, <1>10

(* The sizes of base32.h. *)
LEMMA Base32Sizes ==
  ASSUME NEW n \in Nat
  PROVE  /\ DigitCount(n) \in Nat /\ DigitCount(n) <= BASE32_ENCODE_LEN(n) /\ BASE32_ENCODE_LEN(n) \in Nat
         /\ DigitCount(n) + b32_padding(DigitCount(n), BASE32_ENCODE_LEN(n)) = BASE32_ENCODE_LEN(n)
         /\ BASE32_ENCODE_LEN(n) % 8 = 0
         /\ BASE32_DECODE_MIN_LEN(BASE32_ENCODE_LEN(n)) \in Nat
         /\ n <= BASE32_DECODE_MIN_LEN(BASE32_ENCODE_LEN(n))
<1> DEFINE k == DigitCount(n)
           l == BASE32_ENCODE_LEN(n)
<1>1. k \in Nat /\ 5 * k >= 8 * n
  BY DEF DigitCount
<1>2. l = IF k % 8 = 0 THEN k ELSE (k + 8) - (k % 8)
  <2>1. n * 8 + 4 = 8 * n + 4
    OBVIOUS
  <2> QED BY <2>1 DEF BASE32_ENCODE_LEN, DigitCount
<1> HIDE DEF k, l
<1>3. l \in Nat /\ k <= l /\ l % 8 = 0 /\ (k % 8 # 0 => l - k = 8 - (k % 8) /\ ~(k >= l))
  <2>1. CASE k % 8 = 0
    <3>1. l = k
      BY <1>2, <2>1
    <3> QED BY <1>1, <2>1, <3>1
  <2>2. CASE k % 8 # 0
    <3> DEFINE q == k \div 8
               r == k % 8
    <3>1. q \in Nat /\ r \in 1..7 /\ k = 8 * q + r /\ l = (k + 8) - r
      BY <1>1, <1>2, <2>2
    <3> HIDE DEF q, r
    <3>2. l = 8 * (q + 1) /\ l \in Nat
      BY <3>1
    <3>3. l % 8 = 0
      BY <3>1, <3>2
    <3>4. k <= l /\ l - k = 8 - r /\ ~(k >= l)
      BY <3>1
    <3> QED BY <3>2, <3>3, <3>4 DEF r
  <2> QED BY <2>1, <2>2
<1>4. k + b32_padding(k, l) = l
  <2>1. CASE k % 8 = 0
    <3>1. l = k
      BY <1>2, <2>1
    <3> QED BY <1>1, <2>1, <3>1 DEF b32_padding
  <2>2. CASE k % 8 # 0
    <3>1. b32_padding(k, l) = l - k
      BY <1>1, <1>3, <2>2 DEF b32_padding
    <3> QED BY <1>1, <1>3, <3>1
  <2> QED BY <2>1, <2>2
<1>5. BASE32_DECODE_MIN_LEN(l) \in Nat /\ n <= BASE32_DECODE_MIN_LEN(l)
  <2>1. 5 * l >= 8 * n /\ l * 5 = 5 * l
    BY <1>1, <1>3
  <2>2. CASE l > 0
    <3>1. BASE32_DECODE_MIN_LEN(l) = ((l * 5) \div 8) + 1
      BY <2>2 DEF BASE32_DECODE_MIN_LEN
    <3>2. (l * 5) \div 8 \in Nat /\ n <= (l * 5) \div 8
      <4> DEFINE w == l * 5
      <4>1. w \in Nat /\ w >= 8 * n
        BY <1>3, <2>1
      <4> HIDE DEF w
      <4>2. w \div 8 \in Nat /\ n <= w \div 8
        BY <4>1
      <4> QED BY <4>2 DEF w
    <3> QED BY <3>1, <3>2
  <2>3. CASE ~(l > 0)
    <3>1. BASE32_DECODE_MIN_LEN(l) = 0
      BY <2>3 DEF BASE32_DECODE_MIN_LEN
    <3>2. n = 0
      BY <1>3, <2>1, <2>3
    <3> QED BY <3>1, <3>2
  <2> QED BY <2>2, <2>3
<1> QED
  BY <1>1, <1>3, <1>4, <1>5 DEF k, l

=============================================================================
