---------------------------- MODULE FormatsProofs ----------------------------
(***************************************************************************)
(* What transactions are written as, and what is read of texts.  A payload *)
(* is put together from parts, of which the order of the keys, the number  *)
(* of fields and the bytes are known (Written): the theorems about it      *)
(* follow from those of the whole.  The theorems about texts follow from   *)
(* CodecProofs.  In both cases the invariant is that the last call         *)
(* returned what it makes of its arguments (CallInv).                      *)
(***************************************************************************)
EXTENDS Formats, CodecProofs

(* The sum of the sizes of fields is a fold. *)
Size == INSTANCE FoldFacts WITH Op <- AddField

-----------------------------------------------------------------------------
(* The fields of a transaction: each of them alone.                        *)

(* A field has a key that is known. *)
Fields == [key : ToSet(Alphabet), size : Nat]

(* The keys of the fields, in the order of the alphabet, with their rank.  *)
LEMMA Letters ==
  /\ Len(Alphabet) = 13
  /\ \A i, j \in 1..13 : Alphabet[i] = Alphabet[j] => i = j
BY DEF Alphabet

(* The rank of a key is its index. *)
LEMMA RankOf ==
  ASSUME NEW i \in 1..13
  PROVE  Rank(Alphabet[i]) = i
<1>1. {j \in 1..Len(Alphabet) : Alphabet[j] = Alphabet[i]} = {i}
  BY Letters
<1>2. Min({i}) = i
  BY DEF Min
<1> QED
  BY <1>1, <1>2 DEF Rank, SelectInSeq

(* Every key has one. *)
LEMMA RankIn ==
  ASSUME NEW key \in ToSet(Alphabet)
  PROVE  Rank(key) \in 1..13
<1>1. \E i \in 1..13 : Alphabet[i] = key
  BY Letters DEF ToSet
<1> QED
  BY <1>1, RankOf

(* The ranks, one by one. *)
LEMMA RanksAre ==
  /\ Rank("amt") = 1 /\ Rank("apaa") = 2 /\ Rank("apan") = 3 /\ Rank("apid") = 4
  /\ Rank("fee") = 5 /\ Rank("fv") = 6 /\ Rank("gen") = 7 /\ Rank("gh") = 8 /\ Rank("lv") = 9
  /\ Rank("note") = 10 /\ Rank("rcv") = 11 /\ Rank("snd") = 12 /\ Rank("type") = 13
  /\ {"amt", "apaa", "apan", "apid", "fee", "fv", "gen", "gh", "lv", "note", "rcv", "snd", "type"}
       \subseteq ToSet(Alphabet)
<1>1. /\ Alphabet[1] = "amt" /\ Alphabet[2] = "apaa" /\ Alphabet[3] = "apan" /\ Alphabet[4] = "apid"
      /\ Alphabet[5] = "fee" /\ Alphabet[6] = "fv" /\ Alphabet[7] = "gen" /\ Alphabet[8] = "gh"
      /\ Alphabet[9] = "lv" /\ Alphabet[10] = "note" /\ Alphabet[11] = "rcv" /\ Alphabet[12] = "snd"
      /\ Alphabet[13] = "type"
  BY DEF Alphabet
<1>2. \A i \in 1..13 : Alphabet[i] \in ToSet(Alphabet)
  BY Letters DEF ToSet
<1> QED
  BY <1>1, <1>2, RankOf

-----------------------------------------------------------------------------
(* Fields with keys in the order of the alphabet, between two ranks.       *)
RankAt(s, i) == Rank(s[i].key)

(* All ranks above low, none above high, every one higher than the last. *)
Ordered(s, low, high) ==
  /\ s \in Seq(Fields)
  /\ \A i \in 1..Len(s) : RankAt(s, i) \in Nat /\ low < RankAt(s, i) /\ RankAt(s, i) <= high
  /\ \A i, j \in 1..Len(s) : i < j => RankAt(s, i) < RankAt(s, j)

(* One part after the other. *)
LEMMA OrderedConcat ==
  ASSUME NEW s, NEW t, NEW low \in Int, NEW mid \in Int, NEW high \in Int, low <= mid, mid <= high,
         Ordered(s, low, mid), Ordered(t, mid, high)
  PROVE  Ordered(s \o t, low, high)
<1> DEFINE st == s \o t
<1>1. /\ s \in Seq(Fields) /\ t \in Seq(Fields) /\ st \in Seq(Fields)
      /\ Len(s) \in Nat /\ Len(t) \in Nat /\ Len(st) = Len(s) + Len(t)
      /\ \A i \in 1..Len(s) : st[i] = s[i]
      /\ \A i \in 1..Len(st) : i > Len(s) => i - Len(s) \in 1..Len(t) /\ st[i] = t[i - Len(s)]
  BY DEF Ordered
<1> HIDE DEF st
<1>2. /\ \A i \in 1..Len(s) : RankAt(st, i) = RankAt(s, i)
      /\ \A i \in 1..Len(st) : i > Len(s) => RankAt(st, i) = RankAt(t, i - Len(s))
  BY <1>1 DEF RankAt
<1>3. \A i \in 1..Len(st) :
        /\ RankAt(st, i) \in Nat
        /\ IF i <= Len(s) THEN low < RankAt(st, i) /\ RankAt(st, i) <= mid
                          ELSE mid < RankAt(st, i) /\ RankAt(st, i) <= high
  <2> SUFFICES ASSUME NEW i \in 1..Len(st)
               PROVE  /\ RankAt(st, i) \in Nat
                      /\ IF i <= Len(s) THEN low < RankAt(st, i) /\ RankAt(st, i) <= mid
                                        ELSE mid < RankAt(st, i) /\ RankAt(st, i) <= high
    OBVIOUS
  <2>1. CASE i <= Len(s)
    <3>1. i \in 1..Len(s) /\ RankAt(st, i) = RankAt(s, i)
      BY <1>1, <1>2, <2>1
    <3> QED BY <2>1, <3>1 DEF Ordered
  <2>2. CASE ~(i <= Len(s))
    <3>1. i - Len(s) \in 1..Len(t) /\ RankAt(st, i) = RankAt(t, i - Len(s))
      BY <1>1, <1>2, <2>2
    <3> QED BY <2>2, <3>1 DEF Ordered
  <2> QED BY <2>1, <2>2
<1>4. ASSUME NEW i \in 1..Len(st), NEW j \in 1..Len(st), i < j
      PROVE  RankAt(st, i) < RankAt(st, j)
  <2>1. CASE j <= Len(s)
    BY <1>1, <1>2, <1>4, <2>1 DEF Ordered
  <2>2. CASE i <= Len(s) /\ j > Len(s)
    BY <1>1, <1>3, <2>2
  <2>3. CASE i > Len(s)
    <3>1. j > Len(s) /\ i - Len(s) < j - Len(s) /\ i - Len(s) \in 1..Len(t) /\ j - Len(s) \in 1..Len(t)
      BY <1>1, <1>4, <2>3
    <3>2. RankAt(t, i - Len(s)) < RankAt(t, j - Len(s))
      BY <3>1 DEF Ordered
    <3> QED BY <1>2, <2>3, <3>1, <3>2
  <2> QED BY <1>1, <2>1, <2>2, <2>3
<1>5. Ordered(st, low, high)
  BY <1>1, <1>3, <1>4 DEF Ordered
<1> QED
  BY <1>5 DEF st

(* A field, and one that may be left out. *)
LEMMA OrderedOne ==
  ASSUME NEW condition \in BOOLEAN, NEW key \in ToSet(Alphabet), NEW size \in Nat, NEW low \in Int, NEW high \in Int,
         low < Rank(key), Rank(key) <= high
  PROVE  /\ Ordered(When(condition, Field(key, size)), low, high)
         /\ Ordered(<<Field(key, size)>>, low, high)
<1>1. Field(key, size) \in Fields /\ Field(key, size).key = key
  BY DEF Field, Fields
<1> DEFINE f == Field(key, size)
<1> HIDE DEF f
<1>2. Ordered(<<f>>, low, high)
  <2>1. RankAt(<<f>>, 1) = Rank(key) /\ Rank(key) \in Nat
    BY <1>1, RankIn DEF RankAt, f
  <2>2. <<f>> \in Seq(Fields) /\ Len(<<f>>) = 1
    BY <1>1 DEF f
  <2> QED BY <2>1, <2>2 DEF Ordered
<1>3. Ordered(<<>>, low, high)
  BY DEF Ordered
<1>4. When(condition, f) = IF condition THEN <<f>> ELSE <<>>
  BY DEF When
<1> QED
  BY <1>2, <1>3, <1>4 DEF f

-----------------------------------------------------------------------------
(* The bytes of the fields add up.                                         *)
KeySize(key) == StrSize(TextLength[key])

(* The bytes of the keys, one by one. *)
LEMMA KeySizesAre ==
  /\ KeySize("amt") = 4 /\ KeySize("apaa") = 5 /\ KeySize("apan") = 5 /\ KeySize("apid") = 5
  /\ KeySize("fee") = 4 /\ KeySize("fv") = 3 /\ KeySize("gen") = 4 /\ KeySize("gh") = 3 /\ KeySize("lv") = 3
  /\ KeySize("note") = 5 /\ KeySize("rcv") = 4 /\ KeySize("snd") = 4 /\ KeySize("type") = 5
BY DEF KeySize, StrSize, TextLength

(* Every key has a size. *)
LEMMA KeySizeIn ==
  ASSUME NEW key \in ToSet(Alphabet)
  PROVE  KeySize(key) \in Nat
<1>1. PICK i \in 1..13 : Alphabet[i] = key
  BY Letters DEF ToSet
<1>2. key \in {"amt", "apaa", "apan", "apid", "fee", "fv", "gen", "gh", "lv", "note", "rcv", "snd", "type"}
  BY <1>1 DEF Alphabet
<1> QED
  BY <1>2, KeySizesAre

(* FoldFacts says of the sum what a fold is. *)
LEMMA SizeIsFold == \A s : FieldsSize(s) = Size!Fold(0, s)
BY DEF FieldsSize, Size!Fold, FoldLeft, MapThenFoldSet, Max, Size!FoldLeft, Size!MapThenFoldSet, Size!Max

(* Adding fields to a sum that others began. *)
LEMMA SumGoesOn ==
  ASSUME NEW s \in Seq(Fields), NEW n \in Nat
  PROVE  /\ Size!Fold(n, s) = n + FieldsSize(s)
         /\ FieldsSize(s) \in Nat
<1>1. PICK f : Size!Steps(n, s, f) /\ Size!Fold(n, s) = f[Len(s)]
  BY Size!FoldSteps
<1>2. PICK g : Size!Steps(0, s, g) /\ Size!Fold(0, s) = g[Len(s)]
  BY Size!FoldSteps
<1> DEFINE S == {m \in Nat : m <= Len(s) => g[m] \in Nat /\ f[m] = n + g[m]}
<1>3. 0 \in S
  BY <1>1, <1>2 DEF Size!Steps
<1>4. ASSUME NEW m \in S PROVE m + 1 \in S
  <2> SUFFICES ASSUME m + 1 <= Len(s) PROVE g[m + 1] \in Nat /\ f[m + 1] = n + g[m + 1]
    OBVIOUS
  <2>1. /\ m \in Nat /\ m + 1 \in 1..Len(s) /\ (m + 1) - 1 = m
        /\ g[m] \in Nat /\ f[m] = n + g[m] /\ s[m + 1] \in Fields
    OBVIOUS
  <2>2. f[m + 1] = AddField(f[m], s[m + 1]) /\ g[m + 1] = AddField(g[m], s[m + 1])
    BY <1>1, <1>2, <2>1 DEF Size!Steps
  <2>3. KeySize(s[m + 1].key) \in Nat /\ s[m + 1].size \in Nat
    BY <2>1, KeySizeIn DEF Fields
  <2>4. \A k : AddField(k, s[m + 1]) = (k + KeySize(s[m + 1].key)) + s[m + 1].size
    BY DEF AddField, KeySize
  <2> QED BY <2>1, <2>2, <2>3, <2>4
<1>5. S = Nat
  <2> HIDE DEF S
  <2>1. S \in SUBSET Nat
    BY DEF S
  <2> QED BY <1>3, <1>4, <2>1, Size!Induction
<1>6. Len(s) \in S
  BY <1>5
<1> QED
  BY <1>1, <1>2, <1>6, SizeIsFold

(* n fields of at least min and at most max bytes in all, in order.        *)
Written(s, low, high, n, min, max) ==
  /\ Ordered(s, low, high)
  /\ Len(s) = n
  /\ min <= FieldsSize(s) /\ FieldsSize(s) <= max

(* Fields after fields. *)
LEMMA WrittenConcat ==
  ASSUME NEW low \in Int, NEW mid \in Int, NEW high \in Int, low <= mid, mid <= high,
         NEW n, NEW m, NEW min \in Int, NEW max \in Int, NEW more \in Int, NEW most \in Int,
         NEW s, NEW t, Written(s, low, mid, n, min, max), Written(t, mid, high, m, more, most)
  PROVE  Written(s \o t, low, high, n + m, min + more, max + most)
<1>1. s \in Seq(Fields) /\ t \in Seq(Fields)
  BY DEF Written, Ordered
<1>2. Ordered(s \o t, low, high)
  BY OrderedConcat DEF Written
<1>3. Len(s \o t) = n + m
  BY <1>1, SMTT(30) DEF Written
<1>4. FieldsSize(s \o t) = Size!Fold(FieldsSize(s), t)
  BY <1>1, Size!FoldConcat, SizeIsFold
<1>5. FieldsSize(s) \in Nat /\ FieldsSize(t) \in Nat /\ Size!Fold(FieldsSize(s), t) = FieldsSize(s) + FieldsSize(t)
  BY <1>1, SumGoesOn
<1> QED
  BY <1>2, <1>3, <1>4, <1>5, SMTT(30) DEF Written

(* One field.                                                              *)
LEMMA WrittenOne ==
  ASSUME NEW key \in ToSet(Alphabet), NEW size \in Nat, NEW low \in Int, NEW high \in Int,
         low < Rank(key), Rank(key) <= high,
         NEW min \in Int, NEW max \in Int, KeySize(key) + size \in min..max
  PROVE  Written(<<Field(key, size)>>, low, high, 1, min, max)
<1>1. Ordered(<<Field(key, size)>>, low, high)
  BY OrderedOne
<1>2. FieldsSize(<<Field(key, size)>>) = KeySize(key) + size
  <2>1. FieldsSize(<<Field(key, size)>>) = AddField(0, Field(key, size))
    BY Size!FoldOne, SizeIsFold
  <2>2. KeySize(key) \in Nat
    BY KeySizeIn
  <2> QED BY <2>1, <2>2 DEF AddField, Field, KeySize
<1>3. Len(<<Field(key, size)>>) = 1
  OBVIOUS
<1> QED
  BY <1>1, <1>2, <1>3 DEF Written

(* No field.                                                               *)
LEMMA WrittenNone ==
  ASSUME NEW low \in Int, NEW high \in Int, low <= high
  PROVE  Written(<<>>, low, high, 0, 0, 0)
<1>1. FieldsSize(<<>>) = 0
  BY Size!FoldEmpty, SizeIsFold
<1>2. Ordered(<<>>, low, high)
  BY DEF Ordered
<1> QED
  BY <1>1, <1>2 DEF Written

(* More room than needed.                                                  *)
LEMMA WrittenWithin ==
  ASSUME NEW s, NEW low, NEW high, NEW n, NEW min \in Int, NEW max \in Int, Written(s, low, high, n, min, max),
         NEW less \in Int, NEW more \in Int, less <= min, max <= more
  PROVE  Written(s, low, high, n, less, more)
<1>1. FieldsSize(s) \in Nat
  BY SumGoesOn DEF Written, Ordered
<1> QED
  BY <1>1 DEF Written

(* A field that may be left out.                                           *)
Count(condition) == IF condition THEN 1 ELSE 0

(* It is written when its condition holds. *)
LEMMA WrittenWhen ==
  ASSUME NEW condition \in BOOLEAN, NEW key \in ToSet(Alphabet), NEW low \in Int, NEW high \in Int,
         low < Rank(key), Rank(key) <= high,
         NEW max \in Nat, NEW size, condition => size \in Nat /\ KeySize(key) + size <= max
  PROVE  Written(When(condition, Field(key, size)), low, high, Count(condition), 0, max)
<1> DEFINE f == Field(key, size)
<1>0. Rank(key) \in Int
  BY RankIn
<1>1. CASE condition
  <2>1. size \in Nat /\ KeySize(key) + size \in 0..max
    BY <1>1, KeySizeIn
  <2>2. Written(<<f>>, low, high, 1, 0, max)
    BY <2>1, WrittenOne
  <2>3. When(condition, f) = <<f>> /\ Count(condition) = 1
    BY <1>1 DEF When, Count
  <2> HIDE DEF f
  <2> QED BY <2>2, <2>3 DEF f
<1>2. CASE ~condition
  <2>1. Written(<<>>, low, high, 0, 0, 0)
    BY <1>0, WrittenNone
  <2>2. Written(<<>>, low, high, 0, 0, max)
    BY <2>1, WrittenWithin
  <2>3. When(condition, f) = <<>> /\ Count(condition) = 0
    BY <1>2 DEF When, Count
  <2> HIDE DEF f
  <2> QED BY <2>2, <2>3 DEF f
<1> QED
  BY <1>1, <1>2

(* A sequence with one more element.                                       *)
LEMMA OneMoreField ==
  ASSUME NEW T, NEW s \in Seq(T), NEW e \in T, NEW t \in Seq(T), Len(t) = Len(s) + 1,
         \A i \in 1..Len(s) : t[i] = s[i], t[Len(s) + 1] = e
  PROVE  t = s \o <<e>>
<1> DEFINE se == s \o <<e>>
<1>1. se \in Seq(T) /\ Len(se) = Len(t) /\ Len(s) \in Nat
      /\ (\A i \in 1..Len(s) : se[i] = s[i]) /\ se[Len(s) + 1] = e
  OBVIOUS
<1> HIDE DEF se
<1>2. \A i \in 1..Len(t) : t[i] = se[i]
  BY <1>1
<1>3. t = se
  BY <1>1, <1>2, SeqEqual
<1> QED
  BY <1>3 DEF se

-----------------------------------------------------------------------------
(* The arguments of a call.                                                *)
LEMMA Flattened == \A ss : FlattenSeq(ss) = Size!FlattenSeq(ss)
BY DEF FlattenSeq, Size!FlattenSeq

(* No more arguments are written than announced, and as many unless there  *)
(* is one of an unknown type.                                              *)
LEMMA ArgumentsAnnounced ==
  ASSUME NEW values \in Seq({"integer", "byteslice", "none"})
  PROVE  /\ Len(app_args(values)) \in 0..Len(values)
         /\ "none" \notin ToSet(values) => Len(app_args(values)) = Len(values)
<1> DEFINE n == Len(values)
           ss == [i \in 1..n |-> Argument(values, i)]
<1>1. n \in Nat
  OBVIOUS
<1>2. ASSUME NEW i \in 1..n
      PROVE  /\ Argument(values, i) \in Seq(Nat)
             /\ Len(Argument(values, i)) \in 0..1
             /\ "none" \notin ToSet(values) => Len(Argument(values, i)) = 1
  <2>1. values[i] \in {"integer", "byteslice", "none"} /\ values[i] \in ToSet(values)
    BY DEF ToSet
  <2>2. CASE values[i] = "integer"
    BY <2>2 DEF Argument
  <2>3. CASE values[i] = "byteslice"
    BY <2>3 DEF Argument
  <2>4. CASE values[i] = "none"
    BY <2>1, <2>4 DEF Argument
  <2> QED BY <2>1, <2>2, <2>3, <2>4
<1>3. ss \in Seq(Seq(Nat)) /\ Len(ss) = n /\ \A i \in 1..n : ss[i] = Argument(values, i)
  BY <1>1, <1>2
<1>4. app_args(values) = Size!FlattenSeq(ss)
  BY Flattened DEF app_args
<1> HIDE DEF ss
<1> DEFINE I == [k \in 0..n |-> {x \in Seq(Nat) : Len(x) <= k}]
           J == [k \in 0..n |-> {x \in Seq(Nat) : "none" \notin ToSet(values) => Len(x) = k}]
<1>5. <<>> \in I[0] /\ <<>> \in J[0]
  BY <1>1
<1>6. ASSUME NEW k \in 1..n, NEW x \in Seq(Nat)
      PROVE  /\ k \in 0..n /\ k - 1 \in 0..n
             /\ x \o ss[k] \in Seq(Nat) /\ Len(x \o ss[k]) = Len(x) + Len(ss[k])
             /\ Len(ss[k]) \in 0..1 /\ Len(x) \in Nat
             /\ "none" \notin ToSet(values) => Len(ss[k]) = 1
  BY <1>1, <1>2, <1>3
<1>7. \A k \in 1..n : \A x \in I[k - 1] \cap Seq(Nat) : x \o ss[k] \in I[k]
  <2> SUFFICES ASSUME NEW k \in 1..n, NEW x \in I[k - 1] \cap Seq(Nat) PROVE x \o ss[k] \in I[k]
    OBVIOUS
  <2>1. x \in Seq(Nat) /\ k \in 0..n /\ k - 1 \in 0..n
    BY <1>6
  <2>2. Len(x) <= k - 1
    BY <2>1
  <2>3. x \o ss[k] \in Seq(Nat) /\ Len(x \o ss[k]) <= k
    <3>1. /\ x \o ss[k] \in Seq(Nat) /\ Len(x \o ss[k]) = Len(x) + Len(ss[k])
          /\ Len(ss[k]) \in 0..1 /\ Len(x) \in Nat
      BY <1>6, <2>1
    <3> DEFINE a == Len(x)
               b == Len(ss[k])
               c == Len(x \o ss[k])
    <3>2. c = a + b /\ b \in 0..1 /\ a \in Nat /\ a <= k - 1 /\ k \in Nat
      BY <1>1, <2>1, <2>2, <3>1
    <3> HIDE DEF a, b, c
    <3>3. c <= k
      BY <3>2
    <3> QED BY <3>1, <3>3 DEF c
  <2> QED BY <2>1, <2>3
<1>8. \A k \in 1..n : \A x \in J[k - 1] \cap Seq(Nat) : x \o ss[k] \in J[k]
  <2> SUFFICES ASSUME NEW k \in 1..n, NEW x \in J[k - 1] \cap Seq(Nat) PROVE x \o ss[k] \in J[k]
    OBVIOUS
  <2>1. CASE "none" \in ToSet(values)
    BY <1>6, <2>1
  <2>2. CASE "none" \notin ToSet(values)
    <3>1. Len(x) = k - 1 /\ Len(ss[k]) = 1
      BY <1>6, <2>2
    <3>2. Len(x \o ss[k]) = Len(x) + Len(ss[k])
      <4>1. x \in Seq(Nat)
        OBVIOUS
      <4> QED BY <1>6, <4>1
    <3>3. Len(x \o ss[k]) = k
      BY <3>1, <3>2
    <3> QED BY <1>6, <3>3
  <2> QED BY <2>1, <2>2
<1>9. n \in 0..n
  BY <1>1
<1>10. Size!FlattenSeq(ss) \in I[n]
  <2> HIDE DEF I, n
  <2> QED BY <1>3, <1>5, <1>7, Size!FlattenInvariant
<1>11. Size!FlattenSeq(ss) \in J[n]
  <2> HIDE DEF J, n
  <2> QED BY <1>3, <1>5, <1>8, Size!FlattenInvariant
<1>12. Size!FlattenSeq(ss) \in Seq(Nat) /\ Len(Size!FlattenSeq(ss)) <= n
  BY <1>9, <1>10
<1>13. "none" \notin ToSet(values) => Len(Size!FlattenSeq(ss)) = n
  BY <1>9, <1>11
<1> QED
  BY <1>4, <1>12, <1>13

(* The bytes of a whole array of arguments.                                *)
LEMMA ArgumentsSize ==
  ASSUME NEW values \in Seq({"integer", "byteslice", "none"}), Len(values) <= APPS_KV_MAX_COUNT
  PROVE  app_args_size(values) \in 1..81
<1>1. Len(app_args(values)) \in 0..8
  <2>1. Len(app_args(values)) \in 0..Len(values) /\ Len(values) \in Nat
    BY ArgumentsAnnounced
  <2>2. Len(values) <= 8
    BY DEF APPS_KV_MAX_COUNT
  <2> DEFINE m == Len(app_args(values))
             n == Len(values)
  <2>3. m \in 0..n /\ n \in Nat /\ n <= 8
    BY <2>1, <2>2
  <2> HIDE DEF m, n
  <2>4. m \in 0..8
    BY <2>3
  <2> QED BY <2>4 DEF m
<1>2. StartSize(app_args_announced(values)) = 1
  BY DEF StartSize, app_args_announced, APPS_KV_MAX_COUNT
<1>3. BinSize(ARGUMENT_SIZE) = 10
  BY DEF BinSize, ARGUMENT_SIZE, APPS_KV_SLICE_MAX_SIZE
<1> QED
  <2> DEFINE n == Len(app_args(values))
  <2>1. app_args_size(values) = 1 + n * 10
    BY <1>2, <1>3 DEF app_args_size
  <2>2. n \in 0..8
    BY <1>1
  <2> HIDE DEF n
  <2> QED BY <2>1, <2>2

-----------------------------------------------------------------------------
(* The fields of a transaction, together.                                  *)

(* The parts that txn_fields puts together.                                *)
CallFields(tx) == IF IsAppl(tx) THEN app_call_options(tx) ELSE <<>>

(* The fields that every transaction has in the middle. *)
RoundFields(tx) ==
  <<Field("fee", tx.fee), Field("fv", tx.first_valid), Field("gen", StrSize(12)),
    Field("gh", BinSize(32)), Field("lv", tx.last_valid)>>

(* The fields that every transaction has at the end. *)
LastFields(tx) == <<Field("snd", BinSize(ADDRESS_LENGTH)), Field("type", StrSize(TextLength[tx.type]))>>

(* The arguments and the option of an application call. *)
LEMMA CallWritten ==
  ASSUME NEW tx, IsTransaction(tx)
  PROVE  Written(CallFields(tx), 1, 3,
                 IF IsAppl(tx) THEN Count(tx.values # <<>>) + Count(tx.opt_in) ELSE 0, 0, 92)
<1>1. CASE ~IsAppl(tx)
  <2>1. Written(<<>>, 1, 3, 0, 0, 0)
    BY WrittenNone
  <2>2. Written(<<>>, 1, 3, 0, 0, 92)
    BY <2>1, WrittenWithin
  <2> QED BY <1>1, <2>2 DEF CallFields
<1>2. CASE IsAppl(tx)
  <2> DEFINE c == tx.values # <<>>
             o == tx.opt_in
             a == When(c, Field("apaa", app_args_size(tx.values)))
             b == When(o, Field("apan", 1))
  <2>1. app_args_size(tx.values) \in 1..81
    BY ArgumentsSize DEF IsTransaction
  <2>2. Written(a, 1, 2, Count(c), 0, 86)
    <3>1. /\ c \in BOOLEAN /\ "apaa" \in ToSet(Alphabet) /\ 1 < Rank("apaa") /\ Rank("apaa") <= 2
          /\ app_args_size(tx.values) \in Nat /\ KeySize("apaa") + app_args_size(tx.values) <= 86
      BY <2>1, RanksAre, KeySizesAre
    <3> HIDE DEF c
    <3> QED BY <3>1, WrittenWhen
  <2>3. Written(b, 2, 3, Count(o), 0, 6)
    <3>1. /\ o \in BOOLEAN /\ "apan" \in ToSet(Alphabet) /\ 2 < Rank("apan") /\ Rank("apan") <= 3
          /\ KeySize("apan") + 1 <= 6
      BY RanksAre, KeySizesAre DEF IsTransaction
    <3> HIDE DEF o
    <3> QED BY <3>1, WrittenWhen
  <2>4. CallFields(tx) = a \o b
    BY <1>2 DEF CallFields, app_call_options
  <2> HIDE DEF a, b, c, o
  <2>5. Written(a \o b, 1, 3, Count(c) + Count(o), 0 + 0, 86 + 6)
    BY <2>2, <2>3, WrittenConcat
  <2>6. 0 + 0 = 0 /\ 86 + 6 = 92
    OBVIOUS
  <2>7. Written(CallFields(tx), 1, 3, Count(c) + Count(o), 0, 92)
    BY <2>4, <2>5, <2>6
  <2> QED BY <1>2, <2>7 DEF c, o
<1> QED
  BY <1>1, <1>2

(* The fee, the rounds and the network. *)
LEMMA RoundWritten ==
  ASSUME NEW tx, IsTransaction(tx)
  PROVE  Written(RoundFields(tx), 4, 9, 5, 67, 91)
<1> DEFINE fee == Field("fee", tx.fee)
           fv == Field("fv", tx.first_valid)
           gen == Field("gen", StrSize(12))
           gh == Field("gh", BinSize(32))
           lv == Field("lv", tx.last_valid)
           two == <<fee, fv>>
           three == <<fee, fv, gen>>
           four == <<fee, fv, gen, gh>>
           five == <<fee, fv, gen, gh, lv>>
<1>1. tx.fee \in 1..9 /\ tx.first_valid \in 1..9 /\ tx.last_valid \in 1..9
  BY DEF IsTransaction, NumberSizes
<1>2. StrSize(12) = 13 /\ BinSize(32) = 34
  BY DEF StrSize, BinSize
<1>3. {"fee", "fv", "gen", "gh", "lv"} \subseteq ToSet(Alphabet)
  BY RanksAre
<1>4. Written(<<fee>>, 4, 5, 1, 5, 13)
  <2>1. KeySize("fee") + tx.fee \in 5..13 /\ tx.fee \in Nat /\ 4 < Rank("fee") /\ Rank("fee") <= 5
    BY <1>1, KeySizesAre, RanksAre
  <2> QED BY <1>3, <2>1, WrittenOne
<1>5. Written(<<fv>>, 5, 6, 1, 4, 12)
  <2>1. KeySize("fv") + tx.first_valid \in 4..12 /\ tx.first_valid \in Nat /\ 5 < Rank("fv") /\ Rank("fv") <= 6
    BY <1>1, KeySizesAre, RanksAre
  <2> QED BY <1>3, <2>1, WrittenOne
<1>6. Written(<<gen>>, 6, 7, 1, 17, 17)
  <2>1. KeySize("gen") + StrSize(12) \in 17..17 /\ StrSize(12) \in Nat /\ 6 < Rank("gen") /\ Rank("gen") <= 7
    BY <1>2, KeySizesAre, RanksAre
  <2> QED BY <1>3, <2>1, WrittenOne
<1>7. Written(<<gh>>, 7, 8, 1, 37, 37)
  <2>1. KeySize("gh") + BinSize(32) \in 37..37 /\ BinSize(32) \in Nat /\ 7 < Rank("gh") /\ Rank("gh") <= 8
    BY <1>2, KeySizesAre, RanksAre
  <2> QED BY <1>3, <2>1, WrittenOne
<1>8. Written(<<lv>>, 8, 9, 1, 4, 12)
  <2>1. KeySize("lv") + tx.last_valid \in 4..12 /\ tx.last_valid \in Nat /\ 8 < Rank("lv") /\ Rank("lv") <= 9
    BY <1>1, KeySizesAre, RanksAre
  <2> QED BY <1>3, <2>1, WrittenOne
<1>9. RoundFields(tx) = five
  BY DEF RoundFields
<1> HIDE DEF fee, fv, gen, gh, lv
<1> DEFINE T == {fee, fv, gen, gh, lv}
<1>10. two = <<fee>> \o <<fv>>
  <2>1. <<fee>> \in Seq(T) /\ fv \in T /\ two \in Seq(T) /\ Len(<<fee>>) = 1 /\ Len(two) = 1 + 1
        /\ two[1] = <<fee>>[1] /\ two[1 + 1] = fv
    OBVIOUS
  <2>2. \A i \in 1..1 : i = 1
    OBVIOUS
  <2> DEFINE s == <<fee>>
  <2> HIDE DEF two, T, s
  <2> QED BY <2>1, <2>2, OneMoreField DEF s
<1>11. three = two \o <<gen>>
  <2>1. two \in Seq(T) /\ gen \in T /\ three \in Seq(T) /\ Len(two) = 2 /\ Len(three) = 2 + 1
        /\ three[1] = two[1] /\ three[2] = two[2] /\ three[2 + 1] = gen
    OBVIOUS
  <2>2. \A i \in 1..2 : i = 1 \/ i = 2
    OBVIOUS
  <2> HIDE DEF two, three, T
  <2> QED BY <2>1, <2>2, OneMoreField
<1>12. four = three \o <<gh>>
  <2>1. three \in Seq(T) /\ gh \in T /\ four \in Seq(T) /\ Len(three) = 3 /\ Len(four) = 3 + 1
        /\ four[1] = three[1] /\ four[2] = three[2] /\ four[3] = three[3] /\ four[3 + 1] = gh
    OBVIOUS
  <2>2. \A i \in 1..3 : i = 1 \/ i = 2 \/ i = 3
    OBVIOUS
  <2> HIDE DEF three, four, T
  <2> QED BY <2>1, <2>2, OneMoreField
<1>13. five = four \o <<lv>>
  <2>1. four \in Seq(T) /\ lv \in T /\ five \in Seq(T) /\ Len(four) = 4 /\ Len(five) = 4 + 1
        /\ five[1] = four[1] /\ five[2] = four[2] /\ five[3] = four[3] /\ five[4] = four[4] /\ five[4 + 1] = lv
    OBVIOUS
  <2>2. \A i \in 1..4 : i = 1 \/ i = 2 \/ i = 3 \/ i = 4
    OBVIOUS
  <2> HIDE DEF four, five, T
  <2> QED BY <2>1, <2>2, OneMoreField
<1> DEFINE w == <<fee>>
           x == <<fv>>
           y == <<gen>>
           z == <<gh>>
           l == <<lv>>
<1> HIDE DEF two, three, four, five, w, x, y, z, l
<1>14. Written(w \o x, 4, 6, 1 + 1, 5 + 4, 13 + 12)
  BY <1>4, <1>5, WrittenConcat DEF w, x
<1>15. Written(two \o y, 4, 7, 2 + 1, 9 + 17, 25 + 17)
  <2>0. two = w \o x
    BY <1>10 DEF w, x
  <2>1. Written(two, 4, 6, 2, 9, 25)
    BY <2>0, <1>14
  <2> QED BY <2>1, <1>6, WrittenConcat DEF y
<1>16. Written(three \o z, 4, 8, 3 + 1, 26 + 37, 42 + 37)
  <2>1. Written(three, 4, 7, 3, 26, 42)
    BY <1>11, <1>15 DEF y
  <2> QED BY <2>1, <1>7, WrittenConcat DEF z
<1>17. Written(four \o l, 4, 9, 4 + 1, 63 + 4, 79 + 12)
  <2>1. Written(four, 4, 8, 4, 63, 79)
    BY <1>12, <1>16 DEF z
  <2> QED BY <2>1, <1>8, WrittenConcat DEF l
<1>18. Written(five, 4, 9, 5, 67, 91)
  BY <1>13, <1>17 DEF l
<1> QED
  BY <1>9, <1>18

(* The sender and the type. *)
LEMMA LastWritten ==
  ASSUME NEW tx, IsTransaction(tx)
  PROVE  Written(LastFields(tx), 11, 13, 2, 47, 48)
<1> DEFINE size == StrSize(TextLength[tx.type])
           snd == Field("snd", BinSize(ADDRESS_LENGTH))
           type == Field("type", size)
           both == <<snd, type>>
<1>1. BinSize(ADDRESS_LENGTH) = 34 /\ size \in 4..5
  BY DEF BinSize, ADDRESS_LENGTH, StrSize, TextLength, IsTransaction
<1> HIDE DEF size
<1>2. {"snd", "type"} \subseteq ToSet(Alphabet)
  BY RanksAre
<1>3. Written(<<snd>>, 11, 12, 1, 38, 38)
  <2>1. KeySize("snd") + BinSize(ADDRESS_LENGTH) \in 38..38 /\ BinSize(ADDRESS_LENGTH) \in Nat
        /\ 11 < Rank("snd") /\ Rank("snd") <= 12
    BY <1>1, KeySizesAre, RanksAre
  <2> QED BY <1>2, <2>1, WrittenOne
<1>4. Written(<<type>>, 12, 13, 1, 9, 10)
  <2>1. KeySize("type") + size \in 9..10 /\ size \in Nat /\ 12 < Rank("type") /\ Rank("type") <= 13
    BY <1>1, KeySizesAre, RanksAre
  <2> QED BY <1>2, <2>1, WrittenOne
<1>5. LastFields(tx) = both
  BY DEF LastFields, size
<1> HIDE DEF snd, type
<1> DEFINE T == {snd, type}
<1>6. both = <<snd>> \o <<type>>
  <2>1. <<snd>> \in Seq(T) /\ type \in T /\ both \in Seq(T) /\ Len(<<snd>>) = 1 /\ Len(both) = 1 + 1
        /\ both[1] = <<snd>>[1] /\ both[1 + 1] = type
    OBVIOUS
  <2>2. \A i \in 1..1 : i = 1
    OBVIOUS
  <2> DEFINE s == <<snd>>
  <2> HIDE DEF both, T, s
  <2> QED BY <2>1, <2>2, OneMoreField DEF s
<1> DEFINE x == <<snd>>
           y == <<type>>
<1> HIDE DEF x, y, both
<1>7. Written(x \o y, 11, 13, 1 + 1, 38 + 9, 38 + 10)
  BY <1>3, <1>4, WrittenConcat DEF x, y
<1>8. both = x \o y
  BY <1>6 DEF x, y
<1>9. Written(both, 11, 13, 2, 47, 48)
  BY <1>7, <1>8
<1> QED
  BY <1>5, <1>9

(* The bytes of the note.                                                  *)
NoteRoom(tx) == IF tx.note \in Nat THEN 5 + BinSize(tx.note) ELSE 0

(* What encode_tx writes: as many fields as announced, in order.           *)
LEMMA TransactionWritten ==
  ASSUME NEW tx, IsTransaction(tx)
  PROVE  /\ Written(txn_fields(tx), 0, 13, txn_map_element_count(tx), 114, 296 + NoteRoom(tx))
         /\ txn_map_element_count(tx) \in 7..11
<1> DEFINE p == IsPay(tx)
           c == IsAppl(tx)
           hasNote == tx.note # NoNote
           calls == IF c THEN Count(tx.values # <<>>) + Count(tx.opt_in) ELSE 0
           amt == When(p, Field("amt", tx.amount))
           apid == When(c, Field("apid", tx.app_id))
           note == When(hasNote, Field("note", BinSize(tx.note)))
           rcv == When(p, Field("rcv", BinSize(ADDRESS_LENGTH)))
           notes == NoteRoom(tx)
           s1 == amt \o CallFields(tx)
           s2 == s1 \o apid
           s3 == s2 \o RoundFields(tx)
           s4 == s3 \o note
           s5 == s4 \o rcv
           s6 == s5 \o LastFields(tx)
<1>1. /\ tx.amount \in 1..9 /\ tx.app_id \in 1..9 /\ (tx.note \in Nat \/ tx.note = -1)
      /\ p \in BOOLEAN /\ c \in BOOLEAN /\ hasNote \in BOOLEAN /\ (c <=> ~p)
      /\ (hasNote <=> tx.note \in Nat)
      /\ tx.opt_in \in BOOLEAN
  BY DEF IsTransaction, NumberSizes, IsPay, IsAppl, NoNote
<1>2. txn_fields(tx) = s6
  BY DEF txn_fields, CallFields, RoundFields, LastFields
<1>3. notes \in Nat /\ (hasNote => BinSize(tx.note) \in Nat /\ KeySize("note") + BinSize(tx.note) <= notes)
  BY <1>1, KeySizesAre DEF BinSize, NoteRoom
<1>4. txn_map_element_count(tx) = (((((Count(p) + calls) + Count(c)) + 5) + Count(hasNote)) + Count(p)) + 2
      /\ txn_map_element_count(tx) \in 7..11
  <2>1. CASE p
    BY <1>1, <2>1 DEF txn_map_element_count, Count
  <2>2. CASE ~p
    BY <1>1, <2>2 DEF txn_map_element_count, Count
  <2> QED BY <2>1, <2>2
<1>5. BinSize(ADDRESS_LENGTH) = 34
  BY DEF BinSize, ADDRESS_LENGTH
<1>6. {"amt", "apid", "note", "rcv"} \subseteq ToSet(Alphabet)
  BY RanksAre
<1> HIDE DEF p, c, hasNote, calls, notes
<1>7. Written(amt, 0, 1, Count(p), 0, 13)
  <2>1. 0 < Rank("amt") /\ Rank("amt") <= 1 /\ tx.amount \in Nat /\ KeySize("amt") + tx.amount <= 13
    BY <1>1, KeySizesAre, RanksAre
  <2> QED BY <1>1, <1>6, <2>1, WrittenWhen
<1>8. Written(CallFields(tx), 1, 3, calls, 0, 92)
  BY CallWritten DEF calls, c
<1>9. Written(apid, 3, 4, Count(c), 0, 14)
  <2>1. 3 < Rank("apid") /\ Rank("apid") <= 4 /\ tx.app_id \in Nat /\ KeySize("apid") + tx.app_id <= 14
    BY <1>1, KeySizesAre, RanksAre
  <2> QED BY <1>1, <1>6, <2>1, WrittenWhen
<1>10. Written(note, 9, 10, Count(hasNote), 0, notes)
  <2>1. 9 < Rank("note") /\ Rank("note") <= 10
    BY RanksAre
  <2> QED BY <1>1, <1>3, <1>6, <2>1, WrittenWhen
<1>11. Written(rcv, 10, 11, Count(p), 0, 38)
  <2>1. /\ 10 < Rank("rcv") /\ Rank("rcv") <= 11
        /\ BinSize(ADDRESS_LENGTH) \in Nat /\ KeySize("rcv") + BinSize(ADDRESS_LENGTH) <= 38
    BY <1>5, KeySizesAre, RanksAre
  <2> QED BY <1>1, <1>6, <2>1, WrittenWhen
<1> HIDE DEF amt, apid, note, rcv, s1, s2, s3, s4, s5, s6
<1>12. Written(s1, 0, 3, Count(p) + calls, 0, 105)
  <2>1. Written(s1, 0, 3, Count(p) + calls, 0 + 0, 13 + 92)
    BY <1>7, <1>8, WrittenConcat DEF s1
  <2> QED BY <2>1
<1>13. Written(s2, 0, 4, (Count(p) + calls) + Count(c), 0, 119)
  <2>1. Written(s2, 0, 4, (Count(p) + calls) + Count(c), 0 + 0, 105 + 14)
    BY <1>9, <1>12, WrittenConcat DEF s2
  <2> QED BY <2>1
<1>14. Written(s3, 0, 9, ((Count(p) + calls) + Count(c)) + 5, 67, 210)
  <2>1. Written(s3, 0, 9, ((Count(p) + calls) + Count(c)) + 5, 0 + 67, 119 + 91)
    BY <1>13, RoundWritten, WrittenConcat DEF s3
  <2> QED BY <2>1
<1>15. Written(s4, 0, 10, (((Count(p) + calls) + Count(c)) + 5) + Count(hasNote), 67, 210 + notes)
  <2>1. Written(s4, 0, 10, (((Count(p) + calls) + Count(c)) + 5) + Count(hasNote), 67 + 0, 210 + notes)
    BY <1>3, <1>10, <1>14, WrittenConcat DEF s4
  <2> QED BY <2>1
<1>16. Written(s5, 0, 11, ((((Count(p) + calls) + Count(c)) + 5) + Count(hasNote)) + Count(p),
               67, (210 + notes) + 38)
  <2>1. Written(s5, 0, 11, ((((Count(p) + calls) + Count(c)) + 5) + Count(hasNote)) + Count(p),
                67 + 0, (210 + notes) + 38)
    BY <1>3, <1>11, <1>15, WrittenConcat DEF s5
  <2> QED BY <2>1
<1>17. Written(s6, 0, 13, (((((Count(p) + calls) + Count(c)) + 5) + Count(hasNote)) + Count(p)) + 2,
               67 + 47, ((210 + notes) + 38) + 48)
  BY <1>3, <1>16, LastWritten, WrittenConcat DEF s6
<1>18. 67 + 47 = 114 /\ ((210 + notes) + 38) + 48 = 296 + notes
  BY <1>3
<1>19. Written(txn_fields(tx), 0, 13, txn_map_element_count(tx), 114, 296 + NoteRoom(tx))
  BY <1>2, <1>4, <1>17, <1>18 DEF notes
<1> QED
  BY <1>4, <1>19

-----------------------------------------------------------------------------
(* The invariant: what the last call returned is what it makes of its      *)
(* arguments.                                                              *)
Was(fn, in, out) == call = [fn |-> fn, in |-> in, out |-> out]

(* A pay transaction whose note does not fit is refused, see transaction_pay. *)
OutOfTransaction(tx) ==
  IF IsPay(tx) /\ ~params_fit(tx.note) THEN [ret |-> "INVALID_PARAM"] ELSE encode_tx(tx)

(* A text in base 64 from the node, decoded. *)
OutOfText(data, size) == decoded_into(size, NodeText(data))

(* Bytes encoded and decoded, with the sizes of base64.h. *)
OutOfBase64(data) ==
  LET text == b64_encode(data, BASE64_ENCODE_LEN(Len(data))).data
  IN  [text |-> text, data |-> b64_decode(text, BASE64_DECODE_MIN_LEN(Len(text))).data]

(* An address of a public key, and the key of the address. *)
OutOfAddress(public_key) ==
  [public_b32 |-> address_of(public_key), public_key |-> from_b32_init(address_of(public_key))]

(* The public key of an address that somebody typed. *)
OutOfTyped(public_key, typo) == [public_key |-> from_b32_init(Typed(typo, address_of(public_key)))]

(* Bytes encoded and decoded, with the sizes of base32.h. *)
OutOfBase32(data) ==
  LET text == b32_encode(data, BASE32_ENCODE_LEN(Len(data)))
  IN  [text |-> text, data |-> b32_decode(text, BASE32_DECODE_MIN_LEN(Len(text))).data]

(* The state of an application. *)
OutOfAnswer(answer, values) ==
  parser_application_json([answer EXCEPT !.globals = [i \in DOMAIN @ |-> WithText(@[i])]], values)

(* The headers of a post, on either port. *)
OutOfPost(lines) ==
  LET header == post_header(Joined(lines))
  IN  IF header.ret # "SUCCESS" THEN [ret |-> header.ret]
      ELSE [ret |-> "SUCCESS", unix |-> curl_post_lines(header.text), esp32 |-> esp32_headers(header.text)]

(* One disjunct per call. *)
CallInv ==
  \/ \E tx \in Transactions : Was("transaction_new", tx, OutOfTransaction(tx))
  \/ \E k \in PublicKeys : Was("genesis_hash", k, OutOfText(k, 32))
  \/ \E n \in Names : Was("application_key", n, OutOfText(n, KEY_STR_SIZE))
  \/ \E d \in Datas : Was("base64_and_back", d, OutOfBase64(d))
  \/ \E k \in PublicKeys : Was("account_new_from_bin", k, OutOfAddress(k))
  \/ \E d \in Datas : Was("base32_and_back", d, OutOfBase32(d))
  \/ \E a \in StateAnswers, n \in 0..APPS_KV_MAX_COUNT :
       Was("application_get", [answer |-> a, values |-> Earlier(n)], OutOfAnswer(a, Earlier(n)))
  \/ \E h \in Headers : Was("tx_post", h, OutOfPost(h))
  \/ \E k \in PublicKeys, t \in Typos : Was("account_new_from_b32", k, OutOfTyped(k, t))
  \/ call.fn \in {"none", "info_get"}

(* It holds after every call. *)
LEMMA CallInvHolds == Spec => []CallInv
<1>1. Init => CallInv
  BY DEF Init, Idle, CallInv
<1>2. CallInv /\ [Next]_call => CallInv'
  <2> SUFFICES ASSUME CallInv, [Next]_call PROVE CallInv'
    OBVIOUS
  <2>1. CASE UNCHANGED call
    BY <2>1 DEF CallInv, Was
  <2>2. CASE Return
    BY <2>2 DEF Return, Idle, CallInv
  <2>3. ASSUME NEW tx \in Transactions, transaction_new(tx) PROVE CallInv'
    <3>1. CASE IsPay(tx) /\ ~params_fit(tx.note)
      <4>1. Was("transaction_new", tx, OutOfTransaction(tx))'
        BY <2>3, <3>1 DEF transaction_new, Call, OutOfTransaction, Was
      <4> QED BY <4>1 DEF CallInv
    <3>2. CASE ~(IsPay(tx) /\ ~params_fit(tx.note))
      <4>1. Was("transaction_new", tx, OutOfTransaction(tx))'
        BY <2>3, <3>2 DEF transaction_new, Call, OutOfTransaction, Was
      <4> QED BY <4>1 DEF CallInv
    <3> QED BY <3>1, <3>2
  <2>4. ASSUME NEW k \in PublicKeys, genesis_hash(k) PROVE CallInv'
    <3>1. Was("genesis_hash", k, OutOfText(k, 32))'
      BY <2>4 DEF genesis_hash, Call, OutOfText, Was
    <3> QED BY <3>1 DEF CallInv
  <2>5. ASSUME NEW n \in Names, application_key(n) PROVE CallInv'
    <3>1. Was("application_key", n, OutOfText(n, KEY_STR_SIZE))'
      BY <2>5 DEF application_key, Call, OutOfText, Was
    <3> QED BY <3>1 DEF CallInv
  <2>6. ASSUME NEW d \in Datas, base64_and_back(d) PROVE CallInv'
    <3>1. Was("base64_and_back", d, OutOfBase64(d))'
      BY <2>6 DEF base64_and_back, Call, OutOfBase64, Was
    <3> QED BY <3>1 DEF CallInv
  <2>7. ASSUME NEW a \in StateAnswers, NEW n \in 0..APPS_KV_MAX_COUNT, application_get(a, Earlier(n))
        PROVE  CallInv'
    <3>1. Was("application_get", [answer |-> a, values |-> Earlier(n)], OutOfAnswer(a, Earlier(n)))'
      BY <2>7 DEF application_get, Call, OutOfAnswer, Was
    <3> QED BY <3>1 DEF CallInv
  <2>8. ASSUME NEW h \in Headers, tx_post(h) PROVE CallInv'
    <3>1. Was("tx_post", h, OutOfPost(h))'
      BY <2>8 DEF tx_post, Call, OutOfPost, Was
    <3> QED BY <3>1 DEF CallInv
  <2>9. ASSUME NEW k \in PublicKeys, account_new_from_bin(k) PROVE CallInv'
    <3>1. Was("account_new_from_bin", k, OutOfAddress(k))'
      BY <2>9 DEF account_new_from_bin, Call, OutOfAddress, Was
    <3> QED BY <3>1 DEF CallInv
  <2>10. ASSUME NEW k \in PublicKeys, NEW t \in Typos, account_new_from_b32(k, t) PROVE CallInv'
    <3>1. Was("account_new_from_b32", k, OutOfTyped(k, t))'
      BY <2>10 DEF account_new_from_b32, Call, OutOfTyped, Was
    <3> QED BY <3>1 DEF CallInv
  <2>11. ASSUME NEW d \in Datas, base32_and_back(d) PROVE CallInv'
    <3>1. Was("base32_and_back", d, OutOfBase32(d))'
      BY <2>11 DEF base32_and_back, Call, OutOfBase32, Was
    <3> QED BY <3>1 DEF CallInv
  <2>12. ASSUME NEW h \in Headers, info_get(h) PROVE CallInv'
    BY <2>12 DEF info_get, Call, CallInv
  <2> QED BY <2>1, <2>2, <2>3, <2>4, <2>5, <2>6, <2>7, <2>8, <2>9, <2>10, <2>11, <2>12 DEF Next
<1> QED
  BY <1>1, <1>2, PTL DEF Spec

(* A transaction that was encoded.                                         *)
LEMMA TransactionCalls ==
  ASSUME CallInv, call.fn = "transaction_new"
  PROVE  \E tx \in Transactions : call.in = tx /\ call.out = OutOfTransaction(tx)
BY DEF CallInv, Was

-----------------------------------------------------------------------------
(* The theorems about transactions.                                        *)

(* A payload has as many fields as it announces, all different, and as     *)
(* many arguments as it announces unless one is of an unknown type.        *)
THEOREM MapsComplete == Spec => []MapsAreComplete
<1>1. ASSUME CallInv PROVE MapsAreComplete
  <2> SUFFICES ASSUME call.fn = "transaction_new", call.out.ret = "SUCCESS"
               PROVE  /\ call.out.announced = Len(call.out.fields)
                      /\ IsInjective([i \in DOMAIN call.out.fields |-> call.out.fields[i].key])
                      /\ "none" \notin ToSet(call.in.values) =>
                           Len(app_args(call.in.values)) = app_args_announced(call.in.values)
    BY DEF MapsAreComplete
  <2>1. PICK tx \in Transactions : call.in = tx /\ call.out = OutOfTransaction(tx)
    BY <1>1, TransactionCalls
  <2>2. IsTransaction(tx)
    BY FormatsAssumption
  <2>3. call.out.announced = txn_map_element_count(tx) /\ call.out.fields = txn_fields(tx)
    BY <2>1 DEF OutOfTransaction, encode_tx
  <2> DEFINE fields == txn_fields(tx)
  <2>4. Ordered(fields, 0, 13) /\ Len(fields) = txn_map_element_count(tx)
    BY <2>2, TransactionWritten DEF Written
  <2> HIDE DEF fields
  <2>5. IsInjective([i \in DOMAIN fields |-> fields[i].key])
    <3>1. DOMAIN fields = 1..Len(fields) /\ Len(fields) \in Nat
      BY <2>4 DEF Ordered
    <3>2. ASSUME NEW i \in DOMAIN fields, NEW j \in DOMAIN fields, fields[i].key = fields[j].key
          PROVE  i = j
      <4>1. RankAt(fields, i) = RankAt(fields, j) /\ RankAt(fields, i) \in Nat
        BY <2>4, <3>1, <3>2 DEF RankAt, Ordered
      <4>2. i \in Nat /\ j \in Nat /\ (i < j => RankAt(fields, i) < RankAt(fields, j))
            /\ (j < i => RankAt(fields, j) < RankAt(fields, i))
        BY <2>4, <3>1 DEF Ordered
      <4>3. RankAt(fields, i) \in Nat /\ RankAt(fields, j) \in Nat
        BY <4>1
      <4> QED BY <4>1, <4>2, <4>3
    <3> QED BY <3>2 DEF IsInjective
  <2>6. "none" \notin ToSet(tx.values) => Len(app_args(tx.values)) = app_args_announced(tx.values)
    <3>1. tx.values \in Seq({"integer", "byteslice", "none"})
      BY <2>2 DEF IsTransaction
    <3> QED BY <3>1, ArgumentsAnnounced DEF app_args_announced
  <2> QED BY <2>1, <2>3, <2>4, <2>5, <2>6 DEF fields
<1> QED
  BY <1>1, CallInvHolds, PTL

(* The fields of a payload are in the order in which the network wants     *)
(* them.                                                                   *)
THEOREM FieldsSorted == Spec => []FieldsAreSorted
<1>1. ASSUME CallInv PROVE FieldsAreSorted
  <2> SUFFICES ASSUME call.fn = "transaction_new", call.out.ret = "SUCCESS",
                      NEW i \in DOMAIN call.out.fields, NEW j \in DOMAIN call.out.fields, i < j
               PROVE  Rank(call.out.fields[i].key) < Rank(call.out.fields[j].key)
    BY DEF FieldsAreSorted
  <2>1. PICK tx \in Transactions : call.in = tx /\ call.out = OutOfTransaction(tx)
    BY <1>1, TransactionCalls
  <2>2. call.out.fields = txn_fields(tx)
    BY <2>1 DEF OutOfTransaction, encode_tx
  <2> DEFINE fields == txn_fields(tx)
  <2>3. Ordered(fields, 0, 13)
    <3>1. IsTransaction(tx)
      BY FormatsAssumption
    <3> QED BY <3>1, TransactionWritten DEF Written
  <2> HIDE DEF fields
  <2>4. DOMAIN fields = 1..Len(fields)
    BY <2>3 DEF Ordered
  <2>5. i \in 1..Len(fields) /\ j \in 1..Len(fields)
    BY <2>2, <2>4 DEF fields
  <2>6. RankAt(fields, i) < RankAt(fields, j)
    BY <2>3, <2>5 DEF Ordered
  <2> QED BY <2>2, <2>6 DEF RankAt, fields
<1> QED
  BY <1>1, CallInvHolds, PTL

(* A transaction that the API lets through fits in the payload, and its    *)
(* signature is among the bytes that are looked at for it.                 *)
THEOREM PayloadUsable == Spec => []PayloadIsUsable
<1>1. ASSUME CallInv PROVE PayloadIsUsable
  <2> SUFFICES ASSUME call.fn = "transaction_new", call.out.ret # "INVALID_PARAM"
               PROVE  call.out.ret = "SUCCESS" /\ signature_found(call.out.body)
    BY DEF PayloadIsUsable
  <2>1. PICK tx \in Transactions : call.in = tx /\ call.out = OutOfTransaction(tx)
    BY <1>1, TransactionCalls
  <2>2. ~(IsPay(tx) /\ ~params_fit(tx.note)) /\ call.out = encode_tx(tx)
    BY <2>1 DEF OutOfTransaction
  <2>3. IsTransaction(tx)
    BY FormatsAssumption
  <2>4. NoteRoom(tx) \in 0..135
    <3>1. tx.note \in Nat => tx.note <= 128
      BY <2>2, <2>3 DEF IsTransaction, params_fit, NoNote, OPTIONAL_TX_FIELDS_MAX_SIZE_BYTES, IsPay, IsAppl
    <3> QED BY <3>1 DEF NoteRoom, BinSize
  <2>5. FieldsSize(txn_fields(tx)) \in Nat /\ 114 <= FieldsSize(txn_fields(tx))
        /\ FieldsSize(txn_fields(tx)) <= 431
    <3>1. Ordered(txn_fields(tx), 0, 13)
          /\ 114 <= FieldsSize(txn_fields(tx)) /\ FieldsSize(txn_fields(tx)) <= 296 + NoteRoom(tx)
      BY <2>3, TransactionWritten DEF Written
    <3>2. FieldsSize(txn_fields(tx)) \in Nat
      BY <3>1, SumGoesOn DEF Ordered
    <3> QED BY <2>4, <3>1, <3>2
  <2>6. StartSize(txn_map_element_count(tx)) = 1
    BY <2>3, TransactionWritten DEF StartSize
  <2>7. payload_header_length = 75 /\ signature_end = 71 /\ TX_PAYLOAD_MAX_LENGTH = 640
    BY DEF payload_header_length, signature_end, StartSize, StrSize, BinSize, SIGNATURE_LENGTH, TX_PAYLOAD_MAX_LENGTH
  <2>8. payload_body_length(tx) \in 115..432
    BY <2>5, <2>6 DEF payload_body_length
  <2>9. encode_tx(tx).ret = "SUCCESS" /\ encode_tx(tx).body = payload_body_length(tx)
    BY <2>7, <2>8 DEF encode_tx
  <2> QED BY <2>2, <2>7, <2>8, <2>9 DEF signature_found
<1> QED
  BY <1>1, CallInvHolds, PTL

-----------------------------------------------------------------------------
(* The theorems about codecs.                                              *)

(* A text from a node is what the encoder makes of the bytes. *)
LEMMA NodeTextIs == \A data : NodeText(data) = Text64(data)
BY DEF NodeText, Text64

(* A text from a node, with what was known of its buffer. *)
LEMMA OutOfTextIs ==
  ASSUME NEW data \in Seq(Byte), NEW size \in Nat
  PROVE  /\ OutOfText(data, size).size = size
         /\ IF data = <<>> \/ 3 * Groups(Len(data)) - 1 <= size
              THEN OutOfText(data, size).ret = "SUCCESS" /\ OutOfText(data, size).data = data
              ELSE OutOfText(data, size).ret = "NO_MEM"
<1>1. b64_decode(NodeText(data), size) =
        IF data = <<>> \/ 3 * Groups(Len(data)) - 1 <= size THEN [ret |-> "SUCCESS", data |-> data] ELSE NO_MEM
  BY DecodedBack, NodeTextIs
<1> QED
  BY <1>1 DEF OutOfText, decoded_into, NO_MEM

(* A text from a node is decoded to the bytes that were encoded, or refused *)
(* because they do not fit: no part of them is ever taken for the whole.    *)
THEOREM NodeTextsFit == Spec => []DecodedFits
<1>1. ASSUME CallInv PROVE DecodedFits
  <2>1. KEY_STR_SIZE = 16
    BY DEF KEY_STR_SIZE
  <2>2. ASSUME NEW data \in Seq(Byte), NEW size \in {16, 32}, size = 32 => Len(data) = 32,
               call.in = data, call.out = OutOfText(data, size)
        PROVE  \/ call.out.ret = "NO_MEM" /\ Len(call.in) >= call.out.size
               \/ call.out.data = call.in /\ Len(call.in) <= call.out.size
    <3>1. Len(data) \in Nat /\ 3 * Groups(Len(data)) - Len(data) \in 0..2 /\ Groups(Len(data)) \in Nat /\ size \in Nat
      BY GroupsCover
    <3>2. CASE data = <<>>
      <4>1. Len(data) = 0
        BY <3>2
      <4>2. OutOfText(data, size).data = data
        BY <3>1, <3>2, OutOfTextIs
      <4>3. call.out.data = call.in
        BY <2>2, <4>2
      <4>4. Len(call.in) <= size
        BY <2>2, <3>1, <4>1
      <4>5. call.out.size = size
        BY <2>2, <3>1, OutOfTextIs
      <4> QED BY <4>3, <4>4, <4>5
    <3>3. CASE data # <<>> /\ 3 * Groups(Len(data)) - 1 <= size
      <4>1. Len(data) <= size
        <5> DEFINE n == Len(data)
                   m == Groups(n)
        <5>1. n \in Nat /\ m \in Nat /\ 3 * m - n \in 0..2 /\ 3 * m - 1 <= size /\ (size = 32 => n = 32)
          BY <2>2, <3>1, <3>3
        <5> HIDE DEF n, m
        <5>2. CASE size = 16
          <6>1. n <= 16
            BY <5>1, <5>2
          <6> QED BY <5>2, <6>1 DEF n
        <5>3. CASE size = 32
          <6>1. n = 32
            BY <5>1, <5>3
          <6> QED BY <5>3, <6>1 DEF n
        <5> QED BY <5>2, <5>3
      <4> QED BY <2>2, <3>1, <3>3, <4>1, OutOfTextIs
    <3>4. CASE data # <<>> /\ ~(3 * Groups(Len(data)) - 1 <= size)
      <4>1. Len(data) >= size
        BY <2>2, <3>1, <3>4
      <4> QED BY <2>2, <3>1, <3>4, <4>1, OutOfTextIs
    <3> QED BY <3>2, <3>3, <3>4
  <2>3. CASE call.fn = "genesis_hash"
    <3>1. PICK k \in PublicKeys : call.in = k /\ call.out = OutOfText(k, 32)
      BY <1>1, <2>3 DEF CallInv, Was
    <3>2. k \in Seq(Byte) /\ Len(k) = 32
      BY FormatsAssumption DEF ADDRESS_LENGTH
    <3> QED BY <2>2, <3>1, <3>2 DEF DecodedFits
  <2>4. CASE call.fn = "application_key"
    <3>1. PICK n \in Names : call.in = n /\ call.out = OutOfText(n, 16)
      BY <1>1, <2>1, <2>4 DEF CallInv, Was
    <3>2. n \in Seq(Byte)
      BY FormatsAssumption
    <3> QED BY <2>2, <3>1, <3>2 DEF DecodedFits
  <2> QED BY <2>3, <2>4 DEF DecodedFits
<1> QED
  BY <1>1, CallInvHolds, PTL

(* The sizes of base64.h. *)
LEMMA Base64Reverses ==
  ASSUME NEW data \in Seq(Byte)
  PROVE  OutOfBase64(data).data = data /\ Len(OutOfBase64(data).text) % 4 = 0
<1> DEFINE m == Groups(Len(data))
           text == Text64(data)
<1>1. /\ m \in Nat /\ Len(text) = 4 * m /\ (Len(data) # 0 => m # 0) /\ Len(data) \in Nat
      /\ (data = <<>> <=> Len(data) = 0)
  <2>1. data = <<>> <=> Len(data) = 0
    OBVIOUS
  <2>2. m \in Nat /\ (Len(data) # 0 => m # 0) /\ Len(data) \in Nat
    BY GroupsCover
  <2>3. Len(text) = 4 * m
    BY EncodedText
  <2> QED BY <2>1, <2>2, <2>3
<1>2. BASE64_DECODE_MIN_LEN(Len(text)) \in Nat
      /\ (data = <<>> \/ 3 * m - 1 <= BASE64_DECODE_MIN_LEN(Len(text)))
  <2> HIDE DEF m, text
  <2>1. m # 0 => 4 * m > 3 /\ (4 * m) \div 4 = m
    BY <1>1
  <2>2. m = 0 => ~(4 * m > 3)
    OBVIOUS
  <2>3. BASE64_DECODE_MIN_LEN(4 * m) = IF m # 0 THEN 3 * m ELSE 0
    BY <1>1, <2>1, <2>2 DEF BASE64_DECODE_MIN_LEN
  <2> QED BY <1>1, <2>3 DEF m
<1>3. b64_decode(text, BASE64_DECODE_MIN_LEN(Len(text))) = [ret |-> "SUCCESS", data |-> data]
  <2> HIDE DEF text
  <2> QED BY <1>2, DecodedBack DEF text
<1>4. OutOfBase64(data) = [text |-> text, data |-> b64_decode(text, BASE64_DECODE_MIN_LEN(Len(text))).data]
  BY DEF OutOfBase64, Text64
<1>5. (4 * m) % 4 = 0
  <2> HIDE DEF m
  <2> QED BY <1>1
<1> HIDE DEF text, m
<1> QED
  BY <1>1, <1>3, <1>4, <1>5

(* The first elements of a concatenation, and a part of a sequence. *)
LEMMA FirstOfBoth ==
  ASSUME NEW T, NEW s \in Seq(T), NEW t \in Seq(T)
  PROVE  /\ s \o t \in Seq(T) /\ Len(s \o t) = Len(s) + Len(t)
         /\ \A i \in 1..Len(s) : (s \o t)[i] = s[i]
<1>1. Len(s) \in Nat /\ Len(t) \in Nat
  OBVIOUS
<1> QED
  BY <1>1, ConcatProperties

(* A part of a sequence. *)
LEMMA PartOf ==
  ASSUME NEW T, NEW s \in Seq(T), NEW m \in Nat \ {0}, NEW n \in Nat, m <= n, n <= Len(s)
  PROVE  /\ SubSeq(s, m, n) \in Seq(T) /\ Len(SubSeq(s, m, n)) = (n - m) + 1
         /\ m = 1 => \A i \in 1..n : SubSeq(s, m, n)[i] = s[i]
<1>1. \A i \in m..n : s[i] \in T
  <2>1. \A i \in m..n : i \in 1..Len(s)
    OBVIOUS
  <2> QED BY <2>1
<1>2. /\ SubSeq(s, m, n) \in Seq(T) /\ Len(SubSeq(s, m, n)) = n - m + 1
      /\ \A i \in 1..(n - m + 1) : SubSeq(s, m, n)[i] = s[m + i - 1]
  BY <1>1, SubSeqProperties
<1> QED
  BY <1>2

(* The first part of a sequence. *)
LEMMA FirstPartOf ==
  ASSUME NEW T, NEW s \in Seq(T), NEW n \in Nat \ {0}, n <= Len(s)
  PROVE  /\ SubSeq(s, 1, n) \in Seq(T) /\ Len(SubSeq(s, 1, n)) = n
         /\ \A i \in 1..n : SubSeq(s, 1, n)[i] = s[i]
<1>1. 1 \in Nat \ {0} /\ 1 <= n /\ (n - 1) + 1 = n
  OBVIOUS
<1> QED
  BY <1>1, PartOf

(* The bytes behind an address. *)
LEMMA AddressBytes ==
  ASSUME NEW k \in PublicKeys
  PROVE  LET data == k \o SubSeq(Hash(k), 29, 32)
         IN  /\ data \in Seq(Byte) /\ Len(data) = 36
             /\ \A i \in 1..32 : data[i] = k[i]
<1> DEFINE h == Hash(k)
           sum == SubSeq(h, 29, 32)
           data == k \o sum
<1>1. k \in Seq(Byte) /\ Len(k) = 32 /\ h \in Seq(Byte) /\ Len(h) = 32
  BY FormatsAssumption DEF ADDRESS_LENGTH
<1> HIDE DEF h
<1>2. sum \in Seq(Byte) /\ Len(sum) = 4
  <2>1. SubSeq(h, 29, 32) \in Seq(Byte) /\ Len(SubSeq(h, 29, 32)) = (32 - 29) + 1
    BY <1>1, PartOf
  <2> QED BY <2>1
<1> HIDE DEF sum
<1>3. data \in Seq(Byte) /\ Len(data) = 36 /\ \A i \in 1..32 : data[i] = k[i]
  <2>1. data \in Seq(Byte) /\ Len(data) = Len(k) + Len(sum) /\ \A i \in 1..Len(k) : data[i] = k[i]
    <3>1. k \in Seq(Byte) /\ sum \in Seq(Byte)
      BY <1>1, <1>2
    <3> QED BY <3>1, FirstOfBoth, ZenonT(60)
  <2> HIDE DEF data
  <2> QED BY <1>1, <1>2, <2>1
<1> QED
  BY <1>3, Zenon DEF data, sum, h

(* As many digits as an address has. *)
HasDigits(address) ==
  /\ address \in Seq(B32Char \cup {"="}) /\ Len(address) = ADDRESS_TEXT_SIZE
  /\ \A i \in 1..ADDRESS_TEXT_SIZE : \E v \in 0..31 : address[i] = B32Digits[v + 1]

(* An address has its size, no padding, and the public key can be read from it. *)
LEMMA AddressIs ==
  ASSUME NEW k \in PublicKeys
  PROVE  /\ HasDigits(address_of(k)) /\ "=" \notin ToSet(address_of(k))
         /\ from_b32_init(address_of(k)) = k
<1> DEFINE data == k \o SubSeq(Hash(k), 29, 32)
           text == b32_encode(data, 58)
<1>1. data \in Seq(Byte) /\ Len(data) = 36 /\ \A i \in 1..32 : data[i] = k[i]
  BY AddressBytes, Zenon
<1>2. address_of(k) = text
  BY Zenon DEF address_of, ADDRESS_TEXT_SIZE
<1> HIDE DEF data
<1>3. data # <<>>
  <2>1. Len(<<>>) # 36
    OBVIOUS
  <2> QED BY <1>1, <2>1
<1>4. DigitCount(Len(data)) = 58 /\ b32_padding(58, 58) = 0 /\ 58 <= 58 /\ 58 \in Nat
  BY <1>1 DEF DigitCount, b32_padding
<1>5. Encodes(text, data) /\ Len(text) = 58
  <2>1. Encodes(text, data) /\ Len(text) = 58 + 0
    <3> DEFINE size == 58
    <3>1. size \in Nat /\ DigitCount(Len(data)) <= size
      BY <1>4
    <3> HIDE DEF size
    <3>2. /\ Encodes(b32_encode(data, size), data)
          /\ Len(b32_encode(data, size)) = DigitCount(Len(data)) + b32_padding(DigitCount(Len(data)), size)
      BY <1>1, <1>3, <3>1, Base32Encodes
    <3> QED BY <1>4, <3>2, Zenon DEF size
  <2> QED BY <2>1
<1>6. "=" \notin ToSet(text) /\ HasDigits(text)
  <2>1. \A j \in 0..57 : text[j + 1] = B32Digits[Quint(data, j) + 1]
    <3> HIDE DEF text
    <3>1. \A j \in 0..(DigitCount(Len(data)) - 1) : text[j + 1] = B32Digits[Quint(data, j) + 1]
      BY <1>5 DEF Encodes
    <3>2. DigitCount(Len(data)) - 1 = 57
      BY <1>4
    <3> QED BY <3>1, <3>2
  <2> HIDE DEF text
  <2>2. ASSUME NEW i \in 1..58 PROVE text[i] # "=" /\ \E v \in 0..31 : text[i] = B32Digits[v + 1]
    <3>1. i - 1 \in 0..57 /\ (i - 1) + 1 = i /\ 5 * (i - 1) < 8 * 36 /\ i - 1 \in Nat
      OBVIOUS
    <3>2. Quint(data, i - 1) \in 0..31
      BY <1>1, <3>1, QuintIs
    <3>3. text[i] = B32Digits[Quint(data, i - 1) + 1]
      BY <2>1, <3>1
    <3> QED BY <3>2, <3>3, Base32Char
  <2>3. ToSet(text) = {text[i] : i \in 1..58}
    <3>1. DOMAIN text = 1..58
      BY <1>5 DEF Encodes
    <3> QED BY <3>1 DEF ToSet
  <2>4. HasDigits(text)
    <3>1. text \in Seq(B32Char \cup {"="})
      BY <1>5 DEF Encodes
    <3> QED BY <1>5, <2>2, <3>1, ZenonT(60) DEF HasDigits, ADDRESS_TEXT_SIZE
  <2> QED BY <2>2, <2>3, <2>4
<1> HIDE DEF text
<1>7. b32_decode(text, 36).data = data
  <2>1. 36 \in Nat /\ Len(data) <= 36
    BY <1>1
  <2> DEFINE size == 36
  <2>2. size \in Nat /\ Len(data) <= size
    BY <2>1
  <2> HIDE DEF size
  <2>3. data \in Seq(Byte) /\ data # <<>> /\ Encodes(text, data)
    BY <1>1, <1>3, <1>5
  <2>4. b32_decode(text, size).data = data
    BY <2>2, <2>3, Base32Decodes
  <2> QED BY <2>4, Zenon DEF size
<1>8. SubSeq(data \o Zeros(32), 1, 32) = k
  <2> DEFINE zeros == Zeros(32)
             both == data \o zeros
             part == SubSeq(both, 1, 32)
  <2>1. zeros \in Seq(Byte) /\ Len(zeros) = 32
    BY DEF Zeros, Byte
  <2> HIDE DEF zeros
  <2>2. both \in Seq(Byte) /\ Len(both) = 68 /\ \A i \in 1..36 : both[i] = data[i]
    <3>1. both \in Seq(Byte) /\ Len(both) = Len(data) + Len(zeros) /\ \A i \in 1..Len(data) : both[i] = data[i]
      <4>1. data \in Seq(Byte) /\ zeros \in Seq(Byte)
        BY <1>1, <2>1
      <4> QED BY <4>1, FirstOfBoth
    <3> HIDE DEF both
    <3>2. Len(both) = 68
      BY <1>1, <2>1, <3>1
    <3>3. \A i \in 1..36 : both[i] = data[i]
      BY <1>1, <3>1
    <3> QED BY <3>1, <3>2, <3>3
  <2> HIDE DEF both
  <2>3. part \in Seq(Byte) /\ Len(part) = 32 /\ \A i \in 1..32 : part[i] = both[i]
    <3> DEFINE n == 32
    <3>1. n \in Nat \ {0} /\ n <= Len(both) /\ both \in Seq(Byte)
      BY <2>2
    <3> HIDE DEF n
    <3>2. /\ SubSeq(both, 1, n) \in Seq(Byte) /\ Len(SubSeq(both, 1, n)) = n
          /\ \A i \in 1..n : SubSeq(both, 1, n)[i] = both[i]
      BY <3>1, FirstPartOf
    <3> QED BY <3>2, Zenon DEF n
  <2>4. k \in Seq(Byte) /\ Len(k) = 32
    BY FormatsAssumption DEF ADDRESS_LENGTH
  <2> HIDE DEF part
  <2>5. \A i \in 1..32 : part[i] = k[i]
    <3> SUFFICES ASSUME NEW i \in 1..32 PROVE part[i] = k[i]
      OBVIOUS
    <3>1. i \in 1..36
      OBVIOUS
    <3>2. part[i] = both[i] /\ both[i] = data[i] /\ data[i] = k[i]
      BY <1>1, <2>2, <2>3, <3>1, Zenon
    <3> QED BY <3>2, Zenon
  <2>6. part = k
    BY <2>3, <2>4, <2>5, SeqEqual
  <2> QED BY <2>6, Zenon DEF part, both, zeros
<1>9. from_b32_init(text) = SubSeq(b32_decode(text, 36).data \o Zeros(32), 1, 32)
  BY Zenon DEF from_b32_init, PUBLIC_KEY_CHECKSUM_SIZE, ADDRESS_LENGTH
<1>10. from_b32_init(text) = k
  BY <1>7, <1>8, <1>9, Zenon
<1> QED
  BY <1>2, <1>5, <1>6, <1>10

(* An account made from a public key has this key again. *)
THEOREM AddressesSurvive == Spec => []AddressSurvives
<1>1. ASSUME CallInv PROVE AddressSurvives
  <2> SUFFICES ASSUME call.fn = "account_new_from_bin"
               PROVE  /\ call.out.public_key = call.in
                      /\ Len(call.out.public_b32) = ADDRESS_TEXT_SIZE
                      /\ "=" \notin ToSet(call.out.public_b32)
    BY DEF AddressSurvives
  <2>1. PICK k \in PublicKeys : call.in = k /\ call.out = OutOfAddress(k)
    BY <1>1 DEF CallInv, Was
  <2>2. call.out.public_b32 = address_of(k) /\ call.out.public_key = from_b32_init(address_of(k))
    BY <2>1 DEF OutOfAddress
  <2> QED BY <2>1, <2>2, AddressIs DEF HasDigits
<1> QED
  BY <1>1, CallInvHolds, PTL

(* The sizes of base32.h. *)
LEMMA Base32Reverses ==
  ASSUME NEW data \in Seq(Byte)
  PROVE  OutOfBase32(data).data = data /\ Len(OutOfBase32(data).text) % 8 = 0
<1> DEFINE n == Len(data)
           size == BASE32_ENCODE_LEN(n)
           text == b32_encode(data, size)
           room == BASE32_DECODE_MIN_LEN(Len(text))
<1>1. OutOfBase32(data) = [text |-> text, data |-> b32_decode(text, room).data]
  BY Zenon DEF OutOfBase32
<1>2. n \in Nat
  OBVIOUS
<1>3. CASE data = <<>>
  <2>1. text = <<>>
    BY <1>3 DEF b32_encode
  <2> HIDE DEF text
  <2>2. Len(text) = 0 /\ Len(text) % 8 = 0
    BY <2>1
  <2>3. b32_decode(text, room).data = <<>>
    <3> DEFINE start == [output_size |-> room, buffer |-> 0, bitsLeft |-> 0, decoded |-> <<>>,
                         end |-> FALSE, ret |-> "SUCCESS"]
               r == FoldLeft(B32DecodeStep, start, text)
    <3>1. start.decoded = <<>>
      OBVIOUS
    <3>2. r = Dec!Fold(start, text)
      BY DecodeFolds
    <3>3. b32_decode(text, room) = [ret |-> r.ret, data |-> r.decoded,
                                    size |-> IF r.ret = "SUCCESS" THEN Len(r.decoded) ELSE room]
      BY Zenon DEF b32_decode, start
    <3> HIDE DEF start, r
    <3>4. text \in Seq(Byte)
      BY <2>1
    <3>5. PICK f : Dec!Steps(start, text, f) /\ Dec!Fold(start, text) = f[Len(text)]
      BY <3>4, Dec!FoldSteps
    <3>6. f[0] = start
      BY <3>5 DEF Dec!Steps
    <3>7. r.decoded = <<>>
      BY <2>2, <3>1, <3>2, <3>5, <3>6
    <3> QED BY <3>3, <3>7
  <2> HIDE DEF room
  <2> QED BY <1>1, <1>3, <2>2, <2>3
<1>4. CASE data # <<>>
  <2>1. /\ DigitCount(n) \in Nat /\ DigitCount(n) <= size /\ size \in Nat
        /\ DigitCount(n) + b32_padding(DigitCount(n), size) = size
        /\ size % 8 = 0
        /\ BASE32_DECODE_MIN_LEN(size) \in Nat /\ n <= BASE32_DECODE_MIN_LEN(size)
    BY <1>2, Base32Sizes
  <2> HIDE DEF size
  <2>2. Encodes(text, data) /\ Len(text) = size
    BY <1>4, <2>1, Base32Encodes
  <2> HIDE DEF text
  <2>3. b32_decode(text, room).data = data
    BY <1>4, <2>1, <2>2, Base32Decodes
  <2> HIDE DEF room
  <2> QED BY <1>1, <2>1, <2>2, <2>3
<1> QED
  BY <1>3, <1>4

(* The sizes that the headers give suffice. *)
THEOREM SizesAreEnough == Spec => []SizesSuffice
<1>1. ASSUME CallInv PROVE SizesSuffice
  <2>1. CASE call.fn = "base32_and_back"
    <3>1. PICK d \in Datas : call.in = d /\ call.out = OutOfBase32(d)
      BY <1>1, <2>1 DEF CallInv, Was
    <3>2. d \in Seq(Byte)
      BY FormatsAssumption
    <3> QED BY <2>1, <3>1, <3>2, Base32Reverses DEF SizesSuffice
  <2>2. CASE call.fn = "base64_and_back"
    <3>1. PICK d \in Datas : call.in = d /\ call.out = OutOfBase64(d)
      BY <1>1, <2>2 DEF CallInv, Was
    <3>2. d \in Seq(Byte)
      BY FormatsAssumption
    <3> QED BY <2>2, <3>1, <3>2, Base64Reverses DEF SizesSuffice
  <2> QED BY <2>1, <2>2 DEF SizesSuffice
<1> QED
  BY <1>1, CallInvHolds, PTL

-----------------------------------------------------------------------------
(* The theorem about typed addresses.                                      *)

(* A character that is read as the value v. *)
ReadAs(c, v) == c \in DOMAIN B32Value /\ B32Value[c] = v /\ c \notin Separators /\ c # "="

(* Two characters that are read alike change the decoder alike. *)
LEMMA ReadAlike ==
  ASSUME NEW s, NEW v, NEW c, NEW d, ReadAs(c, v), ReadAs(d, v)
  PROVE  B32DecodeStep(s, c) = B32DecodeStep(s, d)
BY Zenon DEF ReadAs, B32DecodeStep

(* What is around a digit does not. *)
LEMMA AroundSkipped ==
  ASSUME NEW s, NEW c \in Around
  PROVE  B32DecodeStep(s, c) = s
<1>1. c \in Separators
  BY Zenon DEF Around, Separators
<1> QED
  BY <1>1, Zenon DEF B32DecodeStep

(* The characters that the decoder has a value for, and its value. *)
ValueOf(c) ==
  CASE c \in ToSet(B32Digits) -> DigitIndex(B32Digits, c)
    [] c \in ToSet(LowerCase) -> DigitIndex(LowerCase, c)
    [] c = "0" -> 14
    [] c = "1" -> 11
    [] c = "8" -> 1

(* The table of the decoder holds these values. *)
LEMMA ValueIs ==
  ASSUME NEW c \in ToSet(B32Digits) \cup ToSet(LowerCase) \cup {"0", "1", "8"}
  PROVE  c \in DOMAIN B32Value /\ B32Value[c] = ValueOf(c)
<1> DEFINE D == ToSet(B32Digits) \cup ToSet(LowerCase) \cup {"0", "1", "8"}
<1>1. B32Value = [d \in D |-> ValueOf(d)]
  BY Zenon DEF B32Value, ValueOf
<1>2. c \in D
  OBVIOUS
<1> HIDE DEF D
<1> QED
  BY <1>1, <1>2

(* The digits and the letters in lower case, which are different. *)
LEMMA LowerCaseIs ==
  /\ Len(B32Digits) = 32 /\ Len(LowerCase) = 26
  /\ \A i, j \in 1..26 : LowerCase[i] = LowerCase[j] => i = j
  /\ \A i \in 1..32, j \in 1..26 : B32Digits[i] # LowerCase[j]
  /\ \A i \in 1..32 : B32Digits[i] # "0" /\ B32Digits[i] # "1" /\ B32Digits[i] # "8"
  /\ \A j \in 1..26 : LowerCase[j] # "0" /\ LowerCase[j] # "1" /\ LowerCase[j] # "8"
  /\ \A j \in 1..26 : LowerCase[j] # "=" /\ LowerCase[j] \notin Separators
BY DEF B32Digits, LowerCase, Separators

(* A letter in lower case is read as the digit at its place. *)
LEMMA LowerCaseRead ==
  ASSUME NEW j \in 1..26
  PROVE  ReadAs(LowerCase[j], j - 1)
<1> DEFINE c == LowerCase[j]
<1>1. /\ c \in ToSet(LowerCase) /\ c \notin ToSet(B32Digits) /\ c # "=" /\ c \notin Separators
      /\ c # "0" /\ c # "1" /\ c # "8"
  <2>1. /\ \A i \in 1..32 : B32Digits[i] # c
        /\ c # "=" /\ c \notin Separators /\ c # "0" /\ c # "1" /\ c # "8"
    BY LowerCaseIs
  <2>2. DOMAIN B32Digits = 1..32 /\ DOMAIN LowerCase = 1..26
    BY DEF B32Digits, LowerCase
  <2>3. c \in ToSet(LowerCase)
    BY <2>2 DEF ToSet
  <2> HIDE DEF c
  <2> QED BY <2>1, <2>2, <2>3 DEF ToSet
<1>2. DigitIndex(LowerCase, c) = j - 1
  <2>1. Distinct(LowerCase, 26)
    BY LowerCaseIs, ZenonT(60) DEF Distinct
  <2>2. Places(LowerCase, c) # {} /\ Min(Places(LowerCase, c)) = j
    BY <2>1, PlaceInSeq
  <2>3. SelectInSeq(LowerCase, LAMBDA d : d = c) = j
    BY <2>2, Zenon DEF SelectInSeq, Places
  <2> QED BY <2>3, Zenon DEF DigitIndex
<1> HIDE DEF c
<1>3. c \in DOMAIN B32Value /\ B32Value[c] = ValueOf(c)
  BY <1>1, ValueIs
<1>4. ValueOf(c) = DigitIndex(LowerCase, c)
  BY <1>1, Zenon DEF ValueOf
<1> QED
  BY <1>1, <1>2, <1>3, <1>4 DEF ReadAs, c

(* A digit that is mistyped for a letter is read as it. *)
LEMMA MistypedRead == ReadAs("0", 14) /\ ReadAs("1", 11) /\ ReadAs("8", 1)
<1>1. \A c \in {"0", "1", "8"} :
        /\ c \notin ToSet(B32Digits) /\ c \notin ToSet(LowerCase)
        /\ c \in DOMAIN B32Value /\ B32Value[c] = ValueOf(c)
  <2> SUFFICES ASSUME NEW c \in {"0", "1", "8"}
               PROVE  /\ c \notin ToSet(B32Digits) /\ c \notin ToSet(LowerCase)
                      /\ c \in DOMAIN B32Value /\ B32Value[c] = ValueOf(c)
    OBVIOUS
  <2>1. (\A i \in 1..32 : B32Digits[i] # c) /\ (\A j \in 1..26 : LowerCase[j] # c)
    BY LowerCaseIs, Zenon
  <2>2. DOMAIN B32Digits = 1..32 /\ DOMAIN LowerCase = 1..26
    BY DEF B32Digits, LowerCase
  <2>3. c \notin ToSet(B32Digits) /\ c \notin ToSet(LowerCase)
    BY <2>1, <2>2, Zenon DEF ToSet
  <2>4. c \in DOMAIN B32Value /\ B32Value[c] = ValueOf(c)
    BY ValueIs, Zenon
  <2> QED BY <2>3, <2>4
<1>2. ValueOf("0") = 14 /\ ValueOf("1") = 11 /\ ValueOf("8") = 1
  <2>1. "0" # "1" /\ "0" # "8" /\ "1" # "8"
    OBVIOUS
  <2> QED BY <1>1, <2>1, Zenon DEF ValueOf
<1>3. \A c \in {"0", "1", "8"} : c # "=" /\ c \notin Separators
  BY Zenon DEF Separators
<1> QED
  BY <1>1, <1>2, <1>3 DEF ReadAs

(* What looks like a digit is read as it. *)
LEMMA AlikeRead ==
  ASSUME NEW v \in 0..31, NEW c \in Alike(B32Digits[v + 1])
  PROVE  ReadAs(c, v)
<1> DEFINE d == B32Digits[v + 1]
<1>1. v + 1 \in 1..32 /\ \A i, j \in 1..32 : B32Digits[i] = B32Digits[j] => i = j
  BY DEF B32Digits
<1>2. CASE c = d
  BY <1>2, Base32Value DEF ReadAs
<1>3. ASSUME NEW j \in 1..26, B32Digits[j] = d, c = LowerCase[j] PROVE ReadAs(c, v)
  <2>1. j = v + 1
    BY <1>1, <1>3
  <2>2. j - 1 = v
    BY <2>1
  <2> QED BY <1>3, <2>2, LowerCaseRead
<1>4. ASSUME NEW pair \in Mistyped, pair[2] = d, c = pair[1] PROVE ReadAs(c, v)
  <2>1. B32Digits[15] = "O" /\ B32Digits[12] = "L" /\ B32Digits[2] = "B"
    BY DEF B32Digits
  <2>2. \/ c = "0" /\ d = "O"
        \/ c = "1" /\ d = "L"
        \/ c = "8" /\ d = "B"
    BY <1>4 DEF Mistyped
  <2>3. (d = "O" => v = 14) /\ (d = "L" => v = 11) /\ (d = "B" => v = 1)
    BY <1>1, <2>1
  <2> QED BY <2>2, <2>3, MistypedRead
<1>5. \/ c = d
      \/ \E j \in 1..26 : B32Digits[j] = d /\ c = LowerCase[j]
      \/ \E pair \in Mistyped : pair[2] = d /\ c = pair[1]
  BY Zenon DEF Alike
<1> QED
  BY <1>2, <1>3, <1>4, <1>5

(* What is typed for a digit is read as this digit. *)
LEMMA PieceRead ==
  ASSUME NEW v \in 0..31, NEW T, NEW piece \in Seq(T), IsTyped(piece, B32Digits[v + 1]), NEW s
  PROVE  Dec!Fold(s, piece) = B32DecodeStep(s, B32Digits[v + 1])
<1> DEFINE d == B32Digits[v + 1]
           t == B32DecodeStep(s, d)
<1>1. PICK n \in 1..Len(piece) :
         /\ piece[n] \in Alike(d)
         /\ \A i \in 1..Len(piece) : i # n => piece[i] \in Around
  BY DEF IsTyped
<1>2. PICK f : Dec!Steps(s, piece, f) /\ Dec!Fold(s, piece) = f[Len(piece)]
  BY Dec!FoldSteps
<1>3. Len(piece) \in Nat /\ n <= Len(piece)
  OBVIOUS
<1>4. B32DecodeStep(s, piece[n]) = t
  <2>1. ReadAs(piece[n], v) /\ ReadAs(d, v)
    BY <1>1, AlikeRead, Base32Value DEF ReadAs
  <2> QED BY <2>1, ReadAlike
<1> HIDE DEF d, t
<1> DEFINE S == {m \in Nat : m <= Len(piece) => f[m] = IF m < n THEN s ELSE t}
<1>5. 0 \in S
  <2>1. f[0] = s /\ 0 < n
    BY <1>2 DEF Dec!Steps
  <2> QED BY <2>1
<1>6. ASSUME NEW m \in S PROVE m + 1 \in S
  <2> SUFFICES ASSUME m + 1 <= Len(piece) PROVE f[m + 1] = IF m + 1 < n THEN s ELSE t
    OBVIOUS
  <2>1. m \in Nat /\ m + 1 \in 1..Len(piece) /\ (m + 1) - 1 = m /\ f[m] = IF m < n THEN s ELSE t
    BY <1>3
  <2>2. f[m + 1] = B32DecodeStep(f[m], piece[m + 1])
    BY <1>2, <2>1 DEF Dec!Steps
  <2>3. CASE m + 1 = n
    <3>1. m < n /\ ~(m + 1 < n)
      BY <2>1, <2>3
    <3> QED BY <1>4, <2>1, <2>2, <2>3, <3>1
  <2>4. CASE m + 1 # n
    <3>1. f[m + 1] = f[m]
      BY <1>1, <2>1, <2>2, <2>4, AroundSkipped
    <3>2. m < n <=> m + 1 < n
      BY <2>1, <2>4
    <3> QED BY <2>1, <3>1, <3>2
  <2> QED BY <2>3, <2>4
<1>7. S = Nat
  <2> HIDE DEF S
  <2>1. S \in SUBSET Nat
    BY DEF S
  <2> QED BY <1>5, <1>6, <2>1, Dec!Induction
<1>8. f[Len(piece)] = t
  <2>1. Len(piece) \in S /\ ~(Len(piece) < n)
    <3> HIDE DEF S
    <3> QED BY <1>3, <1>7
  <2> QED BY <1>3, <2>1
<1> QED
  BY <1>2, <1>8 DEF t, d

(* A typed address is decoded like the address. *)
LEMMA TypedRead ==
  ASSUME NEW typo \in Typos, NEW address, HasDigits(address), NEW start
  PROVE  Dec!Fold(start, Typed(typo, address)) = Dec!Fold(start, address)
<1> DEFINE n == ADDRESS_TEXT_SIZE
           pieces == [i \in 1..n |-> AsTyped(typo, i, address[i])]
<1>1. n \in Nat
  BY DEF ADDRESS_TEXT_SIZE
<1>2. /\ address \in Seq(B32Char \cup {"="}) /\ Len(address) = n
      /\ \A i \in 1..n : \E v \in 0..31 : address[i] = B32Digits[v + 1]
  BY DEF HasDigits
<1>3. ASSUME NEW i \in 1..n
      PROVE  /\ pieces[i] \in Seq(STRING)
             /\ \A s : Dec!Fold(s, pieces[i]) = B32DecodeStep(s, address[i])
  <2>1. PICK v \in 0..31 : address[i] = B32Digits[v + 1]
    BY <1>2
  <2>2. address[i] \in ToSet(B32Digits)
    <3>1. v + 1 \in 1..32
      BY <2>1
    <3>2. DOMAIN B32Digits = 1..32
      BY DEF B32Digits
    <3> QED BY <2>1, <3>1, <3>2, Zenon DEF ToSet
  <2>3. AsTyped(typo, i, address[i]) \in Seq(STRING) /\ IsTyped(AsTyped(typo, i, address[i]), address[i])
    BY <2>2, FormatsAssumption
  <2> DEFINE piece == AsTyped(typo, i, address[i])
  <2>4. pieces[i] = piece
    OBVIOUS
  <2> HIDE DEF piece, pieces
  <2>5. \A s : Dec!Fold(s, piece) = B32DecodeStep(s, address[i])
    BY <2>1, <2>3, PieceRead DEF piece
  <2> QED BY <2>3, <2>4, <2>5 DEF piece
<1>4. pieces \in Seq(Seq(STRING)) /\ Len(pieces) = n
  <2>1. \A i \in 1..n : AsTyped(typo, i, address[i]) \in Seq(STRING)
    BY <1>3
  <2> DEFINE P(i) == AsTyped(typo, i, address[i])
  <2>2. [i \in 1..n |-> P(i)] \in Seq(Seq(STRING)) /\ Len(pieces) = n
    <3> HIDE DEF n
    <3> QED BY <1>1, <2>1
  <2> QED BY <2>2
<1>5. Typed(typo, address) = Dec!FlattenSeq(pieces)
  <2>1. Typed(typo, address) = FlattenSeq(pieces)
    BY <1>2 DEF Typed
  <2> HIDE DEF pieces
  <2>2. FlattenSeq(pieces) = Dec!FlattenSeq(pieces)
    BY DEF FlattenSeq, Dec!FlattenSeq
  <2> QED BY <2>1, <2>2
<1> HIDE DEF pieces, n
<1>6. PICK f : Dec!Steps(start, address, f) /\ Dec!Fold(start, address) = f[n]
  BY <1>2, Dec!FoldSteps
<1> DEFINE I == [k \in 0..n |-> {f[k]}]
<1>7. start \in I[0]
  BY <1>1, <1>6 DEF Dec!Steps
<1>8. \A k \in 1..Len(pieces) : \A x \in I[k - 1] : Dec!Fold(x, pieces[k]) \in I[k]
  <2> SUFFICES ASSUME NEW k \in 1..n, NEW x \in I[k - 1] PROVE Dec!Fold(x, pieces[k]) \in I[k]
    BY <1>4
  <2>1. k \in 0..n /\ k - 1 \in 0..n
    BY <1>1
  <2>2. x = f[k - 1]
    BY <2>1
  <2>3. f[k] = B32DecodeStep(f[k - 1], address[k])
    BY <1>2, <1>6 DEF Dec!Steps
  <2>4. Dec!Fold(x, pieces[k]) = f[k]
    BY <1>3, <2>2, <2>3
  <2> QED BY <2>1, <2>4
<1>9. Dec!Fold(start, Dec!FlattenSeq(pieces)) \in I[Len(pieces)]
  <2> HIDE DEF I
  <2> QED BY <1>4, <1>7, <1>8, Dec!FoldFlatten
<1>10. n \in 0..n
  BY <1>1
<1> QED
  BY <1>4, <1>5, <1>6, <1>9, <1>10

(* An account made from a typed address has the key of the address. *)
LEMMA TypedKey ==
  ASSUME NEW k \in PublicKeys, NEW typo \in Typos
  PROVE  from_b32_init(Typed(typo, address_of(k))) = k
<1> DEFINE size == PUBLIC_KEY_CHECKSUM_SIZE
           start == [output_size |-> size, buffer |-> 0, bitsLeft |-> 0, decoded |-> <<>>,
                     end |-> FALSE, ret |-> "SUCCESS"]
           address == address_of(k)
           text == Typed(typo, address)
           r(t) == FoldLeft(B32DecodeStep, start, t)
<1>1. \A t : b32_decode(t, size).data = r(t).decoded
  BY Zenon DEF b32_decode, start
<1>2. HasDigits(address) /\ from_b32_init(address) = k
  BY AddressIs
<1>3. \A t : r(t) = Dec!Fold(start, t)
  BY DecodeFolds
<1> HIDE DEF start, address
<1>4. r(text) = r(address)
  BY <1>2, <1>3, TypedRead
<1>5. b32_decode(text, size).data = b32_decode(address, size).data
  BY <1>1, <1>4
<1>6. from_b32_init(text) = from_b32_init(address)
  BY <1>5, Zenon DEF from_b32_init
<1> QED
  BY <1>2, <1>6 DEF address

(* An address is understood in either case, with separators, and with the  *)
(* digits that people mistake for letters.                                 *)
THEOREM AddressesUnderstood == Spec => []AddressIsUnderstood
<1>1. ASSUME CallInv PROVE AddressIsUnderstood
  <2> SUFFICES ASSUME call.fn = "account_new_from_b32" PROVE call.out.public_key = call.in
    BY DEF AddressIsUnderstood
  <2>1. PICK k \in PublicKeys, t \in Typos : call.in = k /\ call.out = OutOfTyped(k, t)
    BY <1>1 DEF CallInv, Was
  <2> QED BY <2>1, TypedKey DEF OutOfTyped
<1> QED
  BY <1>1, CallInvHolds, PTL

-----------------------------------------------------------------------------
(* The theorem about header lines.                                         *)

(* Cutting a text and joining lines are folds. *)
Cut == INSTANCE FoldFacts WITH Op <- CutAt

Join == INSTANCE FoldFacts WITH Op <- AddLine

(* FoldFacts says of them what a fold is. *)
LEMMA CutIsFold == \A base, s : FoldLeft(CutAt, base, s) = Cut!Fold(base, s)
BY DEF Cut!Fold, FoldLeft, MapThenFoldSet, Max, Cut!FoldLeft, Cut!MapThenFoldSet, Cut!Max

(* The same for Joined. *)
LEMMA JoinIsFold == \A lines : Joined(lines) = Join!Fold(<<>>, lines)
BY DEF Joined, Join!Fold, FoldLeft, MapThenFoldSet, Max, Join!FoldLeft, Join!MapThenFoldSet, Join!Max

(* Characters are strings; the provers do not know it of these. *)
Character == STRING \cup {"\r", "\n", "t", ":", " "}

Text == Seq(Character)

(* Sequences over a set are sequences over a larger one. *)
LEMMA SeqOfMore ==
  ASSUME NEW S, NEW T, S \subseteq T
  PROVE  Seq(S) \subseteq Seq(T)
<1>1. ASSUME NEW s \in Seq(S) PROVE s \in Seq(T)
  <2>1. Len(s) \in Nat /\ s = [i \in 1..Len(s) |-> s[i]] /\ \A i \in 1..Len(s) : s[i] \in T
    OBVIOUS
  <2> DEFINE n == Len(s)
             u == [i \in 1..n |-> s[i]]
  <2>2. u \in Seq(T)
    <3> HIDE DEF n
    <3> QED BY <2>1, IsASeq DEF n
  <2> QED BY <2>1, <2>2
<1> QED
  BY <1>1

(* The characters of a line end. *)
LEMMA LineEnd ==
  CRLF \in Text /\ Len(CRLF) = 2 /\ CRLF[1] = "\r" /\ CRLF[2] = "\n"
<1>1. "\r" \in Character /\ "\n" \in Character
  BY DEF Character
<1> QED
  BY <1>1 DEF CRLF, Text

(* A text after another is a text. *)
LEMMA TextConcat ==
  ASSUME NEW s \in Text, NEW t \in Text
  PROVE  /\ s \o t \in Text /\ Len(s) \in Nat /\ Len(t) \in Nat /\ Len(s \o t) = Len(s) + Len(t)
         /\ \A i \in 1..Len(s) : (s \o t)[i] = s[i]
         /\ \A i \in 1..Len(t) : (s \o t)[Len(s) + i] = t[i]
BY DEF Text

(* Lines, as far as they are joined to a text. *)
AreLines(lines) == lines \in Seq(Text) /\ \A i \in 1..Len(lines) : IsLine(lines[i])

(* g[k] is the text of the first k lines. *)
TextsOf(lines, g) ==
  /\ g[1] = lines[1]
  /\ \A k \in 2..Len(lines) : g[k] = (g[k - 1] \o CRLF) \o lines[k]
  /\ \A k \in 1..Len(lines) : g[k] \in Text /\ g[k] # <<>>

(* The text that the first lines make, after each of them. *)
LEMMA JoinedSteps ==
  ASSUME NEW lines, AreLines(lines), lines # <<>>
  PROVE  \E g : TextsOf(lines, g) /\ Joined(lines) = g[Len(lines)]
<1>1. PICK g : Join!Steps(<<>>, lines, g) /\ Join!Fold(<<>>, lines) = g[Len(lines)]
  BY Join!FoldSteps DEF AreLines
<1> DEFINE n == Len(lines)
<1>2. n \in Nat \ {0}
  BY DEF AreLines
<1>3. \A k \in 1..n : lines[k] \in Text /\ lines[k] # <<>>
  BY DEF AreLines, IsLine
<1>4. g[0] = <<>> /\ \A k \in 1..n : g[k] = AddLine(g[k - 1], lines[k])
  BY <1>1 DEF Join!Steps
<1>5. g[1] = lines[1]
  <2>1. 1 \in 1..n /\ 1 - 1 = 0
    BY <1>2
  <2> QED BY <1>4, <2>1 DEF AddLine
<1>6. \A t \in Text, l \in Text : (t \o CRLF) \o l \in Text /\ (l # <<>> => (t \o CRLF) \o l # <<>>)
  <2> SUFFICES ASSUME NEW t \in Text, NEW l \in Text
               PROVE  (t \o CRLF) \o l \in Text /\ (l # <<>> => (t \o CRLF) \o l # <<>>)
    OBVIOUS
  <2>1. t \o CRLF \in Text /\ Len(t \o CRLF) \in Nat
    BY LineEnd, TextConcat DEF Text
  <2> DEFINE u == t \o CRLF
  <2> HIDE DEF u
  <2>2. u \o l \in Text /\ Len(u \o l) = Len(u) + Len(l) /\ Len(u) \in Nat
    BY <2>1, TextConcat DEF u
  <2>3. l # <<>> => Len(l) \in Nat \ {0}
    BY DEF Text
  <2>4. l # <<>> => u \o l # <<>>
    <3>1. l # <<>> => Len(u \o l) # 0
      BY <2>2, <2>3
    <3> HIDE DEF u
    <3> QED BY <3>1
  <2> QED BY <2>2, <2>4 DEF u
<1> DEFINE S == {m \in Nat : m + 1 <= n => g[m + 1] \in Text /\ g[m + 1] # <<>>}
<1>7. 0 \in S
  BY <1>3, <1>5
<1>8. ASSUME NEW m \in S PROVE m + 1 \in S
  <2> SUFFICES ASSUME (m + 1) + 1 <= n PROVE g[(m + 1) + 1] \in Text /\ g[(m + 1) + 1] # <<>>
    OBVIOUS
  <2>1. m \in Nat /\ (m + 1) + 1 \in 1..n /\ ((m + 1) + 1) - 1 = m + 1 /\ g[m + 1] \in Text /\ g[m + 1] # <<>>
    BY <1>2
  <2>2. g[(m + 1) + 1] = (g[m + 1] \o CRLF) \o lines[(m + 1) + 1]
    BY <1>4, <2>1 DEF AddLine
  <2> QED BY <1>3, <1>6, <2>1, <2>2
<1>9. S = Nat
  <2> HIDE DEF S
  <2>1. S \in SUBSET Nat
    BY DEF S
  <2> QED BY <1>7, <1>8, <2>1, Join!Induction
<1>10. ASSUME NEW k \in 1..n PROVE g[k] \in Text /\ g[k] # <<>>
  <2>1. k - 1 \in S /\ (k - 1) + 1 = k /\ k <= n
    <3> HIDE DEF S
    <3> QED BY <1>2, <1>9
  <2> QED BY <2>1
<1>11. ASSUME NEW k \in 2..n PROVE g[k] = (g[k - 1] \o CRLF) \o lines[k]
  <2>1. k \in 1..n /\ k - 1 \in 1..n
    BY <1>2
  <2> QED BY <1>4, <1>10, <2>1 DEF AddLine
<1>12. TextsOf(lines, g)
  BY <1>5, <1>10, <1>11 DEF TextsOf
<1> QED
  BY <1>1, <1>12, JoinIsFold

(* The first characters of a text. *)
Begins(p, t) == Len(p) <= Len(t) /\ \A i \in 1..Len(p) : t[i] = p[i]

(* The characters that a line adds to a text. *)
LEMMA LineAdds ==
  ASSUME NEW t \in Text, NEW l \in Text
  PROVE  LET u == (t \o CRLF) \o l
         IN  /\ u \in Text /\ Len(u) = (Len(t) + 2) + Len(l) /\ Begins(t, u)
             /\ u[Len(t) + 1] = "\r" /\ u[Len(t) + 2] = "\n"
             /\ \A i \in 1..Len(l) : u[(Len(t) + 2) + i] = l[i]
<1> DEFINE s == t \o CRLF
           u == s \o l
<1>1. CRLF \in Text /\ Len(CRLF) = 2 /\ CRLF[1] = "\r" /\ CRLF[2] = "\n"
  BY LineEnd
<1>2. Len(t) \in Nat /\ Len(l) \in Nat
  BY DEF Text
<1>3. /\ s \in Text /\ Len(s) = Len(t) + 2
      /\ \A i \in 1..Len(t) : s[i] = t[i]
      /\ s[Len(t) + 1] = "\r" /\ s[Len(t) + 2] = "\n"
  <2>1. /\ s \in Text /\ Len(s) = Len(t) + Len(CRLF)
        /\ \A i \in 1..Len(t) : s[i] = t[i]
        /\ \A i \in 1..Len(CRLF) : s[Len(t) + i] = CRLF[i]
    BY <1>1, TextConcat
  <2> HIDE DEF s
  <2> QED BY <1>1, <2>1
<1> HIDE DEF s
<1>4. /\ u \in Text /\ Len(u) = Len(s) + Len(l)
      /\ \A i \in 1..Len(s) : u[i] = s[i]
      /\ \A i \in 1..Len(l) : u[Len(s) + i] = l[i]
  BY <1>3, TextConcat
<1> HIDE DEF u
<1>5. Begins(t, u) /\ u[Len(t) + 1] = "\r" /\ u[Len(t) + 2] = "\n"
  <2>1. Len(t) + 1 \in 1..Len(s) /\ Len(t) + 2 \in 1..Len(s) /\ \A i \in 1..Len(t) : i \in 1..Len(s)
    BY <1>2, <1>3
  <2>2. Len(t) <= Len(u)
    BY <1>2, <1>3, <1>4
  <2> QED BY <1>3, <1>4, <2>1, <2>2 DEF Begins
<1>6. /\ u \in Text /\ Len(u) = (Len(t) + 2) + Len(l) /\ Begins(t, u)
      /\ u[Len(t) + 1] = "\r" /\ u[Len(t) + 2] = "\n"
      /\ \A i \in 1..Len(l) : u[(Len(t) + 2) + i] = l[i]
  BY <1>3, <1>4, <1>5
<1> QED
  BY <1>6, Zenon DEF u, s

(* Every text begins with the texts of fewer lines. *)
LEMMA TextsBegin ==
  ASSUME NEW lines, NEW g, AreLines(lines), TextsOf(lines, g), NEW k \in 1..Len(lines)
  PROVE  Begins(g[k], g[Len(lines)])
<1> DEFINE n == Len(lines)
<1>1. n \in Nat
  BY DEF AreLines
<1>2. \A i \in 1..n : g[i] \in Text
  BY DEF TextsOf
<1> DEFINE S == {m \in Nat : k + m <= n => Begins(g[k], g[k + m])}
<1>3. 0 \in S
  <2>1. Begins(g[k], g[k]) /\ k + 0 = k
    BY <1>2 DEF Begins, Text
  <2> QED BY <2>1
<1>4. ASSUME NEW m \in S PROVE m + 1 \in S
  <2> SUFFICES ASSUME k + (m + 1) <= n PROVE Begins(g[k], g[k + (m + 1)])
    OBVIOUS
  <2> DEFINE a == k + m
             b == k + (m + 1)
  <2>1. a \in 1..n /\ b \in 2..n /\ b \in 1..n /\ b - 1 = a /\ Begins(g[k], g[a])
    BY <1>1
  <2>2. g[a] \in Text /\ lines[b] \in Text /\ g[k] \in Text
    BY <1>2, <2>1 DEF AreLines
  <2> HIDE DEF a, b
  <2>3. g[b] = (g[a] \o CRLF) \o lines[b]
    BY <2>1 DEF TextsOf
  <2>4. Begins(g[a], g[b]) /\ g[b] \in Text
    BY <2>2, <2>3, LineAdds
  <2>5. Len(g[k]) \in Nat /\ Len(g[a]) \in Nat /\ Len(g[b]) \in Nat
    BY <2>2, <2>4 DEF Text
  <2>6. Begins(g[k], g[b])
    BY <2>1, <2>4, <2>5, SMTT(30) DEF Begins
  <2> QED BY <2>6 DEF b
<1>5. S = Nat
  <2> HIDE DEF S
  <2>1. S \in SUBSET Nat
    BY DEF S
  <2> QED BY <1>3, <1>4, <2>1, Join!Induction
<1>6. n - k \in S /\ k + (n - k) = n /\ n <= n
  <2> HIDE DEF S
  <2> QED BY <1>1, <1>5
<1> QED
  BY <1>6

(* The place where the k-th line begins in a text, and the one where it ends. *)
LineFirst(lines, g, k) == (Len(g[k]) - Len(lines[k])) + 1

(* A line is the end of a text that a text begins with. *)
EndsIn(line, t, text) ==
  /\ text \in Text /\ line \in Text /\ t \in Text
  /\ Len(text) \in Nat /\ Len(line) \in Nat \ {0} /\ Len(t) \in Nat
  /\ Len(t) <= Len(text) /\ Len(line) <= Len(t)
  /\ \A i \in 1..Len(line) : text[(Len(t) - Len(line)) + i] = line[i]

(* The line is found between them. *)
LEMMA LineWithin ==
  ASSUME NEW lines, NEW g, AreLines(lines), TextsOf(lines, g), NEW k \in 1..Len(lines)
  PROVE  EndsIn(lines[k], g[k], g[Len(lines)])
<1> DEFINE n == Len(lines)
           l == lines[k]
           t == g[k]
           text == g[n]
<1>1. n \in Nat /\ n \in 1..n /\ lines \in Seq(Text)
  BY DEF AreLines
<1>2. text \in Text /\ l \in Text /\ t \in Text /\ l # <<>>
  BY <1>1 DEF AreLines, TextsOf, IsLine
<1>3. Len(text) \in Nat /\ Len(l) \in Nat \ {0} /\ Len(t) \in Nat
  BY <1>2 DEF Text
<1>4. Begins(t, text)
  BY TextsBegin
<1>5. Len(l) <= Len(t) /\ \A i \in 1..Len(l) : t[(Len(t) - Len(l)) + i] = l[i]
  <2>1. CASE k = 1
    <3>1. t = l
      BY <2>1 DEF TextsOf
    <3> HIDE DEF l
    <3> QED BY <1>3, <3>1
  <2>2. CASE k # 1
    <3> DEFINE p == g[k - 1]
    <3>1. k \in 2..n /\ k - 1 \in 1..n
      BY <1>1, <2>2
    <3>2. t = (p \o CRLF) \o l /\ p \in Text
      BY <3>1 DEF TextsOf
    <3>3. Len(p) \in Nat
      BY <3>2 DEF Text
    <3> HIDE DEF p, l, t
    <3>4. Len(t) = (Len(p) + 2) + Len(l) /\ \A i \in 1..Len(l) : t[(Len(p) + 2) + i] = l[i]
      <4> DEFINE v == (p \o CRLF) \o l
      <4>1. Len(v) = (Len(p) + 2) + Len(l) /\ \A i \in 1..Len(l) : v[(Len(p) + 2) + i] = l[i]
        BY <1>2, <3>2, LineAdds, Zenon
      <4>2. t = v
        BY <3>2
      <4> HIDE DEF v
      <4> QED BY <4>1, <4>2
    <3>5. Len(t) - Len(l) = Len(p) + 2
      BY <1>3, <3>3, <3>4
    <3> QED BY <1>3, <3>3, <3>4, <3>5
  <2> QED BY <2>1, <2>2
<1> HIDE DEF l, t, text
<1>6. \A i \in 1..Len(l) : (Len(t) - Len(l)) + i \in 1..Len(t)
  BY <1>3, <1>5
<1>7. Len(t) <= Len(text) /\ \A i \in 1..Len(t) : text[i] = t[i]
  BY <1>4 DEF Begins
<1>8. \A i \in 1..Len(l) : text[(Len(t) - Len(l)) + i] = l[i]
  BY <1>5, <1>6, <1>7
<1> QED
  BY <1>2, <1>3, <1>5, <1>7, <1>8 DEF l, t, text, EndsIn

(* A line end comes after the text that a text begins with. *)
EndAfter(t, text) ==
  Len(t) + 2 <= Len(text) /\ text[Len(t) + 1] = "\r" /\ text[Len(t) + 2] = "\n"

(* Between two lines there is a line end. *)
LEMMA EndBetween ==
  ASSUME NEW lines, NEW g, AreLines(lines), TextsOf(lines, g), NEW k \in 1..(Len(lines) - 1)
  PROVE  /\ EndAfter(g[k], g[Len(lines)])
         /\ LineFirst(lines, g, k + 1) = Len(g[k]) + 3
         /\ Len(g[k + 1]) = (Len(g[k]) + 2) + Len(lines[k + 1])
<1> DEFINE n == Len(lines)
           text == g[n]
           t == g[k]
           l == lines[k + 1]
           u == g[k + 1]
<1>1. n \in Nat /\ k \in 1..n /\ k + 1 \in 2..n /\ k + 1 \in 1..n /\ (k + 1) - 1 = k
  BY DEF AreLines
<1>2. u = (t \o CRLF) \o l
  BY <1>1 DEF TextsOf
<1>3. t \in Text /\ l \in Text /\ u \in Text /\ Len(t) \in Nat /\ Len(l) \in Nat /\ Len(u) \in Nat /\ Len(text) \in Nat
  BY <1>1, LineWithin DEF EndsIn
<1>4. Begins(u, text)
  BY <1>1, TextsBegin
<1>5. LineFirst(lines, g, k + 1) = (Len(u) - Len(l)) + 1
  BY DEF LineFirst
<1> HIDE DEF t, l, u, text
<1>6. Len(u) = (Len(t) + 2) + Len(l) /\ u[Len(t) + 1] = "\r" /\ u[Len(t) + 2] = "\n"
  BY <1>2, <1>3, LineAdds, ZenonT(60)
<1>7. Len(t) + 1 \in 1..Len(u) /\ Len(t) + 2 \in 1..Len(u)
  BY <1>3, <1>6
<1>8. Len(u) <= Len(text) /\ \A i \in 1..Len(u) : text[i] = u[i]
  BY <1>4 DEF Begins
<1>9. Len(t) + 2 <= Len(text) /\ text[Len(t) + 1] = "\r" /\ text[Len(t) + 2] = "\n"
  BY <1>3, <1>6, <1>7, <1>8
<1>10. (Len(u) - Len(l)) + 1 = Len(t) + 3
  BY <1>3, <1>6
<1> QED
  BY <1>5, <1>6, <1>9, <1>10 DEF t, l, u, text, EndAfter

(* Nothing is cut within a line, nor at its end. *)
LEMMA NoEndWithin ==
  ASSUME NEW lines, NEW g, AreLines(lines), TextsOf(lines, g), NEW k \in 1..Len(lines),
         NEW i \in Nat, LineFirst(lines, g, k) <= i, i <= Len(g[k])
  PROVE  ~ends_at(g[Len(lines)], i)
<1> DEFINE n == Len(lines)
           text == g[n]
           l == lines[k]
           t == g[k]
           j == i - (Len(t) - Len(l))
<1>1. /\ text \in Text /\ l \in Text /\ t \in Text
      /\ Len(text) \in Nat /\ Len(l) \in Nat \ {0} /\ Len(t) \in Nat
      /\ Len(t) <= Len(text) /\ Len(l) <= Len(t)
      /\ \A m \in 1..Len(l) : text[(Len(t) - Len(l)) + m] = l[m]
  <2>1. EndsIn(l, t, text)
    BY LineWithin
  <2> HIDE DEF l, t, text
  <2> QED BY <2>1 DEF EndsIn
<1>2. \A m \in 1..Len(l) : ~ends_at(l, m)
  BY DEF AreLines, IsLine
<1>3. k < n => text[Len(t) + 1] = "\r"
  <2> SUFFICES ASSUME k < n PROVE text[Len(t) + 1] = "\r"
    OBVIOUS
  <2>1. k \in 1..(n - 1)
    BY DEF AreLines
  <2>2. EndAfter(t, text)
    BY <2>1, EndBetween
  <2> HIDE DEF t, text
  <2> QED BY <2>2 DEF EndAfter
<1>4. (Len(t) - Len(l)) + 1 <= i /\ i <= Len(t)
  BY DEF LineFirst
<1>5. k = n => Len(t) = Len(text)
  OBVIOUS
<1>6. k < n \/ k = n
  BY DEF AreLines
<1> HIDE DEF n, text, l, t
<1>7. /\ j \in 1..Len(l) /\ (Len(t) - Len(l)) + j = i
      /\ (Len(t) - Len(l)) + (j + 1) = i + 1 /\ (i = Len(t) <=> j = Len(l))
  <2> DEFINE a == Len(t)
             b == Len(l)
  <2>1. a \in Nat /\ b \in Nat /\ b <= a /\ (a - b) + 1 <= i /\ i <= a
    BY <1>1, <1>4
  <2> HIDE DEF a, b
  <2>2. /\ i - (a - b) \in 1..b /\ (a - b) + (i - (a - b)) = i
        /\ (a - b) + ((i - (a - b)) + 1) = i + 1 /\ (i = a <=> i - (a - b) = b)
    BY <2>1
  <2> QED BY <2>2 DEF a, b
<1> HIDE DEF j
<1>8. text[i] = l[j]
  BY <1>1, <1>7
<1>9. CASE i = Len(t)
  <2>1. "\r" # "\n"
    OBVIOUS
  <2>2. k < n => text[i + 1] # "\n"
    BY <1>3, <1>9, <2>1
  <2>3. k = n => ~(i < Len(text))
    BY <1>1, <1>5, <1>9
  <2>4. ~ends_at(text, i)
    BY <1>6, <2>2, <2>3 DEF ends_at
  <2> QED BY <2>4 DEF text, n
<1>10. CASE i # Len(t)
  <2>1. j + 1 \in 1..Len(l) /\ j < Len(l)
    BY <1>1, <1>7, <1>10
  <2>2. text[i + 1] = l[j + 1]
    BY <1>1, <1>7, <2>1
  <2>3. ~ends_at(text, i)
    BY <1>2, <1>7, <1>8, <2>1, <2>2 DEF ends_at
  <2> QED BY <2>3 DEF text, n
<1> QED
  BY <1>9, <1>10

(* What the loop knows before it reads the line k: those before it.        *)
Lines(lines, g, k) ==
  [text |-> g[Len(lines)], lines |-> SubSeq(lines, 1, k - 1), first |-> LineFirst(lines, g, k)]

(* The steps of the loop, one per character. *)
CutSteps(text, f) ==
  /\ f[0] = [text |-> text, lines |-> <<>>, first |-> 1]
  /\ \A i \in 1..Len(text) : f[i] = CutAt(f[i - 1], i)

(* A line is read to its end without a cut. *)
LEMMA LineRead ==
  ASSUME NEW lines, NEW g, AreLines(lines), TextsOf(lines, g), NEW k \in 1..Len(lines),
         NEW f, CutSteps(g[Len(lines)], f),
         NEW i \in Nat, i + 1 <= LineFirst(lines, g, k), LineFirst(lines, g, k) <= Len(g[k]),
         \A j \in Nat : i < j /\ j < LineFirst(lines, g, k) => ~ends_at(g[Len(lines)], j),
         f[i] = Lines(lines, g, k)
  PROVE  f[Len(g[k])] = Lines(lines, g, k)
<1> DEFINE text == g[Len(lines)]
           last == Len(g[k])
           s == Lines(lines, g, k)
<1>1. last \in Nat /\ Len(text) \in Nat /\ last <= Len(text)
  BY LineWithin DEF EndsIn
<1>2. LineFirst(lines, g, k) \in Int
  BY LineWithin DEF LineFirst, EndsIn
<1>3. \A j \in Nat : i < j /\ j <= last => ~ends_at(text, j)
  <2> SUFFICES ASSUME NEW j \in Nat, i < j, j <= last PROVE ~ends_at(text, j)
    OBVIOUS
  <2>1. CASE LineFirst(lines, g, k) <= j
    BY <2>1, NoEndWithin
  <2>2. CASE j < LineFirst(lines, g, k)
    BY <2>2
  <2> QED BY <1>2, <2>1, <2>2
<1>4. s.text = text /\ i < last
  BY <1>1, <1>2 DEF Lines
<1>5. \A j \in 1..Len(text) : f[j] = CutAt(f[j - 1], j)
  BY DEF CutSteps
<1> DEFINE S == {m \in Nat : i + m <= last => f[i + m] = s}
<1> HIDE DEF text, last, s
<1>6. 0 \in S
  BY DEF s
<1>7. ASSUME NEW m \in S PROVE m + 1 \in S
  <2> SUFFICES ASSUME i + (m + 1) <= last PROVE f[i + (m + 1)] = s
    OBVIOUS
  <2>1. /\ i + (m + 1) \in 1..Len(text) /\ (i + (m + 1)) - 1 = i + m /\ f[i + m] = s
        /\ i + (m + 1) \in Nat /\ i < i + (m + 1)
    BY <1>1
  <2>2. ~ends_at(s.text, i + (m + 1))
    BY <1>3, <1>4, <2>1
  <2>3. f[i + (m + 1)] = CutAt(s, i + (m + 1))
    BY <1>5, <2>1
  <2> QED BY <2>2, <2>3 DEF CutAt
<1>8. S = Nat
  <2> HIDE DEF S
  <2>1. S \in SUBSET Nat
    BY DEF S
  <2> QED BY <1>6, <1>7, <2>1, Join!Induction
<1>9. last - i \in S /\ i + (last - i) = last /\ last <= last
  <2> HIDE DEF S
  <2> QED BY <1>1, <1>4, <1>8
<1> QED
  BY <1>9 DEF last, s

(* Between its places the line is found. *)
LEMMA LineFound ==
  ASSUME NEW lines, NEW g, AreLines(lines), TextsOf(lines, g), NEW k \in 1..Len(lines)
  PROVE  /\ Len(g[k]) \in Nat /\ Len(g[k]) <= Len(g[Len(lines)]) /\ Len(g[Len(lines)]) \in Nat
         /\ LineFirst(lines, g, k) \in Int /\ LineFirst(lines, g, k) <= Len(g[k])
         /\ SubSeq(g[Len(lines)], LineFirst(lines, g, k), Len(g[k])) = lines[k]
<1> DEFINE text == g[Len(lines)]
           t == g[k]
           l == lines[k]
           first == (Len(t) - Len(l)) + 1
           cut == SubSeq(text, first, Len(t))
<1>1. EndsIn(l, t, text)
  BY LineWithin
<1>2. LineFirst(lines, g, k) = first
  BY DEF LineFirst
<1> HIDE DEF t, l, text
<1>3. /\ text \in Seq(Character) /\ l \in Seq(Character)
      /\ Len(text) \in Nat /\ Len(l) \in Nat \ {0} /\ Len(t) \in Nat
      /\ Len(t) <= Len(text) /\ Len(l) <= Len(t)
      /\ \A i \in 1..Len(l) : text[(Len(t) - Len(l)) + i] = l[i]
  BY <1>1 DEF EndsIn, Text
<1>4. /\ first \in Nat \ {0} /\ first <= Len(t) /\ (Len(t) - first) + 1 = Len(l)
  BY <1>3
<1>5. cut = l
  <2>1. \A i \in 1..Len(l) : first + i - 1 = (Len(t) - Len(l)) + i
    BY <1>3
  <2> HIDE DEF first
  <2>2. \A i \in first..Len(t) : text[i] \in Character
    BY <1>3, <1>4
  <2>3. /\ cut \in Seq(Character) /\ Len(cut) = Len(t) - first + 1
        /\ \A i \in 1..(Len(t) - first + 1) : cut[i] = text[first + i - 1]
    BY <1>3, <1>4, <2>2, SubSeqProperties
  <2> HIDE DEF cut
  <2>4. ASSUME NEW i \in 1..Len(l) PROVE cut[i] = l[i]
    <3>1. i \in 1..(Len(t) - first + 1)
      BY <1>4
    <3>2. cut[i] = text[first + i - 1] /\ first + i - 1 = (Len(t) - Len(l)) + i
      BY <2>1, <2>3, <3>1
    <3>3. text[(Len(t) - Len(l)) + i] = l[i]
      BY <1>3
    <3> DEFINE a == first + i - 1
               b == (Len(t) - Len(l)) + i
    <3> HIDE DEF a, b
    <3>4. cut[i] = text[a] /\ a = b /\ text[b] = l[i]
      BY <3>2, <3>3, Zenon DEF a, b
    <3> QED BY <3>4
  <2> QED BY <1>3, <1>4, <2>3, <2>4, SeqEqual
<1>6. Len(t) \in Nat /\ Len(t) <= Len(text) /\ Len(text) \in Nat
  BY <1>3
<1> HIDE DEF first
<1>7. first \in Int /\ first <= Len(t) /\ SubSeq(text, first, Len(t)) = l
  BY <1>4, <1>5
<1> QED
  BY <1>2, <1>6, <1>7 DEF t, l, text

(* The first lines and the next one. *)
LEMMA OneMoreLine ==
  ASSUME NEW T, NEW s \in Seq(T), NEW k \in 1..Len(s)
  PROVE  Append(SubSeq(s, 1, k - 1), s[k]) = SubSeq(s, 1, k) /\ SubSeq(s, 1, Len(s)) = s
OBVIOUS

(* All lines are read, and what is left is the last of them. *)
LEMMA LinesRead ==
  ASSUME NEW lines, NEW g, AreLines(lines), TextsOf(lines, g), lines # <<>>,
         NEW f, CutSteps(g[Len(lines)], f)
  PROVE  f[Len(g[Len(lines)])] = Lines(lines, g, Len(lines))
<1> DEFINE n == Len(lines)
           text == g[n]
<1>1. n \in Nat \ {0} /\ lines \in Seq(Text)
  BY DEF AreLines
<1>2. ASSUME NEW k \in 1..n
      PROVE  /\ Len(g[k]) \in Nat /\ Len(g[k]) <= Len(text) /\ Len(text) \in Nat
             /\ LineFirst(lines, g, k) \in Int /\ LineFirst(lines, g, k) <= Len(g[k])
             /\ SubSeq(text, LineFirst(lines, g, k), Len(g[k])) = lines[k]
  BY LineFound
<1>3. \A k \in 1..(Len(lines) - 1) : EndAfter(g[k], text) /\ LineFirst(lines, g, k + 1) = Len(g[k]) + 3
  BY EndBetween
<1> DEFINE S == {m \in Nat : m + 1 <= n => f[Len(g[m + 1])] = Lines(lines, g, m + 1)}
<1>4. 0 \in S
  <2>1. 1 \in 1..n /\ g[1] = lines[1]
    BY <1>1 DEF TextsOf
  <2>2. LineFirst(lines, g, 1) = 1
    <3>1. Len(g[1]) \in Nat
      BY <1>2, <2>1
    <3> QED BY <2>1, <3>1 DEF LineFirst
  <2>3. SubSeq(lines, 1, 1 - 1) = <<>>
    BY <1>1, SubSeqEmpty
  <2>4. f[0] = Lines(lines, g, 1)
    BY <2>2, <2>3 DEF Lines, CutSteps
  <2>5. f[Len(g[1])] = Lines(lines, g, 1)
    <3>1. /\ 0 \in Nat /\ 0 + 1 <= LineFirst(lines, g, 1) /\ LineFirst(lines, g, 1) <= Len(g[1])
          /\ \A j \in Nat : 0 < j /\ j < LineFirst(lines, g, 1) => ~ends_at(g[Len(lines)], j)
      BY <1>2, <2>1, <2>2
    <3> QED BY <2>1, <2>4, <3>1, LineRead
  <2> QED BY <2>5
<1>5. ASSUME NEW m \in S PROVE m + 1 \in S
  <2> SUFFICES ASSUME (m + 1) + 1 <= n PROVE f[Len(g[(m + 1) + 1])] = Lines(lines, g, (m + 1) + 1)
    OBVIOUS
  <2> DEFINE k == m + 1
  <2>1. /\ m \in Nat /\ k \in 1..(n - 1) /\ k \in 1..n /\ k + 1 \in 1..n /\ k \in Nat
        /\ f[Len(g[k])] = Lines(lines, g, k)
    BY <1>1
  <2> HIDE DEF k
  <2> DEFINE i == Len(g[k]) + 1
  <2>2. EndAfter(g[k], text) /\ LineFirst(lines, g, k + 1) = Len(g[k]) + 3
    <3>1. k \in 1..(Len(lines) - 1)
      BY <2>1
    <3> QED BY <1>3, <3>1
  <2>3. i \in 1..Len(text) /\ i \in Nat /\ i - 1 = Len(g[k])
    <3> DEFINE a == Len(g[k])
               b == Len(text)
    <3>1. a \in Nat /\ b \in Nat /\ a + 2 <= b
      BY <1>2, <2>1, <2>2 DEF EndAfter
    <3> HIDE DEF a, b
    <3>2. a + 1 \in 1..b /\ a + 1 \in Nat /\ (a + 1) - 1 = a
      BY <3>1
    <3> QED BY <3>2 DEF a, b
  <2>4. ends_at(text, i) /\ ~ends_at(text, i + 1)
    <3>1. i < Len(text) /\ text[i] = "\r" /\ text[i + 1] = "\n"
      <4> DEFINE a == Len(g[k])
      <4>1. a + 2 <= Len(text) /\ text[a + 1] = "\r" /\ text[a + 2] = "\n"
        BY <2>2 DEF EndAfter
      <4>2. a \in Nat /\ Len(text) \in Nat /\ (a + 1) + 1 = a + 2
        BY <1>2, <2>1
      <4> QED BY <4>1, <4>2
    <3> HIDE DEF i, text
    <3> QED BY <3>1 DEF ends_at
  <2>5. f[i] = Lines(lines, g, k + 1)
    <3> DEFINE s == Lines(lines, g, k)
    <3>1. f[i] = CutAt(s, i)
      BY <2>1, <2>3 DEF CutSteps
    <3>2. s.text = text /\ s.lines = SubSeq(lines, 1, k - 1) /\ s.first = LineFirst(lines, g, k)
      BY DEF Lines
    <3>3. CutAt(s, i) = [s EXCEPT !.lines = Append(@, SubSeq(text, s.first, i - 1)), !.first = next_line(i)]
      BY <2>4, <3>2 DEF CutAt
    <3>4. SubSeq(text, s.first, i - 1) = lines[k]
      BY <1>2, <2>1, <2>3, <3>2
    <3>5. Append(SubSeq(lines, 1, k - 1), lines[k]) = SubSeq(lines, 1, k)
      BY <1>1, <2>1, OneMoreLine
    <3>6. next_line(i) = LineFirst(lines, g, k + 1)
      BY <1>2, <2>1, <2>2 DEF next_line
    <3>7. (k + 1) - 1 = k
      BY <2>1
    <3> QED BY <3>1, <3>2, <3>3, <3>4, <3>5, <3>6, <3>7 DEF Lines
  <2>6. f[Len(g[k + 1])] = Lines(lines, g, k + 1)
    <3>1. i + 1 <= LineFirst(lines, g, k + 1) /\ LineFirst(lines, g, k + 1) <= Len(g[k + 1])
      <4>1. Len(g[k]) \in Nat /\ LineFirst(lines, g, k + 1) <= Len(g[k + 1])
        BY <1>2, <2>1, Zenon
      <4>2. LineFirst(lines, g, k + 1) = Len(g[k]) + 3
        BY <2>2
      <4> DEFINE c == Len(g[k])
                 d == LineFirst(lines, g, k + 1)
                 e == Len(g[k + 1])
      <4>3. c \in Nat /\ d <= e /\ d = c + 3
        BY <4>1, <4>2
      <4> HIDE DEF c, d, e
      <4>4. (c + 1) + 1 <= d /\ d <= e
        BY <4>3
      <4> QED BY <4>4, Zenon DEF c, d, e
    <3>2. \A j \in Nat : i < j /\ j < LineFirst(lines, g, k + 1) => ~ends_at(g[Len(lines)], j)
      <4> SUFFICES ASSUME NEW j \in Nat, i < j, j < LineFirst(lines, g, k + 1) PROVE ~ends_at(text, j)
        OBVIOUS
      <4>1. Len(g[k]) \in Nat
        BY <1>2, <2>1
      <4>2. j = i + 1
        BY <2>2, <4>1
      <4> QED BY <2>4, <4>2
    <3> HIDE DEF i
    <3>3. k + 1 \in 1..Len(lines) /\ i \in Nat
      BY <2>1, <2>3
    <3> DEFINE k1 == k + 1
    <3>4. /\ k1 \in 1..Len(lines) /\ i + 1 <= LineFirst(lines, g, k1) /\ LineFirst(lines, g, k1) <= Len(g[k1])
          /\ \A j \in Nat : i < j /\ j < LineFirst(lines, g, k1) => ~ends_at(g[Len(lines)], j)
          /\ f[i] = Lines(lines, g, k1)
      BY <2>5, <3>1, <3>2, <3>3
    <3> HIDE DEF k1
    <3>5. f[Len(g[k1])] = Lines(lines, g, k1)
      BY <3>3, <3>4, LineRead
    <3> QED BY <3>5 DEF k1
  <2> QED BY <2>6 DEF k
<1>6. S = Nat
  <2> HIDE DEF S
  <2>1. S \in SUBSET Nat
    BY DEF S
  <2> QED BY <1>4, <1>5, <2>1, Join!Induction
<1>7. n - 1 \in S /\ (n - 1) + 1 = n /\ n <= n
  <2> HIDE DEF S
  <2> QED BY <1>1, <1>6
<1> QED
  BY <1>7

(* Joined lines are cut into the same lines. *)
LEMMA CutBack ==
  ASSUME NEW lines, AreLines(lines), lines # <<>>
  PROVE  curl_post_lines(Joined(lines)) = lines
<1> DEFINE n == Len(lines)
           text == Joined(lines)
           start == [text |-> text, lines |-> <<>>, first |-> 1]
           places == [i \in 1..Len(text) |-> i]
           s == FoldLeft(CutAt, start, places)
<1>1. n \in Nat \ {0} /\ n \in 1..n /\ lines \in Seq(Text)
  BY DEF AreLines
<1>2. PICK g : TextsOf(lines, g) /\ Joined(lines) = g[n]
  BY JoinedSteps
<1>3. EndsIn(lines[n], g[n], g[n])
  BY <1>1, <1>2, LineWithin
<1>4. text = g[n]
  BY <1>2
<1>5. curl_post_lines(text) = Append(s.lines, SubSeq(text, s.first, Len(text)))
  BY Zenon DEF curl_post_lines
<1> HIDE DEF text
<1>6. Len(text) \in Nat /\ text \in Text
  BY <1>3, <1>4 DEF EndsIn
<1>7. places \in Seq(Nat) /\ Len(places) = Len(text) /\ \A i \in 1..Len(text) : places[i] = i
  BY <1>6
<1> HIDE DEF places
<1>8. PICK f : Cut!Steps(start, places, f) /\ Cut!Fold(start, places) = f[Len(places)]
  BY <1>7, Cut!FoldSteps
<1>9. CutSteps(text, f)
  <2>1. f[0] = start /\ \A i \in 1..Len(places) : f[i] = CutAt(f[i - 1], places[i])
    BY <1>8 DEF Cut!Steps
  <2> QED BY <1>7, <2>1 DEF CutSteps
<1>10. s = f[Len(text)]
  BY <1>7, <1>8, CutIsFold
<1>11. f[Len(g[n])] = Lines(lines, g, n)
  BY <1>2, <1>4, <1>9, LinesRead
<1>12. s.lines = SubSeq(lines, 1, n - 1) /\ s.first = LineFirst(lines, g, n)
  BY <1>4, <1>10, <1>11 DEF Lines
<1> HIDE DEF s
<1>13. SubSeq(text, s.first, Len(text)) = lines[n]
  BY <1>1, <1>2, <1>4, <1>12, LineFound
<1>14. Append(SubSeq(lines, 1, n - 1), lines[n]) = lines
  BY <1>1, OneMoreLine
<1> QED
  BY <1>5, <1>12, <1>13, <1>14 DEF text

(* The type of the content has 34 characters, and none of them ends a line. *)
LEMMA ContentTypeIs ==
  ContentType \in Text /\ Len(ContentType) = 34 /\ IsLine(ContentType)
<1> DEFINE n == 34
           char(i) == CASE i = 13 -> ":" [] i = 14 -> " " [] OTHER -> "t"
           c == [i \in 1..n |-> char(i)]
<1>1. n \in Nat \ {0}
  OBVIOUS
<1> HIDE DEF n
<1>2. \A i \in 1..n : char(i) \in {":", " ", "t"}
  BY Zenon
<1>3. ":" \in Character /\ " " \in Character /\ "t" \in Character
  BY Zenon DEF Character
<1>4. ":" # "\r" /\ " " # "\r" /\ "t" # "\r"
  BY Zenon
<1>5. \A i \in 1..n : char(i) \in Character /\ char(i) # "\r"
  BY <1>2, <1>3, <1>4, Zenon
<1>6. ContentType = c
  BY Zenon DEF ContentType, n
<1> HIDE DEF char
<1>7. c \in Text /\ Len(c) = n /\ \A i \in 1..n : c[i] = char(i)
  BY <1>1, <1>5, IsASeq DEF Text
<1> HIDE DEF c
<1>8. IsLine(c)
  <2>1. c # <<>>
    BY <1>1, <1>7
  <2>2. \A i \in 1..Len(c) : ~ends_at(c, i)
    BY <1>5, <1>7 DEF ends_at
  <2> QED BY <2>1, <2>2 DEF IsLine
<1> QED
  BY <1>6, <1>7, <1>8, Zenon DEF n

(* A text is joined from lines. *)
LEMMA JoinedText ==
  ASSUME NEW h \in Seq(Text), \A i \in 1..Len(h) : IsLine(h[i])
  PROVE  Joined(h) \in Text
<1>1. CASE h = <<>>
  <2>1. PICK f : Join!Steps(<<>>, h, f) /\ Join!Fold(<<>>, h) = f[Len(h)]
    BY Join!FoldSteps
  <2>2. Joined(h) = <<>>
    BY <1>1, <2>1, JoinIsFold DEF Join!Steps
  <2> QED BY <2>2 DEF Text
<1>2. CASE h # <<>>
  <2>1. AreLines(h)
    BY DEF AreLines
  <2>2. PICK g : TextsOf(h, g) /\ Joined(h) = g[Len(h)]
    BY <1>2, <2>1, JoinedSteps
  <2>3. Len(h) \in 1..Len(h)
    BY <1>2
  <2> QED BY <2>2, <2>3 DEF TextsOf
<1> QED
  BY <1>1, <1>2

(* The text of a post is that of the provider and 36 more characters, or   *)
(* the 34 of the type of the content.                                      *)
LEMMA PostLength ==
  ASSUME NEW header \in Text
  PROVE  /\ AddLine(header, ContentType) = post_header(header).text
         /\ Len(header) \in Nat
         /\ Len(AddLine(header, ContentType)) = IF header = <<>> THEN 34 ELSE Len(header) + 36
<1> DEFINE type == ContentType
<1>1. type \in Text /\ Len(type) = 34
  BY ContentTypeIs
<1>2. AddLine(header, type) = IF header = <<>> THEN type ELSE header \o CRLF \o type
  BY Zenon DEF AddLine
<1>3. post_header(header).text = IF header = <<>> THEN type ELSE header \o CRLF \o type
  BY DEF post_header
<1> HIDE DEF type
<1>4. CRLF \in Text /\ Len(CRLF) = 2
  BY LineEnd
<1> DEFINE begin == header \o CRLF
<1>5. begin \in Text /\ Len(begin) = Len(header) + Len(CRLF) /\ Len(header) \in Nat
  BY <1>4, TextConcat
<1> HIDE DEF begin
<1>6. Len(begin \o type) = Len(begin) + Len(type)
  BY <1>1, <1>5, TextConcat
<1>7. Len(begin \o type) = Len(header) + 36
  BY <1>1, <1>4, <1>5, <1>6
<1> QED
  BY <1>1, <1>2, <1>3, <1>5, <1>7 DEF begin, type

(* How the length of the provider's text decides about a post. *)
Passes(header, out) ==
  /\ out.text = AddLine(header, ContentType)
  /\ out.ret = "SUCCESS" <=> Len(header) <= 91

(* A text of more than 91 characters does not pass. *)
LEMMA PostPasses ==
  ASSUME NEW header \in Text
  PROVE  Passes(header, post_header(header))
<1> DEFINE text == AddLine(header, ContentType)
           n == Len(text)
           m == Len(header)
           out == post_header(header)
<1>1. out.text = text /\ m \in Nat /\ n = IF header = <<>> THEN 34 ELSE m + 36
  BY PostLength
<1>2. header = <<>> => m = 0
  OBVIOUS
<1>3. out.ret = CASE n < 128 -> "SUCCESS"
                  [] n \in 128..(256 - 1) -> "ASSERT_FAILS"
                  [] OTHER -> "UNDEFINED"
  <2>1. text = IF header = <<>> THEN ContentType ELSE header \o CRLF \o ContentType
    BY Zenon DEF AddLine
  <2> HIDE DEF text
  <2> QED BY <2>1 DEF post_header, HEADER_LIMIT, HEADER_SIZE
<1> HIDE DEF text, n, m, out
<1>4. out.ret = "SUCCESS" <=> n < 128
  <2>1. n \in Nat
    BY <1>1
  <2>2. CASE n < 128
    <3>1. n \notin 128..(256 - 1)
      BY <2>1, <2>2
    <3>2. out.ret = "SUCCESS"
      BY <1>3, <2>2, <3>1, Zenon
    <3> QED BY <2>2, <3>2
  <2>3. CASE n \in 128..(256 - 1)
    <3>1. ~(n < 128)
      BY <2>1, <2>3
    <3>2. out.ret = "ASSERT_FAILS"
      BY <1>3, <2>3, <3>1, Zenon
    <3> QED BY <3>1, <3>2
  <2>4. CASE n >= 256
    <3>1. ~(n < 128) /\ n \notin 128..(256 - 1)
      BY <2>1, <2>4
    <3>2. out.ret = "UNDEFINED"
      BY <1>3, <3>1, Zenon
    <3> QED BY <3>1, <3>2
  <2>5. n < 128 \/ n \in 128..(256 - 1) \/ n >= 256
    BY <2>1
  <2> QED BY <2>2, <2>3, <2>4, <2>5
<1>5. out.ret = "SUCCESS" <=> m <= 91
  BY <1>1, <1>2, <1>4
<1> QED
  BY <1>1, <1>5 DEF Passes, out, m, text

(* A post sends all header lines and the type of its content, or nothing.  *)
PostDoes(h, out) ==
  IF Len(Joined(h)) <= 91
    THEN out.ret = "SUCCESS" /\ out.unix = Append(h, ContentType)
    ELSE out.ret # "SUCCESS"

(* That is so for every text of a provider. *)
LEMMA PostSends ==
  ASSUME NEW h \in Headers
  PROVE  PostDoes(h, OutOfPost(h))
<1> DEFINE all == Append(h, ContentType)
           header == post_header(Joined(h))
<1>1. h \in Seq(Text) /\ (\A i \in 1..Len(h) : IsLine(h[i])) /\ Len(h) \in Nat
  <2>1. h \in Seq(Seq(STRING)) /\ \A i \in 1..Len(h) : IsLine(h[i])
    BY FormatsAssumption
  <2>2. Seq(STRING) \subseteq Text
    BY SeqOfMore DEF Text, Character
  <2>3. h \in Seq(Text)
    <3> DEFINE T == Seq(STRING)
    <3> HIDE DEF T
    <3> QED BY <2>1, <2>2 DEF T
  <2> QED BY <2>1, <2>3
<1>2. ContentType \in Text /\ IsLine(ContentType)
  BY ContentTypeIs
<1>3. AreLines(all) /\ all # <<>>
  <2>1. all \in Seq(Text) /\ Len(all) = Len(h) + 1 /\ all[Len(h) + 1] = ContentType
        /\ \A i \in 1..Len(h) : all[i] = h[i]
    BY <1>1, <1>2
  <2> HIDE DEF all
  <2>2. ASSUME NEW i \in 1..Len(all) PROVE IsLine(all[i])
    <3>1. i \in 1..Len(h) \/ i = Len(h) + 1
      BY <1>1, <2>1
    <3> QED BY <1>1, <1>2, <2>1, <3>1
  <2>3. all # <<>>
    BY <1>1, <2>1
  <2> QED BY <2>1, <2>2, <2>3 DEF AreLines
<1>4. /\ header.text = AddLine(Joined(h), ContentType)
      /\ header.ret = "SUCCESS" <=> Len(Joined(h)) <= 91
  BY <1>1, JoinedText, PostPasses DEF Passes
<1>5. header.text = Joined(all)
  <2>1. Joined(all) = AddLine(Joined(h), ContentType)
    BY <1>1, <1>2, JoinIsFold, Join!FoldAppend
  <2> QED BY <1>4, <2>1
<1>6. OutOfPost(h) = IF header.ret # "SUCCESS" THEN [ret |-> header.ret]
                     ELSE [ret |-> "SUCCESS", unix |-> curl_post_lines(header.text),
                           esp32 |-> esp32_headers(header.text)]
  BY DEF OutOfPost
<1>7. curl_post_lines(Joined(all)) = all
  <2> HIDE DEF all
  <2> QED BY <1>3, CutBack
<1> HIDE DEF all, header
<1>8. CASE header.ret = "SUCCESS"
  <2>1. OutOfPost(h).ret = "SUCCESS" /\ OutOfPost(h).unix = all
    BY <1>5, <1>6, <1>7, <1>8
  <2> QED BY <1>4, <1>8, <2>1 DEF PostDoes, all
<1>9. CASE header.ret # "SUCCESS"
  <2>1. OutOfPost(h).ret # "SUCCESS"
    BY <1>6, <1>9
  <2> QED BY <1>4, <1>9, <2>1 DEF PostDoes
<1> QED
  BY <1>8, <1>9

(* All header lines of the provider, and the type of the content, are sent *)
(* with a transaction by the port of the unix example, each whole, when    *)
(* their text has at most 91 characters; with a longer one nothing is.     *)
THEOREM HeadersSent == Spec => []HeadersArrive
<1>1. ASSUME CallInv PROVE HeadersArrive
  <2> SUFFICES ASSUME call.fn = "tx_post" PROVE PostDoes(call.in, call.out)
    BY Zenon DEF HeadersArrive, PostDoes
  <2>1. PICK h \in Headers : call.in = h /\ call.out = OutOfPost(h)
    BY <1>1 DEF CallInv, Was
  <2> QED BY <2>1, PostSends
<1> QED
  BY <1>1, CallInvHolds, PTL

-----------------------------------------------------------------------------
(* The theorem about application states.                                   *)

(* Parsing the elements and picking those with a key are folds. *)
Parse == INSTANCE FoldFacts WITH Op <- parse_global

Pick == INSTANCE FoldFacts WITH Op <- AddKeyed

(* FoldFacts says of them what a fold is. *)
LEMMA ParseIsFold == \A base, s : FoldLeft(parse_global, base, s) = Parse!Fold(base, s)
BY DEF Parse!Fold, FoldLeft, MapThenFoldSet, Max, Parse!FoldLeft, Parse!MapThenFoldSet, Parse!Max

(* The same for Keyed. *)
LEMMA PickIsFold == \A s : Keyed(s) = Pick!Fold(<<>>, s)
BY DEF Keyed, Pick!Fold, FoldLeft, MapThenFoldSet, Max, Pick!FoldLeft, Pick!MapThenFoldSet, Pick!Max

(* The entry of an element. *)
EntryOf(element) == Entry(WithText(element))

EntriesOf(elements) == {EarlierEntry} \cup {EntryOf(element) : element \in elements}

(* The entries that were read: given ones, then one for each of the first  *)
(* elements, which are complete.                                           *)
EntriesRead(values, given, keyed, n) ==
  /\ n \in 0..Len(keyed) /\ Len(values) = Len(given) + n
  /\ \A i \in 1..Len(given) : values[i] = given[i]
  /\ \A i \in 1..n : values[Len(given) + i] = EntryOf(keyed[i]) /\ ~Incomplete(keyed[i].value)

(* The element after the first n has no place, or is incomplete. *)
StopsAfter(s, given, keyed, n) ==
  /\ EntriesRead(s.values, given, keyed, n)
  /\ IF Len(given) + n >= APPS_KV_MAX_COUNT THEN s.ret = "UNDEFINED"
     ELSE s.ret = "NOT_FOUND" /\ Incomplete(keyed[n + 1].value)

(* The parsing goes on as long as there are places and the elements are    *)
(* complete.                                                               *)
ParsedTo(s, given, keyed) ==
  \/ /\ s.ret = "SUCCESS" /\ EntriesRead(s.values, given, keyed, Len(keyed))
     /\ Len(given) + Len(keyed) <= APPS_KV_MAX_COUNT
  \/ s.ret # "SUCCESS" /\ \E n \in 0..(Len(keyed) - 1) : StopsAfter(s, given, keyed, n)

(* States of the parsing, with entries of a set of elements. *)
ParseStates(elements) == [ret : {"SUCCESS", "NOT_FOUND", "UNDEFINED"}, values : Seq(EntriesOf(elements))]

(* An element with a key has one in the answer, too, and the same value. *)
LEMMA TextOfKey ==
  ASSUME NEW e \in GlobalElements
  PROVE  /\ WithText(e).key = Absent <=> e.key = Absent
         /\ WithText(e).value = e.value
<1>1. e.key \in {Absent} \cup Seq(Byte)
  BY DEF GlobalElements
<1>2. e.key \in Seq(Byte) => NodeText(e.key) # Absent
  <2>1. Absent \notin Seq(Char)
    BY FormatsAssumption DEF Char
  <2>2. e.key \in Seq(Byte) => NodeText(e.key) \in Seq(Char)
    BY EncodedText, NodeTextIs
  <2> QED BY <2>1, <2>2
<1>3. CASE e.key = Absent
  BY <1>3 DEF WithText
<1>4. CASE e.key # Absent
  <2>1. WithText(e) = [e EXCEPT !.key = NodeText(e.key)]
    BY <1>4 DEF WithText
  <2> QED BY <1>1, <1>2, <1>4, <2>1 DEF GlobalElements
<1> QED
  BY <1>3, <1>4

(* One more keyed element does not change what was read. *)
LEMMA MoreKeyed ==
  ASSUME NEW E, NEW keyed \in Seq(E), NEW e \in E
  PROVE  /\ Append(keyed, e) \in Seq(E) /\ Len(keyed) \in Nat /\ Len(Append(keyed, e)) = Len(keyed) + 1
         /\ \A i \in 1..Len(keyed) : Append(keyed, e)[i] = keyed[i]
         /\ Append(keyed, e)[Len(keyed) + 1] = e
OBVIOUS

(* What was read stays read when one more element has a key. *)
LEMMA StillRead ==
  ASSUME NEW E, NEW keyed \in Seq(E), NEW e \in E, NEW values, NEW given, NEW n, EntriesRead(values, given, keyed, n)
  PROVE  EntriesRead(values, given, Append(keyed, e), n)
<1> DEFINE more == Append(keyed, e)
<1>1. Len(keyed) \in Nat /\ Len(more) = Len(keyed) + 1 /\ \A i \in 1..Len(keyed) : more[i] = keyed[i]
  BY MoreKeyed
<1> HIDE DEF more
<1>2. n \in 0..Len(keyed)
  BY DEF EntriesRead
<1>3. n \in 0..Len(more) /\ \A i \in 1..n : i \in 1..Len(keyed) /\ more[i] = keyed[i]
  BY <1>1, <1>2
<1>4. EntriesRead(values, given, more, n)
  BY <1>3 DEF EntriesRead
<1> QED
  BY <1>4 DEF more

(* The elements that are not skipped. *)
WithKey(elements) == {e \in elements : e.key # Absent}

(* One element. *)
LEMMA ElementParsed ==
  ASSUME NEW elements \in SUBSET GlobalElements, NEW e \in elements, NEW given \in Seq(EntriesOf(elements)),
         NEW keyed \in Seq(WithKey(elements)), NEW s \in ParseStates(elements), ParsedTo(s, given, keyed)
  PROVE  /\ AddKeyed(keyed, e) \in Seq(WithKey(elements))
         /\ parse_global(s, WithText(e)) \in ParseStates(elements)
         /\ ParsedTo(parse_global(s, WithText(e)), given, AddKeyed(keyed, e))
<1> DEFINE w == WithText(e)
           t == parse_global(s, w)
           more == AddKeyed(keyed, e)
<1>1. (w.key = Absent <=> e.key = Absent) /\ w.value = e.value
  BY TextOfKey
<1>2. s.ret \in {"SUCCESS", "NOT_FOUND", "UNDEFINED"} /\ s.values \in Seq(EntriesOf(elements))
  BY DEF ParseStates
<1>3. Entry(w) = EntryOf(e) /\ EntryOf(e) \in EntriesOf(elements)
  BY DEF EntryOf, EntriesOf
<1> HIDE DEF w
<1>4. t = IF s.ret # "SUCCESS" \/ w.key = Absent THEN s
          ELSE IF Full(s) THEN [s EXCEPT !.ret = "UNDEFINED"]
          ELSE IF Incomplete(w.value) THEN [s EXCEPT !.ret = "NOT_FOUND"]
          ELSE [s EXCEPT !.values = Append(@, Entry(w))]
  BY Zenon DEF parse_global
<1>5. more = IF e.key = Absent THEN keyed ELSE Append(keyed, e)
  BY DEF AddKeyed
<1>6. more \in Seq(WithKey(elements)) /\ (e.key # Absent => e \in WithKey(elements))
  <2>1. e.key # Absent => e \in WithKey(elements)
    BY DEF WithKey
  <2> QED BY <1>5, <2>1, MoreKeyed
<1> HIDE DEF t, more
<1>7. CASE e.key = Absent
  BY <1>1, <1>4, <1>5, <1>7 DEF w, t, more
<1>8. CASE e.key # Absent /\ s.ret # "SUCCESS"
  <2>1. t = s /\ more = Append(keyed, e)
    BY <1>4, <1>5, <1>8
  <2>2. PICK n \in 0..(Len(keyed) - 1) : StopsAfter(s, given, keyed, n)
    BY <1>8 DEF ParsedTo
  <2>3. EntriesRead(s.values, given, keyed, n)
    BY <2>2 DEF StopsAfter
  <2>4. EntriesRead(s.values, given, more, n)
    BY <1>6, <1>8, <2>1, <2>3, StillRead
  <2>5. n \in 0..(Len(more) - 1) /\ more[n + 1] = keyed[n + 1]
    <3>1. Len(more) = Len(keyed) + 1 /\ Len(keyed) \in Nat /\ \A i \in 1..Len(keyed) : more[i] = keyed[i]
      BY <1>6, <1>8, <2>1, MoreKeyed
    <3> QED BY <2>2, <3>1
  <2>6. StopsAfter(s, given, more, n)
    BY <2>2, <2>4, <2>5 DEF StopsAfter
  <2>7. ParsedTo(s, given, more)
    BY <1>8, <2>5, <2>6 DEF ParsedTo
  <2> QED BY <1>6, <2>1, <2>7 DEF w, t, more
<1>9. ASSUME e.key # Absent, s.ret = "SUCCESS"
      PROVE  t \in ParseStates(elements) /\ ParsedTo(t, given, more)
  <2>1. more = Append(keyed, e) /\ w.key # Absent
    BY <1>1, <1>5, <1>9
  <2>2. Len(more) = Len(keyed) + 1 /\ Len(keyed) \in Nat /\ more[Len(keyed) + 1] = e
        /\ \A i \in 1..Len(keyed) : more[i] = keyed[i]
    BY <1>6, <1>9, <2>1, MoreKeyed
  <2>3. EntriesRead(s.values, given, keyed, Len(keyed)) /\ Len(given) + Len(keyed) <= APPS_KV_MAX_COUNT
    BY <1>9 DEF ParsedTo
  <2>4. /\ Full(s) <=> Len(given) + Len(keyed) >= APPS_KV_MAX_COUNT
        /\ Len(keyed) \in 0..(Len(more) - 1) /\ Len(given) \in Nat
    BY <2>2, <2>3 DEF Full, EntriesRead
  <2>5. ASSUME Full(s) \/ Incomplete(e.value)
        PROVE  t \in ParseStates(elements) /\ ParsedTo(t, given, more)
    <3> DEFINE ret == IF Full(s) THEN "UNDEFINED" ELSE "NOT_FOUND"
    <3>1. t = [s EXCEPT !.ret = ret]
      BY <1>1, <1>4, <1>9, <2>1, <2>5
    <3>2. t \in ParseStates(elements) /\ t.ret = ret /\ ret # "SUCCESS" /\ t.values = s.values
      BY <3>1 DEF ParseStates
    <3>3. EntriesRead(t.values, given, more, Len(keyed))
      BY <1>6, <1>9, <2>1, <2>3, <3>2, StillRead
    <3>4. StopsAfter(t, given, more, Len(keyed))
      BY <2>2, <2>4, <2>5, <3>2, <3>3 DEF StopsAfter
    <3> QED BY <2>4, <3>2, <3>4 DEF ParsedTo
  <2>6. CASE ~Full(s) /\ ~Incomplete(e.value)
    <3> DEFINE values == Append(s.values, EntryOf(e))
    <3>1. t = [s EXCEPT !.values = values]
      BY <1>1, <1>3, <1>4, <1>9, <2>1, <2>6
    <3>2. values \in Seq(EntriesOf(elements)) /\ Len(values) = Len(s.values) + 1 /\ Len(s.values) \in Nat
          /\ values[Len(s.values) + 1] = EntryOf(e)
          /\ \A i \in 1..Len(s.values) : values[i] = s.values[i]
      BY <1>2, <1>3, MoreKeyed
    <3> HIDE DEF values
    <3>3. t \in ParseStates(elements) /\ t.ret = "SUCCESS" /\ t.values = values
      BY <1>2, <1>9, <3>1, <3>2 DEF ParseStates
    <3>4. EntriesRead(values, given, more, Len(more))
      <4>1. /\ Len(s.values) = Len(given) + Len(keyed) /\ Len(given) \in Nat
            /\ \A i \in 1..Len(given) : s.values[i] = given[i]
            /\ \A i \in 1..Len(keyed) : s.values[Len(given) + i] = EntryOf(keyed[i]) /\ ~Incomplete(keyed[i].value)
        BY <2>3 DEF EntriesRead
      <4>2. Len(values) = Len(given) + Len(more) /\ Len(more) \in 0..Len(more)
        BY <2>2, <3>2, <4>1
      <4>3. ASSUME NEW i \in 1..Len(given) PROVE values[i] = given[i]
        BY <2>2, <3>2, <4>1
      <4>4. ASSUME NEW i \in 1..Len(more)
            PROVE  values[Len(given) + i] = EntryOf(more[i]) /\ ~Incomplete(more[i].value)
        <5>1. CASE i = Len(keyed) + 1
          <6>1. Len(given) + i = Len(s.values) + 1
            BY <2>2, <4>1, <5>1
          <6> QED BY <2>2, <2>6, <3>2, <5>1, <6>1
        <5>2. CASE i # Len(keyed) + 1
          <6>1. i \in 1..Len(keyed) /\ Len(given) + i \in 1..Len(s.values)
            BY <2>2, <4>1, <5>2
          <6>2. values[Len(given) + i] = s.values[Len(given) + i]
            BY <3>2, <6>1
          <6>3. s.values[Len(given) + i] = EntryOf(keyed[i]) /\ ~Incomplete(keyed[i].value) /\ more[i] = keyed[i]
            BY <2>2, <4>1, <6>1
          <6> QED BY <6>2, <6>3
        <5> QED BY <5>1, <5>2
      <4> QED BY <4>2, <4>3, <4>4 DEF EntriesRead
    <3>5. Len(given) + Len(more) <= APPS_KV_MAX_COUNT
      BY <2>2, <2>4, <2>6 DEF APPS_KV_MAX_COUNT
    <3> QED BY <3>3, <3>4, <3>5 DEF ParsedTo
  <2> QED BY <2>5, <2>6
<1> QED
  BY <1>2, <1>6, <1>7, <1>8, <1>9 DEF w, t, more

(* All elements, one after the other. *)
LEMMA AllParsed ==
  ASSUME NEW elements \in SUBSET GlobalElements, NEW es \in Seq(elements), NEW given \in Seq(EntriesOf(elements)),
         Len(given) <= APPS_KV_MAX_COUNT,
         NEW start \in ParseStates(elements), start.ret = "SUCCESS", start.values = given
  PROVE  LET s == FoldLeft(parse_global, start, [i \in DOMAIN es |-> WithText(es[i])])
         IN  /\ Keyed(es) \in Seq(WithKey(elements)) /\ s \in ParseStates(elements)
             /\ ParsedTo(s, given, Keyed(es))
<1> DEFINE n == Len(es)
           ws == [i \in DOMAIN es |-> WithText(es[i])]
           W == {WithText(e) : e \in elements}
<1>1. n \in Nat /\ \A i \in 1..n : es[i] \in elements
  OBVIOUS
<1>2. ws \in Seq(W) /\ Len(ws) = n /\ \A i \in 1..n : ws[i] = WithText(es[i])
  <2>1. ws = [i \in 1..n |-> WithText(es[i])] /\ \A i \in 1..n : WithText(es[i]) \in W
    BY <1>1
  <2> HIDE DEF W
  <2> QED BY <1>1, <2>1
<1> HIDE DEF ws
<1>3. PICK f : Parse!Steps(start, ws, f) /\ Parse!Fold(start, ws) = f[n]
  BY <1>2, Parse!FoldSteps
<1>4. PICK g : Pick!Steps(<<>>, es, g) /\ Pick!Fold(<<>>, es) = g[n]
  BY Pick!FoldSteps
<1> DEFINE S == {m \in Nat : m <= n => g[m] \in Seq(WithKey(elements)) /\ f[m] \in ParseStates(elements)
                                       /\ ParsedTo(f[m], given, g[m])}
<1>5. 0 \in S
  <2>1. f[0] = start /\ g[0] = <<>>
    BY <1>3, <1>4 DEF Parse!Steps, Pick!Steps
  <2>2. EntriesRead(given, given, <<>>, 0)
    BY DEF EntriesRead
  <2>3. ParsedTo(start, given, <<>>)
    <3>1. Len(given) + Len(<<>>) <= APPS_KV_MAX_COUNT
      BY DEF APPS_KV_MAX_COUNT
    <3> QED BY <2>2, <3>1 DEF ParsedTo
  <2>4. <<>> \in Seq(WithKey(elements))
    OBVIOUS
  <2>5. g[0] \in Seq(WithKey(elements)) /\ f[0] \in ParseStates(elements) /\ ParsedTo(f[0], given, g[0])
    BY <2>1, <2>3, <2>4, Zenon
  <2> QED BY <2>5
<1>6. ASSUME NEW m \in S PROVE m + 1 \in S
  <2> SUFFICES ASSUME m + 1 <= n
               PROVE  /\ g[m + 1] \in Seq(WithKey(elements)) /\ f[m + 1] \in ParseStates(elements)
                      /\ ParsedTo(f[m + 1], given, g[m + 1])
    OBVIOUS
  <2>1. /\ m \in Nat /\ m + 1 \in 1..n /\ (m + 1) - 1 = m
        /\ g[m] \in Seq(WithKey(elements)) /\ f[m] \in ParseStates(elements) /\ ParsedTo(f[m], given, g[m])
    BY <1>1
  <2>2. f[m + 1] = parse_global(f[m], WithText(es[m + 1]))
    BY <1>2, <1>3, <2>1 DEF Parse!Steps
  <2>3. g[m + 1] = AddKeyed(g[m], es[m + 1])
    BY <1>4, <2>1 DEF Pick!Steps
  <2>4. es[m + 1] \in elements
    BY <1>1, <2>1
  <2> QED BY <2>1, <2>2, <2>3, <2>4, ElementParsed
<1>7. S = Nat
  <2> HIDE DEF S
  <2>1. S \in SUBSET Nat
    BY DEF S
  <2> QED BY <1>5, <1>6, <2>1, Parse!Induction
<1>8. g[n] \in Seq(WithKey(elements)) /\ f[n] \in ParseStates(elements) /\ ParsedTo(f[n], given, g[n])
  <2>1. n \in S /\ n <= n
    <3> HIDE DEF S
    <3> QED BY <1>1, <1>7
  <2> QED BY <2>1
<1> QED
  BY <1>3, <1>4, <1>8, ParseIsFold, PickIsFold DEF ws

(* The first bytes of a name, as they are stored. *)
NameOf(key) == SubSeq(key \o Zeros(8), 1, 8)

(* A sequence of one set after another. *)
LEMMA StartOf ==
  ASSUME NEW s \in Seq(Byte), NEW z \in Nat, NEW n \in Nat \ {0}, n <= Len(s) + z
  PROVE  LET p == SubSeq(s \o Zeros(z), 1, n)
         IN  /\ p \in Seq(Byte) /\ Len(p) = n
             /\ \A i \in 1..n : p[i] = IF i <= Len(s) THEN s[i] ELSE 0
<1> DEFINE zeros == Zeros(z)
           both == s \o zeros
           p == SubSeq(both, 1, n)
<1>1. zeros \in Seq(Byte) /\ Len(zeros) = z /\ \A i \in 1..z : zeros[i] = 0
  BY DEF Zeros, Byte
<1> HIDE DEF zeros
<1>2. /\ both \in Seq(Byte) /\ Len(both) = Len(s) + z /\ Len(s) \in Nat
      /\ \A i \in 1..Len(both) : both[i] = IF i <= Len(s) THEN s[i] ELSE 0
  BY <1>1
<1> HIDE DEF both
<1>3. p \in Seq(Byte) /\ Len(p) = n /\ \A i \in 1..n : p[i] = both[i]
  BY <1>2, FirstPartOf
<1> HIDE DEF p
<1>4. \A i \in 1..n : p[i] = IF i <= Len(s) THEN s[i] ELSE 0
  BY <1>2, <1>3
<1> QED
  BY <1>3, <1>4, Zenon DEF p, both, zeros

(* A name that fits the decoder's buffer is stored right, cut or filled up. *)
LEMMA NameStored ==
  ASSUME NEW key \in Seq(Byte), Len(key) < KEY_STR_SIZE
  PROVE  name_of(NodeText(key)) = NameOf(key)
<1> DEFINE text == NodeText(key)
           a == SubSeq(key \o Zeros(16), 1, 16)
           b == SubSeq(a, 1, 8)
           c == SubSeq(key \o Zeros(8), 1, 8)
<1>1. Len(key) \in Nat /\ Len(key) < 16
  BY DEF KEY_STR_SIZE
<1>2. b64_decode(text, 16).data = key
  <2>1. key = <<>> \/ 3 * Groups(Len(key)) - 1 <= 16
    <3>1. Groups(Len(key)) \in Nat /\ 3 * Groups(Len(key)) - Len(key) \in 0..2
      BY GroupsCover
    <3> DEFINE m == Groups(Len(key))
               n == Len(key)
    <3>2. m \in Nat /\ 3 * m - n \in 0..2 /\ n \in Nat /\ n < 16
      BY <1>1, <3>1
    <3> HIDE DEF m, n
    <3>3. 3 * m - 1 <= 16
      BY <3>2
    <3> QED BY <3>3 DEF m
  <2> DEFINE size == 16
  <2>2. size \in Nat /\ (key = <<>> \/ 3 * Groups(Len(key)) - 1 <= size)
    BY <2>1
  <2> HIDE DEF size
  <2>3. b64_decode(text, size) = [ret |-> "SUCCESS", data |-> key]
    BY <2>2, DecodedBack, NodeTextIs
  <2>4. b64_decode(text, size).data = key
    BY <2>3
  <2> QED BY <2>4, Zenon DEF size
<1>3. name_of(text) = b
  BY <1>2, Zenon DEF name_of, key_str, KEY_STR_SIZE, APPS_KV_NAME_MAX_LENGTH
<1>4. a \in Seq(Byte) /\ Len(a) = 16 /\ \A i \in 1..16 : a[i] = IF i <= Len(key) THEN key[i] ELSE 0
  <2> DEFINE n == 16
  <2>1. n \in Nat \ {0} /\ n <= Len(key) + n
    BY <1>1
  <2> HIDE DEF n
  <2>2. LET p == SubSeq(key \o Zeros(n), 1, n)
        IN  p \in Seq(Byte) /\ Len(p) = n /\ \A i \in 1..n : p[i] = IF i <= Len(key) THEN key[i] ELSE 0
    BY <2>1, StartOf
  <2> QED BY <2>2, Zenon DEF n
<1>5. c \in Seq(Byte) /\ Len(c) = 8 /\ \A i \in 1..8 : c[i] = IF i <= Len(key) THEN key[i] ELSE 0
  <2> DEFINE n == 8
  <2>1. n \in Nat \ {0} /\ n <= Len(key) + n
    BY <1>1
  <2> HIDE DEF n
  <2>2. LET p == SubSeq(key \o Zeros(n), 1, n)
        IN  p \in Seq(Byte) /\ Len(p) = n /\ \A i \in 1..n : p[i] = IF i <= Len(key) THEN key[i] ELSE 0
    BY <2>1, StartOf, ZenonT(60)
  <2> QED BY <2>2, Zenon DEF n
<1> HIDE DEF a
<1>6. b \in Seq(Byte) /\ Len(b) = 8 /\ \A i \in 1..8 : b[i] = a[i]
  <2> DEFINE n == 8
  <2>1. n \in Nat \ {0} /\ n <= Len(a)
    BY <1>4
  <2> HIDE DEF n
  <2>2. SubSeq(a, 1, n) \in Seq(Byte) /\ Len(SubSeq(a, 1, n)) = n /\ \A i \in 1..n : SubSeq(a, 1, n)[i] = a[i]
    BY <1>4, <2>1, FirstPartOf, ZenonT(60)
  <2> QED BY <2>2, Zenon DEF n
<1> HIDE DEF b, c
<1>7. ASSUME NEW i \in 1..8 PROVE b[i] = c[i]
  <2>1. i \in 1..16
    OBVIOUS
  <2>2. b[i] = a[i]
    BY <1>6
  <2>3. a[i] = IF i <= Len(key) THEN key[i] ELSE 0
    BY <1>4, <2>1
  <2>4. c[i] = IF i <= Len(key) THEN key[i] ELSE 0
    BY <1>5
  <2> QED BY <2>2, <2>3, <2>4, Zenon
<1>8. b = c
  BY <1>5, <1>6, <1>7, SeqEqual
<1> QED
  BY <1>3, <1>8 DEF NameOf, c

(* What the caller has already. *)
LEMMA EarlierIs ==
  ASSUME NEW S, EarlierEntry \in S, NEW n \in 0..APPS_KV_MAX_COUNT
  PROVE  Earlier(n) \in Seq(S) /\ Len(Earlier(n)) = n /\ n \in Nat
<1>1. n \in Nat
  OBVIOUS
<1> DEFINE entry(i) == EarlierEntry
<1>2. Earlier(n) = [i \in 1..n |-> entry(i)]
  BY DEF Earlier
<1>3. \A i \in 1..n : entry(i) \in S
  OBVIOUS
<1> HIDE DEF entry
<1>4. [i \in 1..n |-> entry(i)] \in Seq(S) /\ Len([i \in 1..n |-> entry(i)]) = n
  BY <1>1, <1>3, IsASeq
<1> QED
  BY <1>1, <1>2, <1>4

(* A sequence that begins with another one. *)
LEMMA StartIs ==
  ASSUME NEW S, NEW s \in Seq(S), NEW t \in Seq(S), NEW n \in Nat, n = Len(t), n <= Len(s),
         \A i \in 1..n : s[i] = t[i]
  PROVE  SubSeq(s, 1, n) = t
<1> DEFINE p == SubSeq(s, 1, n)
<1>1. p \in Seq(S) /\ Len(p) = n /\ \A i \in 1..n : p[i] = s[i]
  <2>1. CASE n = 0
    BY <2>1
  <2>2. CASE n # 0
    BY <2>2, FirstPartOf
  <2> QED BY <2>1, <2>2
<1> HIDE DEF p
<1>2. p = t
  BY <1>1, SeqEqual
<1> QED
  BY <1>2 DEF p

(* A set of natural numbers has a least one. *)
LEMMA LeastIn ==
  ASSUME NEW S \in SUBSET Nat, S # {}
  PROVE  \E p \in S : \A q \in S : p <= q
<1> SUFFICES ASSUME \A p \in S : \E q \in S : q < p PROVE FALSE
  OBVIOUS
<1> DEFINE T == {n \in Nat : \A q \in S : n <= q}
<1>1. 0 \in T
  OBVIOUS
<1>2. ASSUME NEW n \in T PROVE n + 1 \in T
  <2>1. n \in Nat /\ \A q \in S : n <= q
    OBVIOUS
  <2>2. n \notin S
    BY <2>1
  <2>3. \A q \in S : n + 1 <= q
    BY <2>1, <2>2
  <2> QED BY <2>1, <2>3
<1>3. T = Nat
  <2> HIDE DEF T
  <2>1. T \in SUBSET Nat
    BY DEF T
  <2> QED BY <1>1, <1>2, <2>1, Parse!Induction
<1>4. PICK q \in S : TRUE
  OBVIOUS
<1>5. q + 1 \in T /\ q \in Nat
  BY <1>3, <1>4
<1> QED
  BY <1>4, <1>5

(* What comes out for the elements with a key, if written of them get into *)
(* the places and the first ones, read, are complete.                      *)
EntriesInto(s, given, keyed, written, read) ==
  IF Len(given) + written > APPS_KV_MAX_COUNT THEN s.ret = "UNDEFINED"
  ELSE s.ret # "UNDEFINED" /\ EntriesRead(s.values, given, keyed, read)

(* Reading goes on until the first incomplete value. *)
LEMMA ReadTo ==
  ASSUME NEW given, Len(given) \in Nat, NEW E, NEW keyed \in Seq(E), NEW s, ParsedTo(s, given, keyed)
  PROVE  LET stop == SelectInSeq(keyed, LAMBDA e : Incomplete(e.value))
         IN  EntriesInto(s, given, keyed, IF stop = 0 THEN Len(keyed) ELSE stop,
                                       IF stop = 0 THEN Len(keyed) ELSE stop - 1)
<1> DEFINE bad == {i \in 1..Len(keyed) : Incomplete(keyed[i].value)}
           stop == SelectInSeq(keyed, LAMBDA e : Incomplete(e.value))
           written == IF stop = 0 THEN Len(keyed) ELSE stop
           read == IF stop = 0 THEN Len(keyed) ELSE stop - 1
<1>1. stop = IF bad # {} THEN Min(bad) ELSE 0
  BY DEF SelectInSeq
<1>2. Len(keyed) \in Nat /\ APPS_KV_MAX_COUNT \in Nat
  BY DEF APPS_KV_MAX_COUNT
<1> HIDE DEF stop
<1>3. CASE /\ s.ret = "SUCCESS" /\ EntriesRead(s.values, given, keyed, Len(keyed))
           /\ Len(given) + Len(keyed) <= APPS_KV_MAX_COUNT
  <2>1. bad = {}
    BY <1>3 DEF EntriesRead
  <2>2. stop = 0
    BY <1>1, <2>1
  <2> QED BY <1>2, <1>3, <2>2 DEF EntriesInto, stop
<1>4. ASSUME NEW n \in 0..(Len(keyed) - 1), StopsAfter(s, given, keyed, n)
      PROVE  EntriesInto(s, given, keyed, written, read)
  <2>1. EntriesRead(s.values, given, keyed, n) /\ \A i \in 1..n : ~Incomplete(keyed[i].value)
    BY <1>4 DEF StopsAfter, EntriesRead
  <2>2. CASE Len(given) + n >= APPS_KV_MAX_COUNT
    <3>1. s.ret = "UNDEFINED"
      BY <1>4, <2>2 DEF StopsAfter
    <3>2. bad # {} => Min(bad) \in bad
      <4>1. ASSUME bad # {} PROVE \E p \in bad : \A q \in bad : p <= q
        <5> DEFINE S == bad
        <5>1. S \subseteq Nat /\ S # {}
          BY <4>1
        <5> HIDE DEF S
        <5>2. \E p \in S : \A q \in S : p <= q
          BY <5>1, LeastIn
        <5> QED BY <5>2 DEF S
      <4> HIDE DEF bad
      <4> QED BY <4>1 DEF Min
    <3>3. written >= n + 1
      <4>1. \A p \in bad : p \in Nat /\ p >= n + 1
        BY <1>2, <2>1
      <4> HIDE DEF bad
      <4> QED BY <1>1, <1>2, <3>2, <4>1
    <3>4. Len(given) + written > APPS_KV_MAX_COUNT
      <4>1. written \in Nat
        BY <1>1, <1>2, <3>2
      <4> HIDE DEF written
      <4> QED BY <1>2, <2>2, <3>3, <4>1
    <3> QED BY <3>1, <3>4 DEF EntriesInto
  <2>3. CASE Len(given) + n < APPS_KV_MAX_COUNT
    <3>1. s.ret = "NOT_FOUND" /\ Incomplete(keyed[n + 1].value)
      BY <1>2, <1>4, <2>3 DEF StopsAfter
    <3>2. n + 1 \in bad /\ \A p \in bad : n + 1 <= p /\ p \in Nat
      BY <1>2, <2>1, <3>1
    <3> HIDE DEF bad
    <3>3. Min(bad) = n + 1
      <4>1. \A p \in bad : (\A q \in bad : p <= q) => p = n + 1
        BY <3>2
      <4> QED BY <3>2, <4>1 DEF Min
    <3>4. written = n + 1 /\ read = n
      BY <1>1, <3>2, <3>3
    <3> HIDE DEF written, read
    <3>5. ~(Len(given) + written > APPS_KV_MAX_COUNT)
      BY <1>2, <2>3, <3>4
    <3> QED BY <2>1, <3>1, <3>4, <3>5 DEF EntriesInto
  <2> QED BY <1>2, <2>2, <2>3
<1> QED
  BY <1>3, <1>4 DEF ParsedTo, stop

(* The result for an answer: the entries of the first elements with a key. *)
LEMMA AnswerRead ==
  ASSUME NEW a \in StateAnswers, NEW m \in 0..APPS_KV_MAX_COUNT
  PROVE  LET keyed == Keyed(a.globals)
             stop == SelectInSeq(keyed, LAMBDA e : Incomplete(e.value))
             written == IF a.kind # "globals" THEN 0 ELSE IF stop = 0 THEN Len(keyed) ELSE stop
             read == IF a.kind # "globals" \/ stop = 0 THEN written ELSE stop - 1
             out == OutOfAnswer(a, Earlier(m))
         IN  /\ keyed \in Seq(WithKey(GlobalElements)) /\ out.values \in Seq(EntriesOf(GlobalElements))
             /\ EntriesInto(out, Earlier(m), keyed, written, read)
<1> DEFINE es == a.globals
           keyed == Keyed(es)
           ws == [i \in DOMAIN es |-> WithText(es[i])]
           given == Earlier(m)
           start == [ret |-> "SUCCESS", values |-> given]
           texts == [a EXCEPT !.globals = ws]
           s == FoldLeft(parse_global, start, ws)
           stop == SelectInSeq(keyed, LAMBDA e : Incomplete(e.value))
<1>1. a.kind \in AnswerKinds /\ es \in Seq(GlobalElements)
  BY FormatsAssumption
<1>2. /\ given \in Seq(EntriesOf(GlobalElements)) /\ Len(given) \in Nat
      /\ Len(given) <= APPS_KV_MAX_COUNT
  <2>1. EarlierEntry \in EntriesOf(GlobalElements)
    BY DEF EntriesOf
  <2>2. given \in Seq(EntriesOf(GlobalElements)) /\ Len(given) = m
    BY <2>1, EarlierIs
  <2> HIDE DEF given
  <2> QED BY <2>2 DEF APPS_KV_MAX_COUNT
<1> HIDE DEF given
<1>3. start \in ParseStates(GlobalElements) /\ start.ret = "SUCCESS" /\ start.values = given
  BY <1>2 DEF ParseStates
<1>4. keyed \in Seq(WithKey(GlobalElements)) /\ s \in ParseStates(GlobalElements) /\ ParsedTo(s, given, keyed)
  <2> HIDE DEF start
  <2> QED BY <1>1, <1>2, <1>3, AllParsed
<1>5. texts.kind = a.kind /\ texts.globals = ws
  BY FormatsAssumption
<1>6. OutOfAnswer(a, given) = parser_application_json(texts, given)
  BY DEF OutOfAnswer
<1> HIDE DEF keyed, ws, texts, s, stop, es
<1>7. CASE a.kind = "globals"
  <2>1. parser_application_json(texts, given) = FoldLeft(parse_global, start, ws)
    BY <1>5, <1>7 DEF parser_application_json
  <2>2. OutOfAnswer(a, given) = s
    BY <1>6, <2>1 DEF s
  <2>3. EntriesInto(s, given, keyed, IF stop = 0 THEN Len(keyed) ELSE stop,
                                  IF stop = 0 THEN Len(keyed) ELSE stop - 1)
    BY <1>2, <1>4, ReadTo DEF stop
  <2>4. s.values \in Seq(EntriesOf(GlobalElements))
    BY <1>4 DEF ParseStates
  <2> QED BY <1>4, <1>7, <2>2, <2>3, <2>4 DEF keyed, es, stop, given
<1>8. CASE a.kind # "globals"
  <2>1. /\ parser_application_json(texts, given).values = given
        /\ parser_application_json(texts, given).ret # "UNDEFINED"
    BY <1>1, <1>5, <1>8 DEF parser_application_json, AnswerKinds
  <2>2. EntriesRead(given, given, keyed, 0)
    BY <1>2, <1>4 DEF EntriesRead
  <2>3. EntriesInto(OutOfAnswer(a, given), given, keyed, 0, 0)
    <3> DEFINE out == OutOfAnswer(a, given)
               n == Len(given)
    <3>1. ~(n + 0 > APPS_KV_MAX_COUNT)
      <4> HIDE DEF n
      <4> QED BY <1>2 DEF n, APPS_KV_MAX_COUNT
    <3>2. out.ret # "UNDEFINED" /\ EntriesRead(out.values, given, keyed, 0)
      BY <1>6, <2>1, <2>2
    <3> HIDE DEF out
    <3> QED BY <3>1, <3>2, Zenon DEF EntriesInto, out
  <2> QED BY <1>2, <1>4, <1>6, <1>8, <2>1, <2>3 DEF keyed, es, stop, given
<1> QED
  BY <1>7, <1>8

(* The entry of a complete element: its name, and its number. *)
LEMMA EntryIs ==
  ASSUME NEW e \in WithKey(GlobalElements), ~Incomplete(e.value)
  PROVE  /\ Len(e.key) < KEY_STR_SIZE => EntryOf(e).name = NameOf(e.key)
         /\ e.value.type = "integer" /\ e.value.content <= IntMax =>
              EntryOf(e).is = [type |-> "integer", value_uint |-> e.value.content]
<1>1. e \in GlobalElements /\ e.key \in Seq(Byte) /\ e.key # Absent
  BY DEF WithKey, GlobalElements
<1>2. WithText(e) = [e EXCEPT !.key = NodeText(e.key)]
  BY <1>1, Zenon DEF WithText
<1>3. WithText(e).key = NodeText(e.key) /\ WithText(e).value = e.value
  BY <1>1, <1>2 DEF GlobalElements
<1>4. EntryOf(e) = [name |-> name_of(NodeText(e.key)), is |-> stored_value(e.value)]
  BY <1>3, Zenon DEF EntryOf, Entry
<1>5. ASSUME Len(e.key) < KEY_STR_SIZE PROVE EntryOf(e).name = NameOf(e.key)
  <2>1. name_of(NodeText(e.key)) = NameOf(e.key)
    BY <1>1, <1>5, NameStored
  <2> QED BY <1>4, <2>1
<1>6. ASSUME e.value.type = "integer", e.value.content <= IntMax
      PROVE  EntryOf(e).is = [type |-> "integer", value_uint |-> e.value.content]
  <2>1. e.value # Absent /\ e.value.content # Absent
    BY <1>6 DEF Incomplete
  <2>2. e.value \in GlobalValues
    BY <1>1 DEF GlobalElements
  <2>3. e.value.content \in Nat
    BY <1>6, <2>1, <2>2 DEF GlobalValues
  <2>4. valueint(e.value.content) = e.value.content
    BY <1>6, <2>3, FormatsAssumption DEF valueint
  <2>5. stored_value(e.value) = [type |-> "integer", value_uint |-> e.value.content]
    BY <1>6, <2>4 DEF stored_value
  <2> QED BY <1>4, <2>5
<1> QED
  BY <1>5, <1>6

(* What the parser counts is complete and right: the elements with a key,  *)
(* up to the first incomplete one, after what was there, as long as what   *)
(* it writes has a place.                                                  *)
THEOREM StatesRead == Spec => []StatesAreRead
<1>1. ASSUME CallInv, call.fn = "application_get" PROVE StatesAreRead
  <2>1. PICK a \in StateAnswers, m \in 0..APPS_KV_MAX_COUNT :
          call.in = [answer |-> a, values |-> Earlier(m)] /\ call.out = OutOfAnswer(a, Earlier(m))
    BY <1>1 DEF CallInv, Was
  <2> DEFINE keyed == Keyed(a.globals)
             stop == SelectInSeq(keyed, LAMBDA e : Incomplete(e.value))
             written == IF a.kind # "globals" THEN 0 ELSE IF stop = 0 THEN Len(keyed) ELSE stop
             read == IF a.kind # "globals" \/ stop = 0 THEN written ELSE stop - 1
             out == OutOfAnswer(a, Earlier(m))
             values == out.values
             v == Earlier(m)
             given == Len(v)
             right(i) ==
               LET entry == values[given + i]
                   name == keyed[i].key
                   value == keyed[i].value
               IN  /\ Len(name) < KEY_STR_SIZE => entry.name = SubSeq(name \o Zeros(8), 1, 8)
                   /\ value.type = "integer" /\ value.content <= IntMax =>
                        entry.is = [type |-> "integer", value_uint |-> value.content]
  <2>2. /\ keyed \in Seq(WithKey(GlobalElements)) /\ values \in Seq(EntriesOf(GlobalElements))
        /\ EntriesInto(out, v, keyed, written, read)
    BY AnswerRead
  <2>3. v \in Seq(EntriesOf(GlobalElements)) /\ given \in Nat
    <3>1. EarlierEntry \in EntriesOf(GlobalElements)
      BY DEF EntriesOf
    <3> QED BY <3>1, EarlierIs
  <2>4. call.in.answer = a /\ call.in.values = v /\ call.out = out /\ call.out.values = values
    BY <2>1
  <2>5. StatesAreRead <=> IF given + written > APPS_KV_MAX_COUNT THEN out.ret = "UNDEFINED"
                          ELSE /\ out.ret # "UNDEFINED" /\ Len(values) = given + read
                               /\ SubSeq(values, 1, given) = v /\ \A i \in 1..read : right(i)
    BY <1>1, <2>4, ZenonT(60) DEF StatesAreRead
  <2>6. \A i : right(i) <=>
          /\ Len(keyed[i].key) < KEY_STR_SIZE => values[given + i].name = NameOf(keyed[i].key)
          /\ keyed[i].value.type = "integer" /\ keyed[i].value.content <= IntMax =>
               values[given + i].is = [type |-> "integer", value_uint |-> keyed[i].value.content]
    BY Zenon DEF NameOf
  <2> HIDE DEF read, written, right, values, out, v
  <2>7. CASE given + written > APPS_KV_MAX_COUNT
    BY <2>2, <2>5, <2>7 DEF EntriesInto
  <2>8. CASE ~(given + written > APPS_KV_MAX_COUNT)
    <3>1. out.ret # "UNDEFINED" /\ EntriesRead(values, v, keyed, read)
      BY <2>2, <2>8 DEF EntriesInto, values
    <3>2. /\ read \in 0..Len(keyed) /\ Len(values) = given + read
          /\ \A i \in 1..given : values[i] = v[i]
          /\ \A i \in 1..read : values[given + i] = EntryOf(keyed[i]) /\ ~Incomplete(keyed[i].value)
      BY <3>1 DEF EntriesRead
    <3> HIDE DEF keyed
    <3>3. SubSeq(values, 1, given) = v
      <4>1. given <= Len(values)
        BY <2>2, <2>3, <3>2
      <4> QED BY <2>2, <2>3, <3>2, <4>1, StartIs
    <3>4. ASSUME NEW i \in 1..read PROVE right(i)
      <4>1. i \in 1..Len(keyed)
        BY <2>2, <3>2
      <4>2. keyed[i] \in WithKey(GlobalElements)
        BY <2>2, <4>1
      <4>3. values[given + i] = EntryOf(keyed[i]) /\ ~Incomplete(keyed[i].value)
        BY <3>2
      <4> QED BY <2>6, <4>2, <4>3, EntryIs
    <3> QED BY <2>5, <2>8, <3>1, <3>2, <3>3, <3>4
  <2> QED BY <2>7, <2>8
<1>2. CallInv => StatesAreRead
  <2>1. call.fn # "application_get" => StatesAreRead
    BY Zenon DEF StatesAreRead
  <2> QED BY <1>1, <2>1
<1> QED
  BY <1>2, CallInvHolds, PTL

=============================================================================
