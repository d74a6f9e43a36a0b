------------------------- MODULE EndpointCall_proofs -------------------------
(***************************************************************************)
(* Proofs about calls from end to end, and about the codec they rest on,   *)
(* for values, requests and records of any length.                         *)
(***************************************************************************)
EXTENDS EndpointCall, SequenceTheorems, SetRecursion, TLAPS

\* The fields of a stream, and the values there are of a type.
Field == Nat
AllTypes == Numbers \cup Slices \cup {"STR", "SLICE_STR"}
ValueOf(type) ==
    IF type \in Numbers THEN Field
    ELSE IF type = "SLICE_STR" THEN Seq(Seq(Field)) ELSE Seq(Field)

LEMMA Tags == \A type \in AllTypes : Tag(type) \in 0 .. 8 /\ Types[Tag(type) + 1] = type
<1>1. DOMAIN Types = 1 .. 9
  BY DEF Types
<1>2. \A type \in AllTypes : \E i \in DOMAIN Types : Types[i] = type
  <2>1. /\ Types[1] = "I32" /\ Types[2] = "U32" /\ Types[3] = "U64" /\ Types[4] = "STR"
        /\ Types[5] = "SLICE_I32" /\ Types[6] = "SLICE_U32" /\ Types[7] = "SLICE_U64"
        /\ Types[8] = "SLICE_I64" /\ Types[9] = "SLICE_STR"
    BY DEF Types
  <2>2. \A k \in 1 .. 9 : k \in DOMAIN Types
    BY <1>1
  <2> HIDE DEF Types
  <2>. QED
    BY <2>1, <2>2 DEF AllTypes, Numbers, Slices
<1>. QED
  BY <1>1, <1>2 DEF Tag

\* Rows of fields, one after another.

LEMMA Halves ==
    ASSUME NEW X, NEW a \in Seq(X), NEW b \in Seq(X)
    PROVE  /\ a \o b \in Seq(X) /\ Len(a \o b) = Len(a) + Len(b)
           /\ Len(a) \in Nat /\ Len(b) \in Nat
           /\ \A i \in 1 .. Len(a) : (a \o b)[i] = a[i]
           /\ \A i \in 1 .. Len(b) : (a \o b)[Len(a) + i] = b[i]
           /\ SubSeq(a \o b, 1, Len(a)) = a
           /\ SubSeq(a \o b, Len(a) + 1, Len(a) + Len(b)) = b
<1> DEFINE c == a \o b
<1>1. /\ c \in Seq(X) /\ Len(c) = Len(a) + Len(b) /\ Len(a) \in Nat /\ Len(b) \in Nat
      /\ \A i \in 1 .. Len(a) : c[i] = a[i]
      /\ \A i \in 1 .. Len(b) : c[Len(a) + i] = b[i]
  BY ConcatProperties, LenProperties
<1> HIDE DEF c
<1>2. \A i \in 1 .. Len(c) : c[i] \in X
  BY <1>1
<1>3. SubSeq(c, 1, Len(a)) = a
  <2>1. \A i \in 1 .. Len(a) : c[i] \in X
    BY <1>1, <1>2
  <2>2. /\ SubSeq(c, 1, Len(a)) \in Seq(X) /\ Len(SubSeq(c, 1, Len(a))) = Len(a)
        /\ \A i \in 1 .. Len(a) : SubSeq(c, 1, Len(a))[i] = c[i]
    BY <1>1, <2>1, SubSeqProperties
  <2>. QED
    BY <1>1, <2>2, SeqEqual
<1>4. SubSeq(c, Len(a) + 1, Len(a) + Len(b)) = b
  <2>1. \A i \in (Len(a) + 1) .. (Len(a) + Len(b)) : c[i] \in X
    BY <1>1, <1>2
  <2> DEFINE d == SubSeq(c, Len(a) + 1, Len(a) + Len(b))
  <2>2. /\ d \in Seq(X) /\ Len(d) = Len(b)
        /\ \A i \in 1 .. Len(b) : d[i] = c[Len(a) + i]
    BY <1>1, <2>1, SubSeqProperties
  <2> HIDE DEF d
  <2>3. d = b
    BY <1>1, <2>2, SeqEqual
  <2>. QED
    BY <2>3 DEF d
<1>. QED
  BY <1>1, <1>3, <1>4 DEF c

LEMMA Middle ==
    ASSUME NEW X, NEW a \in Seq(X), NEW b \in Seq(X), NEW c \in Seq(X)
    PROVE  /\ a \o b \o c \in Seq(X) /\ Len(a \o b \o c) = Len(a) + Len(b) + Len(c)
           /\ SubSeq(a \o b \o c, Len(a) + 1, Len(a) + Len(b)) = b
           /\ SubSeq(a \o b \o c, Len(a) + Len(b) + 1, Len(a) + Len(b) + Len(c)) = c
<1> DEFINE d == a \o b
<1>1. /\ d \in Seq(X) /\ Len(d) = Len(a) + Len(b)
      /\ SubSeq(d, Len(a) + 1, Len(a) + Len(b)) = b
      /\ Len(a) \in Nat /\ Len(b) \in Nat /\ Len(c) \in Nat
      /\ \A i \in 1 .. Len(b) : d[Len(a) + i] = b[i]
  BY Halves, LenProperties
<1> HIDE DEF d
<1>2. /\ d \o c \in Seq(X) /\ Len(d \o c) = Len(d) + Len(c)
      /\ \A i \in 1 .. Len(d) : (d \o c)[i] = d[i]
      /\ SubSeq(d \o c, Len(d) + 1, Len(d) + Len(c)) = c
  <2>1. d \in Seq(X)
    BY <1>1
  <2>. QED
    BY <2>1, Halves
<1>3. SubSeq(d \o c, Len(a) + 1, Len(a) + Len(b)) = b
  <2> DEFINE e == d \o c
             f == SubSeq(e, Len(a) + 1, Len(a) + Len(b))
  <2>1. \A i \in (Len(a) + 1) .. (Len(a) + Len(b)) : e[i] \in X
    <3>1. \A i \in 1 .. Len(e) : e[i] \in X
      BY <1>2
    <3> HIDE DEF e
    <3>. QED
      BY <1>1, <1>2, <3>1 DEF e
  <2>2. \A i \in 1 .. Len(b) : e[Len(a) + i] = b[i]
    <3>1. \A i \in 1 .. Len(b) : Len(a) + i \in 1 .. Len(d)
      BY <1>1
    <3>. QED
      BY <1>1, <1>2, <3>1
  <2> HIDE DEF e
  <2>3. f \in Seq(X) /\ Len(f) = Len(b) /\ \A i \in 1 .. Len(b) : f[i] = e[Len(a) + i]
    BY <1>1, <2>1, SubSeqProperties
  <2> HIDE DEF f
  <2>4. f = b
    BY <2>2, <2>3, SeqEqual
  <2>. QED
    BY <2>4 DEF e, f
<1>. QED
  BY <1>1, <1>2, <1>3 DEF d

LEMMA Pairs ==
    ASSUME NEW a \in Field, NEW b \in Field
    PROVE  <<a, b>> \in Seq(Field) /\ Len(<<a, b>>) = 2 /\ <<a, b>>[1] = a /\ <<a, b>>[2] = b
  BY DEF Field

\* The strings of a slice, one after another.

IsStrFields(f, v) ==
    f = [i \in 0 .. Len(v) |-> IF i = 0 THEN <<>> ELSE f[i - 1] \o (<<Len(v[i])>> \o v[i])]

LEMMA StrFieldsUnfold ==
    ASSUME NEW v \in Seq(Seq(Field))
    PROVE  /\ StrFields(v) \in [0 .. Len(v) -> Seq(Field)]
           /\ StrFields(v)[0] = <<>>
           /\ \A i \in 1 .. Len(v) :
                 StrFields(v)[i] = StrFields(v)[i - 1] \o (<<Len(v[i])>> \o v[i])
<1> DEFINE X == Seq(Field)
           F == [i \in Nat |-> [x \in X |->
                    IF i \in 1 .. Len(v) THEN x \o (<<Len(v[i])>> \o v[i]) ELSE x]]
<1>1. Len(v) \in Nat /\ \A i \in 1 .. Len(v) : v[i] \in X /\ Len(v[i]) \in Field
  BY DEF Field
<1>2. ASSUME NEW x \in X, NEW i \in 1 .. Len(v)
      PROVE  x \o (<<Len(v[i])>> \o v[i]) \in X
  <2>1. <<Len(v[i])>> \in X /\ v[i] \in X
    BY <1>1
  <2>. QED
    BY <2>1, ConcatProperties
<1>3. F \in [Nat -> [X -> X]]
  <2> HIDE DEF X
  <2>. QED
    BY <1>2
<1>4. <<>> \in X
  OBVIOUS
<1>5. PICK g \in [0 .. Len(v) -> X] : IsRecursion(g, <<>>, F, Len(v))
  <2> HIDE DEF F, X
  <2>. QED
    BY <1>1, <1>3, <1>4, RecursiveFunctionExists
<1>6. IsStrFields(g, v)
  <2> HIDE DEF X
  <2>1. \A i \in 1 .. Len(v) : F[i][g[i - 1]] = g[i - 1] \o (<<Len(v[i])>> \o v[i])
    <3> TAKE i \in 1 .. Len(v)
    <3>1. i - 1 \in 0 .. Len(v) /\ i \in Nat
      BY <1>1
    <3>. QED
      BY <3>1
  <2> HIDE DEF F
  <2> DEFINE E(i) == IF i = 0 THEN <<>> ELSE g[i - 1] \o (<<Len(v[i])>> \o v[i])
  <2>2. \A i \in 0 .. Len(v) : g[i] = IF i = 0 THEN <<>> ELSE F[i][g[i - 1]]
    BY <1>5 DEF IsRecursion
  <2>3. \A i \in 0 .. Len(v) : g[i] = E(i)
    <3> TAKE i \in 0 .. Len(v)
    <3>1. CASE i = 0
      BY <2>2, <3>1
    <3>2. CASE i # 0
      <4>1. i \in 1 .. Len(v)
        BY <1>1, <3>2
      <4>. QED
        BY <2>1, <2>2, <3>2, <4>1
    <3>. QED
      BY <3>1, <3>2
  <2>4. g = [i \in 0 .. Len(v) |-> E(i)]
    <3> HIDE DEF E
    <3>. QED
      BY <2>3
  <2>. QED
    BY <2>4 DEF IsStrFields
<1> DEFINE f == CHOOSE f : IsStrFields(f, v)
<1>7. IsStrFields(f, v)
  BY <1>6
<1>8. StrFields(v) = f
  BY DEF StrFields, IsStrFields
<1> HIDE DEF f
<1>9. f[0] = <<>> /\ \A i \in 1 .. Len(v) : f[i] = f[i - 1] \o (<<Len(v[i])>> \o v[i])
  <2> DEFINE E(h, i) == IF i = 0 THEN <<>> ELSE h[i - 1] \o (<<Len(v[i])>> \o v[i])
  <2>1. f = [i \in 0 .. Len(v) |-> E(f, i)]
    BY <1>7 DEF IsStrFields
  <2> HIDE DEF E
  <2>2. \A i \in 0 .. Len(v) : f[i] = E(f, i)
    BY <2>1
  <2>3. 0 \in 0 .. Len(v) /\ \A i \in 1 .. Len(v) : i \in 0 .. Len(v) /\ i # 0
    BY <1>1
  <2>4. E(f, 0) = <<>>
    BY DEF E
  <2>5. \A i \in 1 .. Len(v) : E(f, i) = f[i - 1] \o (<<Len(v[i])>> \o v[i])
    BY <2>3 DEF E
  <2>. QED
    BY <2>2, <2>3, <2>4, <2>5
<1>10. f[0] \in X
  BY <1>9
<1>11. \A n \in 0 .. (Len(v) - 1) : f[n] \in X => f[n + 1] \in X
  <2> SUFFICES ASSUME NEW n \in 0 .. (Len(v) - 1), f[n] \in X PROVE f[n + 1] \in X
    OBVIOUS
  <2>1. n + 1 \in 1 .. Len(v) /\ (n + 1) - 1 = n
    BY <1>1
  <2>2. f[n + 1] = f[n] \o (<<Len(v[n + 1])>> \o v[n + 1])
    BY <1>9, <2>1
  <2> HIDE DEF X
  <2>. QED
    BY <1>2, <2>1, <2>2
<1>12. \A n \in 0 .. Len(v) : f[n] \in X
  <2> HIDE DEF X
  <2>. QED
    BY <1>1, <1>10, <1>11, TypedUpTo
<1>13. f \in [0 .. Len(v) -> X]
  <2> HIDE DEF X
  <2>1. f = [i \in 0 .. Len(v) |-> f[i]]
    BY <1>7 DEF IsStrFields
  <2>. QED
    BY <1>12, <2>1
<1>. QED
  BY <1>8, <1>9, <1>13

-----------------------------------------------------------------------------

LEMMA Assoc ==
    ASSUME NEW p, NEW q, NEW r, p \in Seq(Field), q \in Seq(Field), r \in Seq(Field)
    PROVE  (p \o q) \o r = p \o (q \o r)
  BY ConcatAssociative

\* w starts with p.
Starts(w, p) == \E tail \in Seq(Field) : w = p \o tail

LEMMA StartsWithItself == \A p \in Seq(Field) : Starts(p, p)
<1> TAKE p \in Seq(Field)
<1>1. p = p \o <<>> /\ <<>> \in Seq(Field)
  BY ConcatEmptySeq
<1>. QED
  BY <1>1 DEF Starts

LEMMA StartsOn ==
    ASSUME NEW p, NEW w, NEW more, p \in Seq(Field), more \in Seq(Field), Starts(w, p)
    PROVE  Starts(w \o more, p)
<1>1. PICK tail \in Seq(Field) : w = p \o tail
  BY DEF Starts
<1>2. (p \o tail) \o more = p \o (tail \o more)
  BY Assoc
<1>3. tail \o more \in Seq(Field)
  BY ConcatProperties
<1>. QED
  BY <1>1, <1>2, <1>3 DEF Starts

\* The strings up to the i-th come first.
LEMMA StrFieldsPrefix ==
    ASSUME NEW v \in Seq(Seq(Field)), NEW i \in 1 .. Len(v)
    PROVE  \E tail \in Seq(Field) :
              StrFields(v)[Len(v)] = StrFields(v)[i - 1] \o (<<Len(v[i])>> \o v[i]) \o tail
<1> DEFINE f == StrFields(v)
           X == Seq(Field)
           N == Len(v)
           S == {n \in 0 .. N : n >= i => Starts(f[n], f[i])}
<1>1. f \in [0 .. N -> X]
  BY StrFieldsUnfold
<1>2. \A n \in 1 .. N : f[n] = f[n - 1] \o (<<Len(v[n])>> \o v[n])
  BY StrFieldsUnfold
<1>3. N \in Nat /\ i \in 1 .. N /\ i - 1 \in 0 .. N /\ i \in 0 .. N
  OBVIOUS
<1>4. \A n \in 1 .. N : <<Len(v[n])>> \o v[n] \in X
  <2> TAKE n \in 1 .. N
  <2>1. <<Len(v[n])>> \in X /\ v[n] \in X
    BY DEF Field
  <2>. QED
    BY <2>1, ConcatProperties
<1> HIDE DEF f, N
<1>5. \A n \in 0 .. N : f[n] \in X
  <2> HIDE DEF X
  <2>. QED
    BY <1>1
<1>6. 0 \in S
  BY <1>3
<1>7. ASSUME NEW n \in 0 .. (N - 1), n + 1 > i, Starts(f[n], f[i])
      PROVE  Starts(f[n + 1], f[i])
  <2>1. n + 1 \in 1 .. N /\ (n + 1) - 1 = n
    BY <1>3
  <2> DEFINE more == <<Len(v[n + 1])>> \o v[n + 1]
  <2>2. more \in X /\ f[n + 1] = f[n] \o more
    BY <1>2, <1>4, <2>1
  <2> HIDE DEF more
  <2>3. f[i] \in X
    BY <1>3, <1>5
  <2>4. Starts(f[n] \o more, f[i])
    BY <1>7, <2>2, <2>3, StartsOn
  <2>. QED
    BY <2>2, <2>4
<1>8. Starts(f[i], f[i])
  BY <1>3, <1>5, StartsWithItself
<1>9. \A n \in 0 .. (N - 1) : n \in S => n + 1 \in S
  <2> TAKE n \in 0 .. (N - 1)
  <2>1. n + 1 \in 0 .. N /\ (n + 1 = i \/ n + 1 > i \/ n + 1 < i)
    BY <1>3
  <2>2. CASE n + 1 = i
    BY <1>8, <2>1, <2>2
  <2>3. CASE n + 1 > i
    <3>1. n >= i
      BY <1>3, <2>3
    <3>. QED
      BY <1>7, <2>1, <2>3, <3>1
  <2>4. CASE n + 1 < i
    BY <1>3, <2>1, <2>4
  <2>. QED
    BY <2>1, <2>2, <2>3, <2>4
<1>10. N \in S
  <2> HIDE DEF S
  <2>1. 0 .. N \subseteq S
    BY <1>3, <1>6, <1>9, InductionUpTo
  <2>. QED
    BY <1>3, <2>1
<1>11. Starts(f[N], f[i])
  BY <1>3, <1>10
<1>. QED
  BY <1>2, <1>3, <1>11 DEF f, N, Starts

\* A value's fields in front of others: two, and a body.
LaidOut(data, x, y, b, c) ==
    /\ data \in Seq(Field) /\ Len(data) = 2 + Len(b) + Len(c)
    /\ b \in Seq(Field) /\ Len(b) \in Nat /\ Len(c) \in Nat
    /\ data[1] = x /\ data[2] = y
    /\ \A i \in 1 .. Len(b) : data[2 + i] = b[i]
    /\ SubSeq(data, 3, 2 + Len(b)) = b
    /\ SubSeq(data, 2 + Len(b) + 1, Len(data)) = c

LEMMA Front ==
    ASSUME NEW x \in Field, NEW y \in Field, NEW b \in Seq(Field), NEW c \in Seq(Field),
           NEW data, data = <<x, y>> \o b \o c
    PROVE  LaidOut(data, x, y, b, c)
<1> DEFINE a == <<x, y>>
<1>1. a \in Seq(Field) /\ Len(a) = 2 /\ a[1] = x /\ a[2] = y
  BY Pairs
<1> HIDE DEF a
<1>2. /\ data \in Seq(Field) /\ Len(data) = Len(a) + Len(b) + Len(c)
      /\ SubSeq(data, Len(a) + 1, Len(a) + Len(b)) = b
      /\ SubSeq(data, Len(a) + Len(b) + 1, Len(a) + Len(b) + Len(c)) = c
  <2>1. data = a \o b \o c
    BY DEF a
  <2>. QED
    BY <1>1, <2>1, Middle
<1>3. Len(b) \in Nat /\ Len(c) \in Nat
  BY LenProperties
<1>4. /\ data[1] = a[1] /\ data[2] = a[2]
      /\ \A i \in 1 .. Len(b) : data[2 + i] = b[i]
  <2> DEFINE d == a \o b
  <2>1. /\ d \in Seq(Field) /\ Len(d) = 2 + Len(b)
        /\ \A i \in 1 .. 2 : d[i] = a[i]
        /\ \A i \in 1 .. Len(b) : d[2 + i] = b[i]
    <3>1. /\ a \o b \in Seq(Field) /\ Len(a \o b) = Len(a) + Len(b)
          /\ \A i \in 1 .. Len(a) : (a \o b)[i] = a[i]
          /\ \A i \in 1 .. Len(b) : (a \o b)[Len(a) + i] = b[i]
      <4>1. a \in Seq(Field)
        BY <1>1
      <4>2. a \o b \in Seq(Field) /\ Len(a \o b) = Len(a) + Len(b)
        BY <4>1, ConcatProperties
      <4>3. \A i \in 1 .. Len(a) : (a \o b)[i] = a[i]
        BY <4>1, Halves, Zenon
      <4>4. \A i \in 1 .. Len(b) : (a \o b)[Len(a) + i] = b[i]
        BY <4>1, Halves, Zenon
      <4>. QED
        BY <4>2, <4>3, <4>4
    <3>. QED
      BY <1>1, <3>1
  <2>2. data = d \o c
    BY DEF a
  <2> HIDE DEF d
  <2>3. \A i \in 1 .. (2 + Len(b)) : data[i] = d[i]
    BY <2>1, <2>2, Halves
  <2>. QED
    BY <1>3, <2>1, <2>3
<1>. QED
  BY <1>1, <1>2, <1>3, <1>4 DEF LaidOut

-----------------------------------------------------------------------------

\* What a value looks like as fields: its type, one more field, and a body.
Second(type, v) == IF type \in Numbers THEN v ELSE Len(v)
Rest(type, v) ==
    IF type \in Numbers THEN <<>> ELSE IF type = "SLICE_STR" THEN StrFields(v)[Len(v)] ELSE v

LEMMA RestTyped ==
    ASSUME NEW type \in AllTypes, NEW v \in ValueOf(type)
    PROVE  Second(type, v) \in Field /\ Rest(type, v) \in Seq(Field)
<1>1. CASE type \in Numbers
  BY <1>1 DEF Second, Rest, ValueOf
<1>2. CASE type \in Slices \cup {"STR"}
  <2>1. type \notin Numbers /\ type # "SLICE_STR"
    BY <1>2 DEF Numbers, Slices
  <2>2. v \in Seq(Field)
    BY <2>1 DEF ValueOf
  <2>. QED
    BY <2>1, <2>2 DEF Second, Rest, Field
<1>3. CASE type = "SLICE_STR"
  <2>1. type \notin Numbers
    BY <1>3 DEF Numbers
  <2>2. v \in Seq(Seq(Field))
    BY <1>3, <2>1 DEF ValueOf
  <2>3. StrFields(v)[Len(v)] \in Seq(Field)
    <3> DEFINE f == StrFields(v)
               X == Seq(Field)
    <3>1. f \in [0 .. Len(v) -> X]
      BY <2>2, StrFieldsUnfold, Zenon
    <3>2. Len(v) \in Nat
      BY <2>2, LenProperties
    <3> HIDE DEF f, X
    <3>3. f[Len(v)] \in X
      BY <3>1, <3>2
    <3>. QED
      BY <3>3 DEF f, X
  <2>. QED
    BY <1>3, <2>1, <2>2, <2>3 DEF Second, Rest, Field
<1>. QED
  BY <1>1, <1>2, <1>3 DEF AllTypes

LEMMA EncodeIs ==
    ASSUME NEW type \in AllTypes, NEW v \in ValueOf(type)
    PROVE  Encode(type, v) = <<Tag(type), Second(type, v)>> \o Rest(type, v)
<1>1. CASE type \in Numbers
  <2>1. Encode(type, v) = <<Tag(type), v>>
    <3>1. type \notin Slices /\ type # "SLICE_STR" /\ type # "STR"
      BY <1>1 DEF Numbers, Slices
    <3>. QED
      BY <1>1, <3>1 DEF Encode, EncodeNumber
  <2> DEFINE p == <<Tag(type), v>>
  <2>2. p \in Seq(Field)
    BY <1>1, Tags DEF ValueOf, Field
  <2> HIDE DEF p
  <2>3. p \o <<>> = p
    BY <2>2, ConcatEmptySeq
  <2>. QED
    BY <1>1, <2>1, <2>3 DEF p, Second, Rest
<1>2. CASE type \in Slices
  <2>1. type \notin Numbers /\ type # "SLICE_STR" /\ type # "STR"
    BY <1>2 DEF Numbers, Slices
  <2>. QED
    BY <1>2, <2>1 DEF Encode, EncodeSlice, Second, Rest
<1>3. CASE type = "STR"
  <2>1. type \notin Numbers /\ type \notin Slices /\ type # "SLICE_STR"
    BY <1>3 DEF Numbers, Slices
  <2>2. Encode(type, v) = <<Tag("STR"), Len(v)>> \o v
    BY <1>3, <2>1 DEF Encode, EncodeStr
  <2>3. Second(type, v) = Len(v) /\ Rest(type, v) = v
    BY <2>1 DEF Second, Rest
  <2>. QED
    BY <1>3, <2>2, <2>3, Zenon
<1>4. CASE type = "SLICE_STR"
  <2>1. type \notin Numbers /\ type \notin Slices /\ type # "STR"
    BY <1>4 DEF Numbers, Slices
  <2>. QED
    BY <1>4, <2>1 DEF Encode, EncodeSliceStr, Second, Rest
<1>. QED
  BY <1>1, <1>2, <1>3, <1>4 DEF AllTypes

\* The fields of a value, and of others after it.
LEMMA EncodeFront ==
    ASSUME NEW type \in AllTypes, NEW v \in ValueOf(type), NEW rest \in Seq(Field)
    PROVE  LaidOut(Encode(type, v) \o rest, Tag(type), Second(type, v), Rest(type, v), rest)
<1> DEFINE x == Tag(type)
           y == Second(type, v)
           b == Rest(type, v)
           data == Encode(type, v) \o rest
<1>1. x \in Field /\ y \in Field /\ b \in Seq(Field)
  BY Tags, RestTyped DEF Field
<1>2. data = <<x, y>> \o b \o rest
  BY EncodeIs
<1> HIDE DEF x, y, b, data
<1>3. LaidOut(data, x, y, b, rest)
  BY <1>1, <1>2, Front
<1>. QED
  BY <1>3 DEF x, y, b, data

LEMMA EncodeTyped ==
    ASSUME NEW type \in AllTypes, NEW v \in ValueOf(type)
    PROVE  /\ Encode(type, v) \in Seq(Field)
           /\ Len(Encode(type, v)) = 2 + Len(Rest(type, v)) /\ Len(Rest(type, v)) \in Nat
<1> DEFINE x == Tag(type)
           y == Second(type, v)
           b == Rest(type, v)
           code == Encode(type, v)
           a == <<x, y>>
<1>1. x \in Field /\ y \in Field /\ b \in Seq(Field)
  BY Tags, RestTyped DEF Field
<1>2. code = a \o b
  BY EncodeIs
<1> HIDE DEF x, y, b, code
<1>3. a \in Seq(Field) /\ Len(a) = 2
  BY <1>1, Pairs
<1> HIDE DEF a
<1>4. a \o b \in Seq(Field) /\ Len(a \o b) = Len(a) + Len(b) /\ Len(b) \in Nat
  BY <1>1, <1>3, ConcatProperties, LenProperties
<1>. QED
  BY <1>2, <1>3, <1>4 DEF b, code

\* A pop of what was pushed gets it back, and leaves the rest.

LEMMA PopNumberInverse ==
    ASSUME NEW type \in Numbers, NEW v \in Field, NEW rest \in Seq(Field)
    PROVE  Pop(WithData(Encode(type, v) \o rest), type) =
              [value |-> v, stream |-> WithData(rest)]
<1> DEFINE data == Encode(type, v) \o rest
<1>1. type \in AllTypes /\ v \in ValueOf(type) /\ Rest(type, v) = <<>> /\ Second(type, v) = v
  BY DEF AllTypes, ValueOf, Rest, Second
<1>2. LaidOut(data, Tag(type), v, <<>>, rest)
  BY <1>1, EncodeFront
<1> HIDE DEF data
<1>3. /\ Len(data) = 2 + Len(rest) /\ Len(rest) \in Nat
      /\ data[1] = Tag(type) /\ data[2] = v
      /\ SubSeq(data, 2 + 1, Len(data)) = rest
  BY <1>2 DEF LaidOut
<1>4. ~(Len(data) < Demanded(type)) /\ ~(Len(data) < 2)
  BY <1>3 DEF Demanded
<1>5. Pop(WithData(data), type) = PopNumber(WithData(data), type)
  <2>1. type \notin Slices \cup {"STR"} /\ type # "SLICE_STR"
    BY DEF Numbers, Slices
  <2>. QED
    BY <1>3, <1>4, <2>1 DEF Pop, WithData
<1>6. PopNumber(WithData(data), type) = [value |-> v, stream |-> WithData(rest)]
  <2>1. PopNumber(WithData(data), type) = Taken(WithData(data), v, 2)
    BY <1>3, <1>4 DEF PopNumber, WithData
  <2>. QED
    BY <1>3, <2>1 DEF Taken, WithData
<1>. QED
  BY <1>5, <1>6 DEF data

LEMMA PopCountedInverse ==
    ASSUME NEW type \in Slices \cup {"STR"}, NEW v \in Seq(Field), NEW rest \in Seq(Field)
    PROVE  Pop(WithData(Encode(type, v) \o rest), type) =
              [value |-> v, stream |-> WithData(rest)]
<1> DEFINE data == Encode(type, v) \o rest
           n == Len(v)
<1>1. type \notin Numbers /\ type # "SLICE_STR" /\ type # "U32"
  BY DEF Numbers, Slices
<1>2. type \in AllTypes /\ v \in ValueOf(type) /\ Rest(type, v) = v /\ Second(type, v) = n
  BY <1>1 DEF AllTypes, ValueOf, Rest, Second
<1>3. LaidOut(data, Tag(type), n, v, rest)
  BY <1>2, EncodeFront
<1> HIDE DEF data
<1>4. /\ Len(data) = 2 + n + Len(rest) /\ Len(rest) \in Nat /\ n \in Nat
      /\ data[1] = Tag(type) /\ data[2] = n
      /\ SubSeq(data, 3, 2 + n) = v
      /\ SubSeq(data, 2 + n + 1, Len(data)) = rest
  BY <1>3 DEF LaidOut
<1> HIDE DEF n
<1>5. ~(Len(data) < Demanded(type)) /\ ~(Len(data) < 2 + n)
  BY <1>4 DEF Demanded
<1>6. Pop(WithData(data), type) = PopCounted(WithData(data), type)
  BY <1>1, <1>4, <1>5 DEF Pop, WithData
<1>7. PopCounted(WithData(data), type) = [value |-> v, stream |-> WithData(rest)]
  BY <1>4, <1>5 DEF PopCounted, Taken, WithData
<1>. QED
  BY <1>6, <1>7 DEF data

-----------------------------------------------------------------------------

\* Where the strings of a slice end, in any data.

Positions(data) == {Beyond} \cup 0 .. Len(data)

LEMMA StrEndTyped ==
    ASSUME NEW data \in Seq(Field), NEW begin \in Positions(data)
    PROVE  StrEnd(data, begin) \in Positions(data)
<1>1. Len(data) \in Nat
  BY LenProperties
<1>2. CASE begin = Beyond \/ Len(data) < begin + 1
  BY <1>2 DEF StrEnd, Positions
<1>3. CASE ~(begin = Beyond \/ Len(data) < begin + 1)
  <2>1. begin \in Nat /\ begin + 1 \in 1 .. Len(data)
    BY <1>1, <1>3 DEF Positions, Beyond
  <2> DEFINE n == data[begin + 1]
  <2>2. n \in Nat
    BY <2>1 DEF Field
  <2>3. StrEnd(data, begin) = IF Len(data) < begin + 1 + n THEN Beyond ELSE begin + 1 + n
    BY <1>3 DEF StrEnd
  <2> HIDE DEF n
  <2>. QED
    BY <1>1, <2>1, <2>2, <2>3 DEF Positions
<1>. QED
  BY <1>2, <1>3

IsStrEnds(f, data) ==
    f = [i \in 0 .. data[2] |-> IF i = 0 THEN 2 ELSE StrEnd(data, f[i - 1])]

LEMMA StrEndsUnfold ==
    ASSUME NEW data \in Seq(Field), Len(data) >= 2
    PROVE  /\ data[2] \in Nat
           /\ StrEnds(data) \in [0 .. data[2] -> Positions(data)]
           /\ StrEnds(data)[0] = 2
           /\ \A i \in 1 .. data[2] : StrEnds(data)[i] = StrEnd(data, StrEnds(data)[i - 1])
<1> DEFINE X == Positions(data)
           N == data[2]
           F == [i \in Nat |-> [x \in X |-> StrEnd(data, x)]]
<1>1. N \in Nat /\ 2 \in X
  <2>1. Len(data) \in Nat /\ 2 \in 1 .. Len(data)
    BY LenProperties
  <2>. QED
    BY <2>1 DEF Positions, Field
<1>2. \A x \in X : StrEnd(data, x) \in X
  BY StrEndTyped
<1> HIDE DEF X, N
<1>3. F \in [Nat -> [X -> X]]
  BY <1>2
<1>4. PICK g \in [0 .. N -> X] : IsRecursion(g, 2, F, N)
  <2> HIDE DEF F
  <2>. QED
    BY <1>1, <1>3, RecursiveFunctionExists
<1>5. IsStrEnds(g, data)
  <2> DEFINE E(i) == IF i = 0 THEN 2 ELSE StrEnd(data, g[i - 1])
  <2>1. \A i \in 1 .. N : F[i][g[i - 1]] = StrEnd(data, g[i - 1])
    <3> TAKE i \in 1 .. N
    <3>1. i - 1 \in 0 .. N /\ i \in Nat
      BY <1>1
    <3>2. g[i - 1] \in X
      BY <3>1
    <3>. QED
      BY <3>1, <3>2
  <2> HIDE DEF F
  <2>2. \A i \in 0 .. N : g[i] = IF i = 0 THEN 2 ELSE F[i][g[i - 1]]
    BY <1>4 DEF IsRecursion
  <2>3. \A i \in 0 .. N : g[i] = E(i)
    <3> TAKE i \in 0 .. N
    <3>1. CASE i = 0
      BY <2>2, <3>1
    <3>2. CASE i # 0
      <4>1. i \in 1 .. N
        BY <1>1, <3>2
      <4>. QED
        BY <2>1, <2>2, <3>2, <4>1
    <3>. QED
      BY <3>1, <3>2
  <2>4. g = [i \in 0 .. N |-> E(i)]
    <3> HIDE DEF E
    <3>. QED
      BY <2>3
  <2>. QED
    BY <2>4 DEF IsStrEnds, N
<1> DEFINE f == CHOOSE f : IsStrEnds(f, data)
<1>6. IsStrEnds(f, data)
  BY <1>5
<1>7. StrEnds(data) = f
  BY DEF StrEnds, IsStrEnds
<1> HIDE DEF f
<1>8. f[0] = 2 /\ \A i \in 1 .. N : f[i] = StrEnd(data, f[i - 1])
  <2> DEFINE E(i) == IF i = 0 THEN 2 ELSE StrEnd(data, f[i - 1])
  <2>1. f = [i \in 0 .. N |-> E(i)]
    BY <1>6 DEF IsStrEnds, N
  <2> HIDE DEF E
  <2>2. \A i \in 0 .. N : f[i] = E(i)
    BY <2>1
  <2>3. 0 \in 0 .. N /\ \A i \in 1 .. N : i \in 0 .. N /\ i # 0
    BY <1>1
  <2>4. E(0) = 2
    BY DEF E
  <2>5. \A i \in 1 .. N : E(i) = StrEnd(data, f[i - 1])
    BY <2>3 DEF E
  <2>. QED
    BY <2>2, <2>3, <2>4, <2>5
<1>9. \A n \in 0 .. N : f[n] \in X
  <2>1. \A n \in 0 .. (N - 1) : f[n] \in X => f[n + 1] \in X
    <3> TAKE n \in 0 .. (N - 1)
    <3>1. n + 1 \in 1 .. N /\ (n + 1) - 1 = n
      BY <1>1
    <3>. QED
      BY <1>2, <1>8, <3>1
  <2>. QED
    BY <1>1, <1>8, <2>1, TypedUpTo
<1>10. f = [i \in 0 .. N |-> f[i]]
  BY <1>6 DEF IsStrEnds, N
<1>11. f \in [0 .. N -> X]
  BY <1>9, <1>10
<1>. QED
  BY <1>1, <1>7, <1>8, <1>11 DEF N, X

\* A part of the data is w if it is so field by field.
IsAt(data, m, l, w) ==
    /\ \A j \in m .. l : j \in 1 .. Len(data)
    /\ (l - m) + 1 = Len(w) /\ \A j \in 1 .. Len(w) : data[m + j - 1] = w[j]

LEMMA Cut ==
    ASSUME NEW data \in Seq(Field), NEW w \in Seq(Field), NEW m \in Int, NEW l \in Int,
           IsAt(data, m, l, w)
    PROVE  SubSeq(data, m, l) = w
<1> DEFINE d == SubSeq(data, m, l)
           n == Len(w)
<1>1. \A j \in m .. l : data[j] \in Field
  BY ElementOfSeq DEF IsAt
<1>2. n \in Nat /\ l - m + 1 = n
  BY LenProperties DEF IsAt
<1>3. /\ d \in Seq(Field)
      /\ Len(d) = IF m <= l THEN l - m + 1 ELSE 0
      /\ \A j \in 1 .. l - m + 1 : d[j] = data[m + j - 1]
  BY <1>1, SubSeqProperties
<1> HIDE DEF d, n
<1>4. Len(d) = n /\ \A j \in 1 .. n : d[j] = data[m + j - 1]
  BY <1>2, <1>3
<1>5. Len(d) = Len(w) /\ \A j \in 1 .. Len(d) : d[j] = w[j]
  BY <1>2, <1>4 DEF n, IsAt
<1>6. d = w
  BY <1>3, <1>5, SeqEqual
<1>. QED
  BY <1>6 DEF d

\* In the data of a slice of strings, each of them ends where its fields do.
LEMMA StrEndsOfSlice ==
    ASSUME NEW v \in Seq(Seq(Field)), NEW rest \in Seq(Field), NEW data,
           data = Encode("SLICE_STR", v) \o rest
    PROVE  \A i \in 0 .. Len(v) :
              /\ StrEnds(data)[i] = 2 + Len(StrFields(v)[i])
              /\ i # 0 => SubSeq(data, StrEnds(data)[i - 1] + 2, StrEnds(data)[i]) = v[i]
<1> DEFINE f == StrFields(v)
           N == Len(v)
           end == StrEnds(data)
           b == f[N]
<1>1. "SLICE_STR" \in AllTypes /\ v \in ValueOf("SLICE_STR")
  BY DEF AllTypes, ValueOf, Numbers
<1>2. Rest("SLICE_STR", v) = b /\ Second("SLICE_STR", v) = N
  BY DEF Rest, Second, Numbers
<1>3. LaidOut(data, Tag("SLICE_STR"), N, b, rest)
  <2>1. LaidOut(Encode("SLICE_STR", v) \o rest, Tag("SLICE_STR"), Second("SLICE_STR", v),
                Rest("SLICE_STR", v), rest)
    BY <1>1, EncodeFront
  <2> HIDE DEF b, N
  <2>. QED
    BY <1>2, <2>1, Zenon
<1>4. /\ data \in Seq(Field) /\ Len(data) = 2 + Len(b) + Len(rest)
      /\ b \in Seq(Field) /\ Len(b) \in Nat /\ Len(rest) \in Nat
      /\ data[2] = N /\ \A j \in 1 .. Len(b) : data[2 + j] = b[j]
  <2> HIDE DEF b, N
  <2>. QED
    BY <1>3 DEF LaidOut
<1>5. /\ N \in Nat /\ f[0] = <<>>
      /\ \A i \in 1 .. N : f[i] = f[i - 1] \o (<<Len(v[i])>> \o v[i])
  BY StrFieldsUnfold, LenProperties
<1>6. end[0] = 2 /\ \A i \in 1 .. N : end[i] = StrEnd(data, end[i - 1])
  <2>1. data \in Seq(Field) /\ Len(data) >= 2 /\ data[2] = N
    BY <1>4
  <2> HIDE DEF b, N, end
  <2>2. end[0] = 2 /\ \A i \in 1 .. data[2] : end[i] = StrEnd(data, end[i - 1])
    BY <2>1, StrEndsUnfold DEF end
  <2>. QED
    BY <2>1, <2>2
<1>7. \A i \in 0 .. N : f[i] \in Seq(Field) /\ Len(f[i]) \in Nat
  <2> DEFINE X == Seq(Field)
  <2>1. f \in [0 .. N -> X]
    BY StrFieldsUnfold
  <2>2. \A x \in X : Len(x) \in Nat
    BY LenProperties
  <2> HIDE DEF f, N, X
  <2>3. \A i \in 0 .. N : f[i] \in X
    BY <2>1
  <2>. QED
    BY <2>2, <2>3 DEF X
<1>8. ASSUME NEW i \in 1 .. N
      PROVE  LET at == 2 + Len(f[i - 1])
             IN  /\ data[at + 1] = Len(v[i]) /\ Len(v[i]) \in Nat
                 /\ Len(f[i]) = Len(f[i - 1]) + 1 + Len(v[i])
                 /\ 2 + Len(f[i]) <= Len(data)
                 /\ SubSeq(data, at + 2, 2 + Len(f[i])) = v[i]
  <2> DEFINE p == f[i - 1]
             w == v[i]
             n == Len(w)
             piece == <<n>> \o w
  <2>1. p \in Seq(Field) /\ Len(p) \in Nat
    BY <1>5, <1>7
  <2>2. w \in Seq(Field) /\ n \in Nat /\ n \in Field
    BY LenProperties DEF Field
  <2>3. PICK tail \in Seq(Field) : b = p \o piece \o tail
    BY StrFieldsPrefix
  <2>4. f[i] = p \o piece
    BY <1>5
  <2> HIDE DEF f, b, p, w, n
  <2>5. /\ piece \in Seq(Field) /\ Len(piece) = 1 + n
        /\ piece[1] = n /\ \A j \in 1 .. n : piece[1 + j] = w[j]
    <3> DEFINE one == <<n>>
    <3>1. one \in Seq(Field) /\ Len(one) = 1 /\ one[1] = n
      BY <2>2
    <3> HIDE DEF one
    <3>2. /\ one \o w \in Seq(Field) /\ Len(one \o w) = Len(one) + Len(w)
          /\ \A j \in 1 .. Len(one) + Len(w) : (one \o w)[j] =
                IF j <= Len(one) THEN one[j] ELSE w[j - Len(one)]
      BY <2>2, <3>1, ConcatProperties
    <3> DEFINE c == one \o w
    <3>3. piece = c
      BY DEF one
    <3> HIDE DEF c, piece
    <3>4. /\ c \in Seq(Field) /\ Len(c) = 1 + n
          /\ \A j \in 1 .. (1 + n) : c[j] = IF j <= 1 THEN one[j] ELSE w[j - 1]
      BY <3>1, <3>2 DEF c, n
    <3>5. c[1] = n
      BY <2>2, <3>1, <3>4
    <3>6. \A j \in 1 .. n : c[1 + j] = w[j]
      <4> TAKE j \in 1 .. n
      <4>1. 1 + j \in 1 .. (1 + n) /\ ~(1 + j <= 1) /\ (1 + j) - 1 = j
        BY <2>2
      <4>. QED
        BY <3>4, <4>1
    <3>. QED
      BY <3>3, <3>4, <3>5, <3>6
  <2> HIDE DEF piece
  <2>6. /\ f[i] \in Seq(Field) /\ Len(f[i]) = Len(p) + 1 + n
    <3>1. p \o piece \in Seq(Field) /\ Len(p \o piece) = Len(p) + Len(piece)
      BY <2>1, <2>5, ConcatProperties
    <3>. QED
      BY <2>1, <2>2, <2>4, <2>5, <3>1
  <2>7. \A j \in 1 .. (1 + n) : b[Len(p) + j] = piece[j]
    <3> DEFINE q == p \o piece
    <3>1. q \in Seq(Field) /\ Len(q) = Len(p) + (1 + n) /\ \A j \in 1 .. (1 + n) : q[Len(p) + j] = piece[j]
      <4>1. \A j \in 1 .. Len(piece) : q[Len(p) + j] = piece[j]
        BY <2>1, <2>5, Halves
      <4>2. q \in Seq(Field) /\ Len(q) = Len(p) + Len(piece)
        BY <2>1, <2>5, ConcatProperties
      <4> HIDE DEF q
      <4>. QED
        BY <2>1, <2>2, <2>5, <4>1, <4>2
    <3>2. b = q \o tail
      BY <2>3
    <3> HIDE DEF q
    <3>3. \A j \in 1 .. Len(q) : (q \o tail)[j] = q[j]
      BY <3>1, Halves
    <3> TAKE j \in 1 .. (1 + n)
    <3>4. Len(p) + j \in 1 .. Len(q)
      BY <2>1, <2>2, <3>1
    <3>. QED
      BY <3>1, <3>2, <3>3, <3>4
  <2>8. Len(b) = Len(p) + 1 + n + Len(tail) /\ Len(tail) \in Nat
    <3>1. p \o piece \in Seq(Field) /\ Len(p \o piece) = Len(p) + Len(piece)
      BY <2>1, <2>5, ConcatProperties
    <3> DEFINE q == p \o piece
    <3>2. b = q \o tail
      BY <2>3
    <3> HIDE DEF q
    <3>3. Len(q \o tail) = Len(q) + Len(tail) /\ Len(tail) \in Nat
      BY <3>1, ConcatProperties, LenProperties DEF q
    <3>. QED
      BY <2>1, <2>2, <2>5, <3>1, <3>2, <3>3 DEF q
  <2>9. \A j \in 1 .. (1 + n) : data[2 + Len(p) + j] = piece[j]
    <3> TAKE j \in 1 .. (1 + n)
    <3>1. Len(p) + j \in 1 .. Len(b) /\ 2 + (Len(p) + j) = 2 + Len(p) + j
      BY <2>1, <2>2, <2>8
    <3>2. data[2 + (Len(p) + j)] = b[Len(p) + j]
      BY <1>4, <3>1
    <3>. QED
      BY <2>7, <3>1, <3>2
  <2>10. data[2 + Len(p) + 1] = n
    <3>1. 1 \in 1 .. (1 + n)
      BY <2>2
    <3>2. data[2 + Len(p) + 1] = piece[1]
      BY <2>9, <3>1
    <3>. QED
      BY <2>5, <3>2
  <2>11. 2 + Len(f[i]) <= Len(data)
    BY <1>4, <2>1, <2>2, <2>6, <2>8
  <2>12. SubSeq(data, 2 + Len(p) + 2, 2 + Len(p) + 1 + n) = w
    <3> DEFINE m == 2 + Len(p) + 2
               l == 2 + Len(p) + 1 + n
    <3>1. \A j \in m .. l : j \in 1 .. Len(data)
      BY <1>4, <2>1, <2>2, <2>8
    <3>2. m \in Int /\ l \in Int /\ (l - m) + 1 = n
      BY <2>1, <2>2
    <3>3. \A j \in 1 .. n : data[m + j - 1] = w[j]
      <4> TAKE j \in 1 .. n
      <4>1. 1 + j \in 1 .. (1 + n) /\ m + j - 1 = 2 + Len(p) + (1 + j)
        BY <2>1, <2>2
      <4>. QED
        BY <2>5, <2>9, <4>1
    <3> HIDE DEF m, l
    <3>4. SubSeq(data, m, l) = w
      <4>1. (l - m) + 1 = Len(w) /\ \A j \in 1 .. Len(w) : data[m + j - 1] = w[j]
        BY <3>2, <3>3 DEF n
      <4>2. IsAt(data, m, l, w)
        BY <3>1, <4>1 DEF IsAt
      <4>. QED
        BY <1>4, <2>2, <3>2, <4>2, Cut
    <3>. QED
      BY <3>4 DEF m, l
  <2>13. 2 + Len(f[i]) = 2 + Len(p) + 1 + n
    BY <2>1, <2>2, <2>6
  <2>. QED
    BY <2>1, <2>2, <2>6, <2>10, <2>11, <2>12, <2>13 DEF p, w, n
<1> HIDE DEF f, end, N, b
<1>9. \A i \in 0 .. N : end[i] = 2 + Len(f[i])
  <2> DEFINE S == {i \in 0 .. N : end[i] = 2 + Len(f[i])}
  <2>1. 0 \in S
    BY <1>5, <1>6
  <2>2. \A i \in 0 .. (N - 1) : i \in S => i + 1 \in S
    <3> SUFFICES ASSUME NEW i \in 0 .. (N - 1), end[i] = 2 + Len(f[i])
                 PROVE  end[i + 1] = 2 + Len(f[i + 1])
      BY <1>5
    <3>1. i + 1 \in 1 .. N /\ (i + 1) - 1 = i /\ i \in 0 .. N
      BY <1>5
    <3>2. end[i + 1] = StrEnd(data, end[i])
      BY <1>6, <3>1
    <3> DEFINE at == 2 + Len(f[i])
               n == Len(v[i + 1])
               next == Len(f[i + 1])
               size == Len(data)
    <3>3. /\ data[at + 1] = n /\ n \in Nat
          /\ next = Len(f[i]) + 1 + n
          /\ 2 + next <= Len(data)
      BY <1>8, <3>1
    <3>4. Len(f[i]) \in Nat /\ size \in Nat
      BY <1>4, <1>7, <3>1
    <3> DEFINE from == Len(f[i])
    <3> HIDE DEF next, from, n
    <3>5. from \in Nat /\ size \in Nat /\ next = from + 1 + n /\ 2 + next <= size /\ n \in Nat
      BY <3>3, <3>4 DEF from, n
    <3>6. at = 2 + from /\ end[i] = 2 + from
      BY DEF from
    <3> HIDE DEF at, size
    <3>7. at # Beyond /\ ~(size < at + 1) /\ ~(size < at + 1 + n)
      BY <3>5, <3>6 DEF Beyond
    <3>8. at = end[i] /\ at + 1 + n = 2 + next
      BY <3>5, <3>6
    <3>9. data[at + 1] = n
      BY <3>3 DEF at, n
    <3>. QED
      BY <3>2, <3>7, <3>8, <3>9 DEF StrEnd, next, size
  <2> HIDE DEF S
  <2>3. 0 .. N \subseteq S
    BY <1>5, <2>1, <2>2, InductionUpTo
  <2>. QED
    BY <2>3 DEF S
<1>10. ASSUME NEW i \in 1 .. N
       PROVE  SubSeq(data, end[i - 1] + 2, end[i]) = v[i]
  <2>1. i \in 0 .. N /\ i - 1 \in 0 .. N
    BY <1>5
  <2>2. end[i] = 2 + Len(f[i]) /\ end[i - 1] = 2 + Len(f[i - 1])
    BY <1>9, <2>1
  <2>3. SubSeq(data, (2 + Len(f[i - 1])) + 2, 2 + Len(f[i])) = v[i]
    BY <1>8
  <2>. QED
    BY <2>2, <2>3
<1>11. \A i \in 0 .. N : i # 0 => i \in 1 .. N
  BY <1>5
<1>. QED
  BY <1>9, <1>10, <1>11 DEF f, end, N

-----------------------------------------------------------------------------

LEMMA PopSliceStrInverse ==
    ASSUME NEW v \in Seq(Seq(Field)), NEW rest \in Seq(Field)
    PROVE  Pop(WithData(Encode("SLICE_STR", v) \o rest), "SLICE_STR") =
              [value |-> v, stream |-> WithData(rest)]
<1> DEFINE data == Encode("SLICE_STR", v) \o rest
           N == Len(v)
           b == StrFields(v)[N]
           end == StrEnds(data)
<1>1. "SLICE_STR" \in AllTypes /\ v \in ValueOf("SLICE_STR")
  BY DEF AllTypes, ValueOf, Numbers
<1>2. LaidOut(data, Tag("SLICE_STR"), N, b, rest)
  <2>1. LaidOut(data, Tag("SLICE_STR"), Second("SLICE_STR", v), Rest("SLICE_STR", v), rest)
    BY <1>1, EncodeFront
  <2>2. Rest("SLICE_STR", v) = b /\ Second("SLICE_STR", v) = N
    BY DEF Rest, Second, Numbers
  <2> HIDE DEF b, N, data
  <2>. QED
    BY <2>1, <2>2, Zenon
<1>3. N \in Nat /\ v \in [1 .. N -> Seq(Field)]
  BY LenProperties
<1>4. \A i \in 0 .. N :
         /\ end[i] = 2 + Len(StrFields(v)[i])
         /\ i # 0 => SubSeq(data, end[i - 1] + 2, end[i]) = v[i]
  BY StrEndsOfSlice
<1>5. end[N] = 2 + Len(b)
  BY <1>3, <1>4
<1> HIDE DEF data, N, b, end
<1>6. \A i \in 1 .. N : SubSeq(data, end[i - 1] + 2, end[i]) = v[i]
  <2> TAKE i \in 1 .. N
  <2>1. i \in 0 .. N /\ i # 0
    BY <1>3
  <2>. QED
    BY <1>4, <2>1
<1>7. [i \in 1 .. N |-> SubSeq(data, end[i - 1] + 2, end[i])] = v
  <2> DEFINE Piece(i) == SubSeq(data, end[i - 1] + 2, end[i])
  <2>1. \A i \in 1 .. N : Piece(i) = v[i]
    BY <1>6
  <2> HIDE DEF Piece
  <2>2. [i \in 1 .. N |-> Piece(i)] = v
    BY <1>3, <2>1
  <2>. QED
    BY <2>2 DEF Piece
<1>8. /\ Len(data) \in Nat /\ Len(b) \in Nat /\ Len(data) >= 2
      /\ data[1] = Tag("SLICE_STR") /\ data[2] = N
      /\ SubSeq(data, 2 + Len(b) + 1, Len(data)) = rest
  BY <1>2 DEF LaidOut
<1>9. Pop(WithData(data), "SLICE_STR") = PopSliceStr(WithData(data))
  <2>1. "SLICE_STR" \notin Numbers /\ "SLICE_STR" \notin Slices \cup {"STR"}
    BY DEF Numbers, Slices
  <2>2. ~(Len(data) < Demanded("SLICE_STR"))
    BY <1>8 DEF Demanded
  <2>. QED
    BY <1>8, <2>1, <2>2 DEF Pop, WithData
<1>10. PopSliceStr(WithData(data)) = Taken(WithData(data), v, end[N])
  <2> DEFINE values == [i \in 1 .. N |-> SubSeq(data, end[i - 1] + 2, end[i])]
             s == WithData(data)
  <2>1. end[N] # Beyond
    BY <1>5, <1>8 DEF Beyond
  <2>2. s.data = data
    BY DEF WithData
  <2>3. PopSliceStr(s) =
           IF end[N] = Beyond THEN Refused(s, "SLICE_STR", "wrong_value_format")
           ELSE Taken(s, values, end[N])
    <3> HIDE DEF s
    <3>. QED
      BY <1>8, <2>2, Zenon DEF PopSliceStr, end
  <2>4. values = v
    BY <1>7
  <2> HIDE DEF values, s
  <2>5. PopSliceStr(s) = Taken(s, values, end[N])
    BY <2>1, <2>3
  <2>. QED
    BY <2>4, <2>5 DEF s
<1>11. Taken(WithData(data), v, end[N]) = [value |-> v, stream |-> WithData(rest)]
  BY <1>5, <1>8 DEF Taken, WithData
<1>. QED
  BY <1>9, <1>10, <1>11 DEF data

LEMMA PopInverse ==
    ASSUME NEW type \in AllTypes, NEW v \in ValueOf(type), NEW rest \in Seq(Field)
    PROVE  Pop(WithData(Encode(type, v) \o rest), type) =
              [value |-> v, stream |-> WithData(rest)]
<1>1. CASE type \in Numbers
  <2>1. v \in Field
    BY <1>1 DEF ValueOf
  <2>. QED
    BY <1>1, <2>1, PopNumberInverse
<1>2. CASE type \in Slices \cup {"STR"}
  <2>1. type \notin Numbers /\ type # "SLICE_STR"
    BY <1>2 DEF Numbers, Slices
  <2>2. v \in Seq(Field)
    BY <2>1 DEF ValueOf
  <2>. QED
    BY <1>2, <2>2, PopCountedInverse
<1>3. CASE type = "SLICE_STR"
  <2>1. v \in Seq(Seq(Field))
    BY <1>3 DEF ValueOf, Numbers
  <2>2. Pop(WithData(Encode("SLICE_STR", v) \o rest), "SLICE_STR") =
           [value |-> v, stream |-> WithData(rest)]
    BY <2>1, PopSliceStrInverse
  <2>. QED
    BY <1>3, <2>2
<1>. QED
  BY <1>1, <1>2, <1>3 DEF AllTypes

\* What a pop returns, whatever the data.

Results == {"success", "wrong_value_type", "wrong_value_format"}
Streams == [data : Seq(Field), lastResult : Results]
Values == Field \cup {Beyond} \cup Seq(Field) \cup Seq(Seq(Field))

LEMMA SubSeqTyped ==
    ASSUME NEW data \in Seq(Field), NEW m \in Int, NEW l \in Int, m >= 1, l <= Len(data)
    PROVE  SubSeq(data, m, l) \in Seq(Field)
<1>1. \A j \in m .. l : j \in 1 .. Len(data)
  BY LenProperties
<1>2. \A j \in m .. l : data[j] \in Field
  BY <1>1, ElementOfSeq
<1>. QED
  BY <1>2, SubSeqProperties

LEMMA WithDataTyped == \A data \in Seq(Field) : WithData(data) \in Streams
  BY DEF WithData, Streams, Results

LEMMA RefusedTyped ==
    ASSUME NEW s \in Streams, NEW type \in AllTypes, NEW status \in Results
    PROVE  Refused(s, type, status).value \in Values /\ Refused(s, type, status).stream \in Streams
<1>1. Zero(type) \in Values
  <2>1. 0 \in Field /\ <<>> \in Seq(Field)
    BY DEF Field
  <2>. QED
    BY <2>1 DEF Zero, Values
<1>2. Refused(s, type, status).stream \in Streams
  BY DEF Refused, Streams
<1>. QED
  BY <1>1, <1>2 DEF Refused

LEMMA TakenTyped ==
    ASSUME NEW s \in Streams, NEW value \in Values, NEW n \in Nat
    PROVE  Taken(s, value, n).value \in Values /\ Taken(s, value, n).stream \in Streams
<1>1. s.data \in Seq(Field) /\ Len(s.data) \in Nat
  BY LenProperties DEF Streams
<1>2. SubSeq(s.data, n + 1, Len(s.data)) \in Seq(Field)
  BY <1>1, SubSeqTyped
<1>3. WithData(SubSeq(s.data, n + 1, Len(s.data))) \in Streams
  BY <1>2, WithDataTyped
<1>. QED
  BY <1>3 DEF Taken

-----------------------------------------------------------------------------

LEMMA PopTyped ==
    ASSUME NEW s \in Streams, NEW type \in AllTypes
    PROVE  Pop(s, type).value \in Values /\ Pop(s, type).stream \in Streams
<1> DEFINE data == s.data
<1>1. data \in Seq(Field) /\ Len(data) \in Nat
  BY LenProperties DEF Streams
<1>2. \A status \in Results :
         Refused(s, type, status).value \in Values /\ Refused(s, type, status).stream \in Streams
  BY RefusedTyped
<1>3. "wrong_value_type" \in Results /\ "wrong_value_format" \in Results
  BY DEF Results
<1>4. CASE Len(data) < Demanded(type)
  <2>1. Pop(s, type) = Refused(s, type, "wrong_value_format")
    BY <1>4 DEF Pop
  <2>. QED
    BY <1>2, <1>3, <2>1
<1>5. CASE ~(Len(data) < Demanded(type)) /\ data[1] # Tag(type)
  <2>1. Pop(s, type) = Refused(s, type, "wrong_value_type")
    BY <1>5 DEF Pop
  <2>. QED
    BY <1>2, <1>3, <2>1
<1>6. CASE /\ ~(Len(data) < Demanded(type)) /\ data[1] = Tag(type)
           /\ type \in Numbers
  <2> DEFINE value == IF Len(data) < 2 THEN Beyond ELSE data[2]
  <2>1. Pop(s, type) = PopNumber(s, type)
    <3>1. type \notin Slices \cup {"STR"} /\ type # "SLICE_STR"
      BY <1>6 DEF Numbers, Slices
    <3>. QED
      BY <1>6, <3>1 DEF Pop
  <2>2. PopNumber(s, type) = Taken(s, value, 2)
    BY DEF PopNumber
  <2>3. value \in Values
    <3>1. CASE Len(data) < 2
      BY <3>1 DEF Values
    <3>2. CASE ~(Len(data) < 2)
      <4>1. data[2] \in Field
        BY <1>1, <3>2, ElementOfSeq
      <4>. QED
        BY <3>2, <4>1 DEF Values
    <3>. QED
      BY <3>1, <3>2
  <2> HIDE DEF value
  <2>. QED
    BY <2>1, <2>2, <2>3, TakenTyped
<1>7. CASE /\ ~(Len(data) < Demanded(type)) /\ data[1] = Tag(type)
           /\ type \in Slices \cup {"STR"}
  <2>1. type \notin Numbers /\ type # "SLICE_STR" /\ type # "U32"
    BY <1>7 DEF Numbers, Slices
  <2>2. Pop(s, type) = PopCounted(s, type)
    BY <1>7, <2>1 DEF Pop
  <2> DEFINE n == 2 + data[2]
             value == SubSeq(data, 3, n)
  <2>3. data[2] \in Nat
    <3>1. Len(data) >= 2
      BY <1>1, <1>7, <2>1 DEF Demanded
    <3>2. data[2] \in Field
      BY <1>1, <3>1, ElementOfSeq
    <3>. QED
      BY <3>2 DEF Field
  <2>4. PopCounted(s, type) =
           IF Len(data) < n THEN Refused(s, type, "wrong_value_format") ELSE Taken(s, value, n)
    BY DEF PopCounted
  <2>5. n \in Nat
    BY <2>3
  <2> HIDE DEF n
  <2>6. CASE Len(data) < n
    BY <1>2, <1>3, <2>2, <2>4, <2>6
  <2>7. CASE ~(Len(data) < n)
    <3>1. value \in Seq(Field)
      BY <1>1, <2>5, <2>7, SubSeqTyped
    <3>2. value \in Values
      BY <3>1 DEF Values
    <3> HIDE DEF value
    <3>. QED
      BY <2>2, <2>4, <2>5, <2>7, <3>2, TakenTyped
  <2>. QED
    BY <2>6, <2>7
<1>8. CASE /\ ~(Len(data) < Demanded(type)) /\ data[1] = Tag(type)
           /\ type = "SLICE_STR"
  <2>1. type \notin Numbers /\ type \notin Slices \cup {"STR"} /\ type # "U32"
    BY <1>8 DEF Numbers, Slices
  <2>2. Pop(s, type) = PopSliceStr(s)
    BY <1>8, <2>1 DEF Pop
  <2> DEFINE end == StrEnds(data)
             n == data[2]
             value == [i \in 1 .. n |-> SubSeq(data, end[i - 1] + 2, end[i])]
  <2>3. Len(data) >= 2
    BY <1>1, <1>8, <2>1 DEF Demanded
  <2>4. n \in Nat /\ end \in [0 .. n -> Positions(data)]
    BY <1>1, <2>3, StrEndsUnfold
  <2>5. PopSliceStr(s) =
           IF end[n] = Beyond THEN Refused(s, "SLICE_STR", "wrong_value_format")
           ELSE Taken(s, value, end[n])
    BY DEF PopSliceStr
  <2> HIDE DEF end, n, value
  <2>6. \A i \in 0 .. n : end[i] \in Int /\ end[i] >= -1 /\ end[i] <= Len(data)
    <3> TAKE i \in 0 .. n
    <3>1. end[i] \in Positions(data)
      BY <2>4
    <3>. QED
      BY <1>1, <3>1 DEF Positions, Beyond
  <2>7. value \in Values
    <3> DEFINE Piece(i) == SubSeq(data, end[i - 1] + 2, end[i])
               X == Seq(Field)
    <3>1. \A i \in 1 .. n : Piece(i) \in X
      <4> TAKE i \in 1 .. n
      <4>1. i - 1 \in 0 .. n /\ i \in 0 .. n
        BY <2>4
      <4> DEFINE m == end[i - 1] + 2
                 l == end[i]
      <4>2. m \in Int /\ l \in Int /\ m >= 1 /\ l <= Len(data)
        BY <2>6, <4>1
      <4> HIDE DEF m, l
      <4>3. SubSeq(data, m, l) \in Seq(Field)
        BY <1>1, <4>2, SubSeqTyped
      <4>. QED
        BY <4>3 DEF m, l
    <3> HIDE DEF Piece, X
    <3>2. [i \in 1 .. n |-> Piece(i)] \in Seq(X)
      BY <2>4, <3>1
    <3>. QED
      BY <3>2 DEF value, Piece, X, Values
  <2>8. CASE end[n] = Beyond
    BY <1>2, <1>3, <1>8, <2>2, <2>5, <2>8
  <2>9. CASE end[n] # Beyond
    <3>1. end[n] \in Nat
      <4>1. end[n] \in Positions(data)
        BY <2>4
      <4>. QED
        BY <2>9, <4>1 DEF Positions
    <3>. QED
      BY <2>2, <2>5, <2>7, <2>9, <3>1, TakenTyped
  <2>. QED
    BY <2>8, <2>9
<1>. QED
  BY <1>4, <1>5, <1>6, <1>7, <1>8 DEF AllTypes

\* Pops, one after another.

Taking == [values : Seq(Values), stream : Streams]

LEMMA PopNextTyped ==
    ASSUME NEW taken \in Taking, NEW type \in AllTypes
    PROVE  PopNext(taken, type) \in Taking
<1> DEFINE p == Pop(taken.stream, type)
<1>1. taken.values \in Seq(Values) /\ taken.stream \in Streams
  BY DEF Taking
<1>2. p.value \in Values /\ p.stream \in Streams
  BY <1>1, PopTyped
<1>3. PopNext(taken, type) = [values |-> Append(taken.values, p.value), stream |-> p.stream]
  BY DEF PopNext
<1> HIDE DEF p
<1>4. Append(taken.values, p.value) \in Seq(Values)
  BY <1>1, <1>2, AppendProperties
<1>. QED
  BY <1>2, <1>3, <1>4 DEF Taking

IsPopped(f, s, shape) ==
    f = [n \in 0 .. Len(shape) |->
           IF n = 0 THEN [values |-> <<>>, stream |-> s] ELSE PopNext(f[n - 1], shape[n])]

LEMMA PoppedUnfold ==
    ASSUME NEW s \in Streams, NEW shape \in Seq(AllTypes)
    PROVE  /\ Popped(s, shape)[0] = [values |-> <<>>, stream |-> s]
           /\ \A n \in 1 .. Len(shape) :
                 Popped(s, shape)[n] = PopNext(Popped(s, shape)[n - 1], shape[n])
           /\ \A n \in 0 .. Len(shape) : Popped(s, shape)[n] \in Taking
<1> DEFINE N == Len(shape)
           none == [values |-> <<>>, stream |-> s]
           F == [n \in Nat |-> [x \in Taking |-> IF n \in 1 .. N THEN PopNext(x, shape[n]) ELSE x]]
<1>1. N \in Nat /\ \A n \in 1 .. N : shape[n] \in AllTypes
  BY LenProperties, ElementOfSeq
<1>2. none \in Taking
  <2>1. <<>> \in Seq(Values)
    BY EmptySeq
  <2>. QED
    BY <2>1 DEF Taking
<1> HIDE DEF N, none
<1>3. F \in [Nat -> [Taking -> Taking]]
  <2>1. \A n \in 1 .. N : \A x \in Taking : PopNext(x, shape[n]) \in Taking
    BY <1>1, PopNextTyped
  <2>. QED
    BY <2>1
<1>4. PICK g \in [0 .. N -> Taking] : IsRecursion(g, none, F, N)
  <2> HIDE DEF F
  <2>. QED
    BY <1>1, <1>2, <1>3, RecursiveFunctionExists
<1>5. IsPopped(g, s, shape)
  <2> DEFINE E(n) == IF n = 0 THEN none ELSE PopNext(g[n - 1], shape[n])
  <2>1. \A n \in 1 .. N : F[n][g[n - 1]] = PopNext(g[n - 1], shape[n])
    <3> TAKE n \in 1 .. N
    <3>1. n - 1 \in 0 .. N /\ n \in Nat
      BY <1>1
    <3>2. g[n - 1] \in Taking
      BY <3>1
    <3>. QED
      BY <3>1, <3>2
  <2> HIDE DEF F
  <2>2. \A n \in 0 .. N : g[n] = IF n = 0 THEN none ELSE F[n][g[n - 1]]
    BY <1>4 DEF IsRecursion
  <2>3. \A n \in 0 .. N : g[n] = E(n)
    <3> TAKE n \in 0 .. N
    <3>1. CASE n = 0
      BY <2>2, <3>1
    <3>2. CASE n # 0
      <4>1. n \in 1 .. N
        BY <1>1, <3>2
      <4>. QED
        BY <2>1, <2>2, <3>2, <4>1
    <3>. QED
      BY <3>1, <3>2
  <2>4. g = [n \in 0 .. N |-> E(n)]
    <3> HIDE DEF E
    <3>. QED
      BY <2>3
  <2>. QED
    BY <2>4 DEF IsPopped, N, none
<1> DEFINE f == CHOOSE f : IsPopped(f, s, shape)
<1>6. IsPopped(f, s, shape)
  BY <1>5
<1>7. Popped(s, shape) = f
  BY DEF Popped, IsPopped
<1> HIDE DEF f
<1>8. f[0] = none /\ \A n \in 1 .. N : f[n] = PopNext(f[n - 1], shape[n])
  <2> DEFINE E(n) == IF n = 0 THEN none ELSE PopNext(f[n - 1], shape[n])
  <2>1. f = [n \in 0 .. N |-> E(n)]
    BY <1>6 DEF IsPopped, N, none
  <2> HIDE DEF E
  <2>2. \A n \in 0 .. N : f[n] = E(n)
    BY <2>1
  <2>3. 0 \in 0 .. N /\ \A n \in 1 .. N : n \in 0 .. N /\ n # 0
    BY <1>1
  <2>4. E(0) = none
    BY DEF E
  <2>5. \A n \in 1 .. N : E(n) = PopNext(f[n - 1], shape[n])
    BY <2>3 DEF E
  <2>. QED
    BY <2>2, <2>3, <2>4, <2>5
<1>9. \A n \in 0 .. N : f[n] \in Taking
  <2>1. \A n \in 0 .. (N - 1) : f[n] \in Taking => f[n + 1] \in Taking
    <3> TAKE n \in 0 .. (N - 1)
    <3>1. n + 1 \in 1 .. N /\ (n + 1) - 1 = n
      BY <1>1
    <3>. QED
      BY <1>1, <1>8, <3>1, PopNextTyped
  <2>. QED
    BY <1>1, <1>2, <1>8, <2>1, TypedUpTo
<1>. QED
  BY <1>7, <1>8, <1>9 DEF N, none

-----------------------------------------------------------------------------

\* Values that fit a shape, pushed one after another.

Fits(shape, values) ==
    /\ shape \in Seq(AllTypes) /\ values \in Seq(Values) /\ Len(values) = Len(shape)
    /\ \A n \in 1 .. Len(shape) : values[n] \in ValueOf(shape[n])

IsPushed(f, shape, values) ==
    f = [n \in 0 .. Len(shape) |->
           IF n = 0 THEN <<>> ELSE f[n - 1] \o Encode(shape[n], values[n])]

LEMMA PushedUnfold ==
    ASSUME NEW shape, NEW values, Fits(shape, values)
    PROVE  /\ Pushed(shape, values)[0] = <<>>
           /\ \A n \in 1 .. Len(shape) :
                 Pushed(shape, values)[n] = Pushed(shape, values)[n - 1] \o Encode(shape[n], values[n])
           /\ \A n \in 0 .. Len(shape) : Pushed(shape, values)[n] \in Seq(Field)
<1> DEFINE X == Seq(Field)
           N == Len(shape)
           Code(n) == Encode(shape[n], values[n])
           F == [n \in Nat |-> [x \in X |-> IF n \in 1 .. N THEN x \o Code(n) ELSE x]]
<1>1. N \in Nat
  BY LenProperties DEF Fits
<1>2. \A n \in 1 .. N : Code(n) \in X
  <2> TAKE n \in 1 .. N
  <2>1. shape[n] \in AllTypes /\ values[n] \in ValueOf(shape[n])
    BY ElementOfSeq DEF Fits
  <2>. QED
    BY <2>1, EncodeTyped
<1> HIDE DEF N, Code
<1>3. \A x \in X : \A n \in 1 .. N : x \o Code(n) \in X
  <2> TAKE x \in X
  <2> TAKE n \in 1 .. N
  <2>1. Code(n) \in X
    BY <1>2
  <2>. QED
    BY <2>1, ConcatProperties
<1>4. <<>> \in X
  BY EmptySeq
<1> HIDE DEF X
<1>5. F \in [Nat -> [X -> X]]
  BY <1>3
<1>6. PICK g \in [0 .. N -> X] : IsRecursion(g, <<>>, F, N)
  <2> HIDE DEF F
  <2>. QED
    BY <1>1, <1>4, <1>5, RecursiveFunctionExists
<1>7. IsPushed(g, shape, values)
  <2> DEFINE E(n) == IF n = 0 THEN <<>> ELSE g[n - 1] \o Code(n)
  <2>1. \A n \in 1 .. N : F[n][g[n - 1]] = g[n - 1] \o Code(n)
    <3> TAKE n \in 1 .. N
    <3>1. n - 1 \in 0 .. N /\ n \in Nat
      BY <1>1
    <3>2. g[n - 1] \in X
      BY <3>1
    <3>. QED
      BY <3>1, <3>2
  <2> HIDE DEF F
  <2>2. \A n \in 0 .. N : g[n] = IF n = 0 THEN <<>> ELSE F[n][g[n - 1]]
    BY <1>6 DEF IsRecursion
  <2>3. \A n \in 0 .. N : g[n] = E(n)
    <3> TAKE n \in 0 .. N
    <3>1. CASE n = 0
      BY <2>2, <3>1
    <3>2. CASE n # 0
      <4>1. n \in 1 .. N
        BY <1>1, <3>2
      <4>. QED
        BY <2>1, <2>2, <3>2, <4>1
    <3>. QED
      BY <3>1, <3>2
  <2>4. g = [n \in 0 .. N |-> E(n)]
    <3> HIDE DEF E
    <3>. QED
      BY <2>3
  <2>. QED
    BY <2>4 DEF IsPushed, N, Code
<1> DEFINE f == CHOOSE f : IsPushed(f, shape, values)
<1>8. IsPushed(f, shape, values)
  BY <1>7
<1>9. Pushed(shape, values) = f
  BY DEF Pushed, IsPushed
<1> HIDE DEF f
<1>10. f[0] = <<>> /\ \A n \in 1 .. N : f[n] = f[n - 1] \o Code(n)
  <2> DEFINE E(n) == IF n = 0 THEN <<>> ELSE f[n - 1] \o Code(n)
  <2>1. f = [n \in 0 .. N |-> E(n)]
    BY <1>8 DEF IsPushed, N, Code
  <2> HIDE DEF E
  <2>2. \A n \in 0 .. N : f[n] = E(n)
    BY <2>1
  <2>3. 0 \in 0 .. N /\ \A n \in 1 .. N : n \in 0 .. N /\ n # 0
    BY <1>1
  <2>4. E(0) = <<>>
    BY DEF E
  <2>5. \A n \in 1 .. N : E(n) = f[n - 1] \o Code(n)
    BY <2>3 DEF E
  <2>. QED
    BY <2>2, <2>3, <2>4, <2>5
<1>11. \A n \in 0 .. N : f[n] \in X
  <2>1. \A n \in 0 .. (N - 1) : f[n] \in X => f[n + 1] \in X
    <3> TAKE n \in 0 .. (N - 1)
    <3>1. n + 1 \in 1 .. N /\ (n + 1) - 1 = n
      BY <1>1
    <3>2. f[n + 1] = f[n] \o Code(n + 1)
      BY <1>10, <3>1
    <3>. QED
      BY <1>3, <3>1, <3>2
  <2>. QED
    BY <1>1, <1>4, <1>10, <2>1, TypedUpTo
<1>. QED
  BY <1>9, <1>10, <1>11 DEF N, Code, X

\* The fields of values that fit.
LEMMA PushAllTyped ==
    ASSUME NEW shape, NEW values, Fits(shape, values)
    PROVE  PushAll(shape, values) \in Seq(Field)
<1> DEFINE N == Len(shape)
           f == Pushed(shape, values)
<1>1. N \in Nat
  BY LenProperties DEF Fits
<1>2. \A n \in 0 .. N : f[n] \in Seq(Field)
  BY PushedUnfold
<1> HIDE DEF N, f
<1>3. f[N] \in Seq(Field)
  BY <1>1, <1>2
<1>. QED
  BY <1>3 DEF PushAll, f, N

\* What was pushed is what is popped, and what comes after it is left: values
\* of any length, read by whoever expects their types.
THEOREM CodecInverse ==
    ASSUME NEW shape, NEW values, Fits(shape, values), NEW rest \in Seq(Field)
    PROVE  PopAll(WithData(PushAll(shape, values) \o rest), shape) =
              [values |-> values, stream |-> WithData(rest)]
<1> DEFINE N == Len(shape)
           f == Pushed(shape, values)
           Code(n) == Encode(shape[n], values[n])
           Back(n, more) == [values |-> SubSeq(values, 1, n), stream |-> WithData(more)]
           Undone(n) == \A more \in Seq(Field) :
                            Popped(WithData(f[n] \o more), shape)[n] = Back(n, more)
           S == {n \in 0 .. N : Undone(n)}
<1>1. /\ N \in Nat /\ Len(values) = N /\ values \in Seq(Values) /\ shape \in Seq(AllTypes)
      /\ \A n \in 1 .. N : shape[n] \in AllTypes /\ values[n] \in ValueOf(shape[n])
  BY LenProperties, ElementOfSeq DEF Fits
<1>2. /\ f[0] = <<>> /\ \A n \in 1 .. N : f[n] = f[n - 1] \o Code(n)
      /\ \A n \in 0 .. N : f[n] \in Seq(Field)
  BY PushedUnfold
<1>3. \A n \in 1 .. N : Code(n) \in Seq(Field)
  BY <1>1, EncodeTyped
<1>4. \A data \in Seq(Field) :
         /\ Popped(WithData(data), shape)[0] = [values |-> <<>>, stream |-> WithData(data)]
         /\ \A n \in 1 .. N : Popped(WithData(data), shape)[n] =
               PopNext(Popped(WithData(data), shape)[n - 1], shape[n])
  BY <1>1, WithDataTyped, PoppedUnfold
<1>5. \A n \in 1 .. N : \A more \in Seq(Field) :
         Pop(WithData(Code(n) \o more), shape[n]) = [value |-> values[n], stream |-> WithData(more)]
  BY <1>1, PopInverse
<1> HIDE DEF N, f, Code
<1>6. Undone(0)
  <2> SUFFICES ASSUME NEW more \in Seq(Field)
               PROVE  Popped(WithData(f[0] \o more), shape)[0] = Back(0, more)
    OBVIOUS
  <2>1. f[0] \o more = more
    BY <1>2, ConcatEmptySeq
  <2>2. SubSeq(values, 1, 0) = <<>>
    BY <1>1, SubSeqEmpty
  <2>. QED
    BY <1>4, <2>1, <2>2
<1>7. ASSUME NEW n \in 0 .. (N - 1), Undone(n)
      PROVE  Undone(n + 1)
  <2> SUFFICES ASSUME NEW more \in Seq(Field)
               PROVE  Popped(WithData(f[n + 1] \o more), shape)[n + 1] = Back(n + 1, more)
    OBVIOUS
  <2>1. n + 1 \in 1 .. N /\ (n + 1) - 1 = n /\ n \in 0 .. N /\ n \in Nat
    BY <1>1
  <2> DEFINE p == f[n]
             c == Code(n + 1)
             data == f[n + 1] \o more
             taken == Popped(WithData(data), shape)
  <2>2. p \in Seq(Field) /\ c \in Seq(Field) /\ f[n + 1] = p \o c
    BY <1>2, <1>3, <2>1
  <2> HIDE DEF p, c
  <2>3. data = p \o (c \o more)
    <3>1. (p \o c) \o more = p \o (c \o more)
      BY <2>2, Assoc
    <3>. QED
      BY <2>2, <3>1
  <2>4. c \o more \in Seq(Field) /\ p \o (c \o more) \in Seq(Field)
    <3>1. c \o more \in Seq(Field)
      BY <2>2, ConcatProperties
    <3>. QED
      BY <2>2, <3>1, ConcatProperties
  <2>5. taken[n] = Back(n, c \o more)
    <3> HIDE DEF Back
    <3>1. Popped(WithData(p \o (c \o more)), shape)[n] = Back(n, c \o more)
      BY <1>7, <2>4 DEF p
    <3>. QED
      BY <2>3, <3>1
  <2>6. taken[n + 1] = PopNext(taken[n], shape[n + 1])
    BY <1>4, <2>1, <2>3, <2>4
  <2>7. Pop(WithData(c \o more), shape[n + 1]) = [value |-> values[n + 1], stream |-> WithData(more)]
    BY <1>5, <2>1 DEF c
  <2> HIDE DEF taken, data
  <2>8. taken[n + 1] =
           [values |-> Append(SubSeq(values, 1, n), values[n + 1]), stream |-> WithData(more)]
    <3> DEFINE prev == taken[n]
               type == shape[n + 1]
               s == WithData(c \o more)
               p1 == Pop(s, type)
    <3>1. prev.stream = s /\ prev.values = SubSeq(values, 1, n)
      BY <2>5
    <3>2. p1.value = values[n + 1] /\ p1.stream = WithData(more)
      BY <2>7
    <3> HIDE DEF prev, s, type
    <3>3. PopNext(prev, type) = [values |-> Append(prev.values, Pop(prev.stream, type).value),
                                 stream |-> Pop(prev.stream, type).stream]
      BY DEF PopNext
    <3>4. Pop(prev.stream, type) = p1
      BY <3>1
    <3> HIDE DEF p1
    <3>5. PopNext(prev, type) = [values |-> Append(SubSeq(values, 1, n), values[n + 1]),
                                 stream |-> WithData(more)]
      BY <3>1, <3>2, <3>3, <3>4
    <3>. QED
      BY <2>6, <3>5 DEF prev, type
  <2>9. Append(SubSeq(values, 1, n), values[n + 1]) = SubSeq(values, 1, n + 1)
    <3> DEFINE q == SubSeq(values, 1, n)
               e == values[n + 1]
    <3>1. q \in Seq(Values) /\ e \in Values
      <4>1. e \in Values
        BY <1>1, <2>1, ElementOfSeq
      <4>2. \A i \in 1 .. n : values[i] \in Values
        BY <1>1, <2>1, ElementOfSeq
      <4>. QED
        BY <2>1, <4>1, <4>2, SubSeqProperties
    <3>2. 1 \in 1 .. Len(values) /\ n + 1 \in 1 .. Len(values)
      BY <1>1, <2>1
    <3>3. SubSeq(values, 1, n + 1) = SubSeq(values, 1, (n + 1) - 1) \o <<values[n + 1]>>
      BY <1>1, <3>2, SubSeqRecursiveSecond
    <3>4. SubSeq(values, 1, n + 1) = q \o <<e>>
      BY <2>1, <3>3
    <3> HIDE DEF q, e
    <3>5. Append(q, e) = q \o <<e>>
      BY <3>1, AppendIsConcat
    <3>. QED
      BY <3>4, <3>5 DEF q, e
  <2>. QED
    BY <2>8, <2>9 DEF taken, data
<1>8. N \in S
  <2> HIDE DEF Undone
  <2>1. 0 \in S /\ \A n \in 0 .. (N - 1) : n \in S => n + 1 \in S
    BY <1>1, <1>6, <1>7
  <2> HIDE DEF S
  <2>2. 0 .. N \subseteq S
    BY <1>1, <2>1, InductionUpTo
  <2>. QED
    BY <1>1, <2>2
<1>9. Popped(WithData(f[N] \o rest), shape)[N] = Back(N, rest)
  <2> HIDE DEF Back
  <2>. QED
    BY <1>8
<1>10. SubSeq(values, 1, N) = values
  BY <1>1, SubSeqFull
<1>. QED
  BY <1>9, <1>10 DEF PushAll, PopAll, f, N

-----------------------------------------------------------------------------

\* Pops that fail. A stream that is empty stays so.

LEMMA PopOfNothing ==
    ASSUME NEW s \in Streams, s.data = <<>>, NEW type \in AllTypes
    PROVE  /\ Pop(s, type).value = Zero(type)
           /\ Pop(s, type).stream = [data |-> <<>>, lastResult |-> "wrong_value_format"]
<1>1. Len(s.data) < Demanded(type)
  BY DEF Demanded
<1>2. Pop(s, type) = Refused(s, type, "wrong_value_format")
  BY <1>1 DEF Pop
<1>3. [s EXCEPT !.lastResult = "wrong_value_format"] =
         [data |-> <<>>, lastResult |-> "wrong_value_format"]
  BY DEF Streams
<1>. QED
  BY <1>2, <1>3 DEF Refused

LEMMA AppendOne == \A x : \A y : Append(<<>>, x) = <<x>> /\ Append(<<x>>, y) = <<x, y>>
<1> SUFFICES ASSUME NEW x, NEW y PROVE Append(<<>>, x) = <<x>> /\ Append(<<x>>, y) = <<x, y>>
  OBVIOUS
<1> DEFINE X == {x, y}
           one == <<x>>
           two == <<x, y>>
           more == Append(one, y)
<1>1. one \in Seq(X) /\ Len(one) = 1 /\ one[1] = x
  OBVIOUS
<1>2. two \in Seq(X) /\ Len(two) = 2 /\ two[1] = x /\ two[2] = y
  OBVIOUS
<1>3. Append(<<>>, x) = <<x>>
  OBVIOUS
<1>4. y \in X
  OBVIOUS
<1> HIDE DEF one, two, X
<1>5. more \in Seq(X) /\ Len(more) = 2 /\ more[1] = x /\ more[2] = y
  <2>1. more \in Seq(X) /\ Len(more) = Len(one) + 1
    BY <1>1, <1>4, AppendProperties
  <2>2. \A i \in 1 .. Len(one) : more[i] = one[i]
    BY <1>1, <1>4, AppendProperties
  <2>3. more[Len(one) + 1] = y
    BY <1>1, <1>4, AppendProperties
  <2> HIDE DEF more
  <2>. QED
    BY <1>1, <2>1, <2>2, <2>3
<1> HIDE DEF more
<1>6. more = two
  <2>1. Len(more) = Len(two) /\ \A i \in 1 .. Len(more) : more[i] = two[i]
    BY <1>2, <1>5
  <2>. QED
    BY <1>2, <1>5, <2>1, SeqEqual
<1>. QED
  BY <1>3, <1>6 DEF more, one, two

\* Two pops, one after the other.
LEMMA PopTwo ==
    ASSUME NEW s \in Streams, NEW t \in AllTypes, NEW u \in AllTypes,
           NEW p, p = Pop(s, t), NEW q, q = Pop(p.stream, u)
    PROVE  PopAll(s, <<t, u>>) = [values |-> <<p.value, q.value>>, stream |-> q.stream]
<1> DEFINE shape == <<t, u>>
           f == Popped(s, shape)
<1>1. shape \in Seq(AllTypes) /\ Len(shape) = 2 /\ shape[1] = t /\ shape[2] = u
  OBVIOUS
<1> HIDE DEF shape
<1>2. /\ f[0] = [values |-> <<>>, stream |-> s]
      /\ \A n \in 1 .. Len(shape) : f[n] = PopNext(f[n - 1], shape[n])
  BY <1>1, PoppedUnfold
<1> HIDE DEF f
<1>3. f[1] = PopNext(f[0], t)
  BY <1>1, <1>2
<1>4. f[2] = PopNext(f[1], u)
  BY <1>1, <1>2
<1>5. f[1] = [values |-> <<p.value>>, stream |-> p.stream]
  <2>1. f[0].stream = s /\ f[0].values = <<>>
    BY <1>2
  <2>2. PopNext(f[0], t) = [values |-> Append(f[0].values, Pop(f[0].stream, t).value),
                            stream |-> Pop(f[0].stream, t).stream]
    BY DEF PopNext
  <2>3. Append(<<>>, p.value) = <<p.value>>
    OBVIOUS
  <2>. QED
    BY <1>3, <2>1, <2>2, <2>3
<1>6. f[2] = [values |-> <<p.value, q.value>>, stream |-> q.stream]
  <2>1. f[1].stream = p.stream /\ f[1].values = <<p.value>>
    BY <1>5
  <2>2. PopNext(f[1], u) = [values |-> Append(f[1].values, Pop(f[1].stream, u).value),
                            stream |-> Pop(f[1].stream, u).stream]
    BY DEF PopNext
  <2>3. Append(<<p.value>>, q.value) = <<p.value, q.value>>
    BY AppendOne, Zenon
  <2>. QED
    BY <1>4, <2>1, <2>2, <2>3
<1>. QED
  BY <1>1, <1>6 DEF PopAll, f, shape

LEMMA PopTwoOfNothing ==
    ASSUME NEW t \in AllTypes, NEW u \in AllTypes
    PROVE  /\ PopAll(WithData(<<>>), <<t, u>>).values = <<Zero(t), Zero(u)>>
           /\ ~Parsed(PopAll(WithData(<<>>), <<t, u>>))
<1> DEFINE s == WithData(<<>>)
           p == Pop(s, t)
           q == Pop(p.stream, u)
           all == PopAll(s, <<t, u>>)
<1>1. s \in Streams /\ s.data = <<>>
  BY EmptySeq, WithDataTyped DEF WithData
<1> HIDE DEF s
<1>2. p.value = Zero(t) /\ p.stream = [data |-> <<>>, lastResult |-> "wrong_value_format"]
  BY <1>1, PopOfNothing
<1>3. p.stream \in Streams /\ p.stream.data = <<>>
  BY <1>2, EmptySeq DEF Streams, Results
<1> HIDE DEF p
<1>4. q.value = Zero(u) /\ q.stream = [data |-> <<>>, lastResult |-> "wrong_value_format"]
  BY <1>3, PopOfNothing
<1> HIDE DEF q
<1>5. all = [values |-> <<p.value, q.value>>, stream |-> q.stream]
  BY <1>1, PopTwo DEF p, q
<1> HIDE DEF all
<1>6. all.values = <<Zero(t), Zero(u)>> /\ ~Parsed(all)
  BY <1>2, <1>4, <1>5 DEF Parsed
<1>. QED
  BY <1>6 DEF all, s

\* Two values, one after the other.
LEMMA PushTwo ==
    ASSUME NEW t \in AllTypes, NEW u \in AllTypes, NEW v \in ValueOf(t), NEW w \in ValueOf(u)
    PROVE  /\ Fits(<<t, u>>, <<v, w>>)
           /\ PushAll(<<t, u>>, <<v, w>>) = Encode(t, v) \o Encode(u, w)
<1> DEFINE shape == <<t, u>>
           values == <<v, w>>
           f == Pushed(shape, values)
<1>1. /\ shape \in Seq(AllTypes) /\ Len(shape) = 2 /\ shape[1] = t /\ shape[2] = u
      /\ Len(values) = 2 /\ values[1] = v /\ values[2] = w
  OBVIOUS
<1>2. v \in Values /\ w \in Values
  BY DEF ValueOf, Values
<1>3. values \in Seq(Values)
  BY <1>2
<1> HIDE DEF shape, values
<1>4. Fits(shape, values)
  BY <1>1, <1>3 DEF Fits
<1>5. f[0] = <<>> /\ \A n \in 1 .. 2 : f[n] = f[n - 1] \o Encode(shape[n], values[n])
  <2>1. f[0] = <<>> /\ \A n \in 1 .. Len(shape) : f[n] = f[n - 1] \o Encode(shape[n], values[n])
    BY <1>4, PushedUnfold
  <2> HIDE DEF f
  <2>. QED
    BY <1>1, <2>1
<1> HIDE DEF f
<1>6. f[1] = <<>> \o Encode(t, v)
  <2>1. 1 \in 1 .. 2 /\ 1 - 1 = 0
    OBVIOUS
  <2>. QED
    BY <1>1, <1>5, <2>1
<1>7. <<>> \o Encode(t, v) = Encode(t, v)
  <2> DEFINE e == Encode(t, v)
  <2>1. e \in Seq(Field)
    BY EncodeTyped
  <2> HIDE DEF e
  <2>2. <<>> \o e = e
    BY <2>1, ConcatEmptySeq
  <2>. QED
    BY <2>2 DEF e
<1>8. f[2] = f[1] \o Encode(u, w)
  <2>1. 2 \in 1 .. 2 /\ 2 - 1 = 1
    OBVIOUS
  <2>. QED
    BY <1>1, <1>5, <2>1
<1>. QED
  BY <1>1, <1>4, <1>6, <1>7, <1>8 DEF PushAll, f, shape, values

-----------------------------------------------------------------------------

\* Messages: a header, and a body whose length it tells.

Framed(code, body) == PushAll(Header, <<code, Len(body)>>) \o body

LEMMA HeaderIs ==
    ASSUME NEW a \in Field, NEW b \in Field
    PROVE  /\ PushAll(Header, <<a, b>>) \in Seq(Field)
           /\ Len(PushAll(Header, <<a, b>>)) = HeaderLen
           /\ PopAll(WithData(PushAll(Header, <<a, b>>)), Header) =
                 [values |-> <<a, b>>, stream |-> WithData(<<>>)]
<1> DEFINE h == PushAll(Header, <<a, b>>)
           c == Encode("I32", a)
           d == Encode("U32", b)
<1>1. /\ "I32" \in AllTypes /\ "U32" \in AllTypes
      /\ a \in ValueOf("I32") /\ b \in ValueOf("U32")
  BY DEF AllTypes, ValueOf, Numbers
<1>2. Fits(Header, <<a, b>>) /\ h = c \o d
  BY <1>1, PushTwo DEF Header
<1>3. c \in Seq(Field) /\ Len(c) = 2
  <2>1. Rest("I32", a) = <<>> /\ Len(<<>>) = 0
    BY DEF Rest, Numbers
  <2>2. c \in Seq(Field) /\ Len(c) = 2 + Len(Rest("I32", a))
    BY <1>1, EncodeTyped
  <2> HIDE DEF c
  <2>. QED
    BY <2>1, <2>2
<1>4. d \in Seq(Field) /\ Len(d) = 2
  <2>1. Rest("U32", b) = <<>> /\ Len(<<>>) = 0
    BY DEF Rest, Numbers
  <2>2. d \in Seq(Field) /\ Len(d) = 2 + Len(Rest("U32", b))
    BY <1>1, EncodeTyped
  <2> HIDE DEF d
  <2>. QED
    BY <2>1, <2>2
<1> HIDE DEF c, d, h
<1>5. h \in Seq(Field) /\ Len(h) = HeaderLen
  <2>1. c \o d \in Seq(Field) /\ Len(c \o d) = Len(c) + Len(d)
    BY <1>3, <1>4, ConcatProperties
  <2>. QED
    BY <1>2, <1>3, <1>4, <2>1 DEF HeaderLen
<1>6. h \o <<>> = h /\ <<>> \in Seq(Field)
  BY <1>5, ConcatEmptySeq
<1>7. PopAll(WithData(h \o <<>>), Header) = [values |-> <<a, b>>, stream |-> WithData(<<>>)]
  BY <1>2, <1>6, CodecInverse DEF h
<1>. QED
  BY <1>5, <1>6, <1>7 DEF h

LEMMA FramedIs ==
    ASSUME NEW code \in Field, NEW body \in Seq(Field)
    PROVE  /\ Framed(code, body) \in Seq(Field)
           /\ Len(Framed(code, body)) = HeaderLen + Len(body) /\ Len(body) \in Nat
           /\ SubSeq(Framed(code, body), 1, HeaderLen) = PushAll(Header, <<code, Len(body)>>)
           /\ SubSeq(Framed(code, body), HeaderLen + 1, Len(Framed(code, body))) = body
           /\ PopAll(WithData(SubSeq(Framed(code, body), 1, HeaderLen)), Header) =
                 [values |-> <<code, Len(body)>>, stream |-> WithData(<<>>)]
<1> DEFINE h == PushAll(Header, <<code, Len(body)>>)
           data == Framed(code, body)
<1>1. Len(body) \in Nat /\ Len(body) \in Field
  BY LenProperties DEF Field
<1>2. /\ h \in Seq(Field) /\ Len(h) = HeaderLen
      /\ PopAll(WithData(h), Header) = [values |-> <<code, Len(body)>>, stream |-> WithData(<<>>)]
  BY <1>1, HeaderIs
<1>3. data = h \o body
  BY DEF Framed
<1> HIDE DEF h, data
<1>4. /\ h \o body \in Seq(Field) /\ Len(h \o body) = Len(h) + Len(body)
      /\ SubSeq(h \o body, 1, Len(h)) = h
      /\ SubSeq(h \o body, Len(h) + 1, Len(h) + Len(body)) = body
  <2>1. h \o body \in Seq(Field) /\ Len(h \o body) = Len(h) + Len(body)
    BY <1>2, ConcatProperties
  <2>2. SubSeq(h \o body, 1, Len(h)) = h
    BY <1>2, Halves
  <2>3. SubSeq(h \o body, Len(h) + 1, Len(h) + Len(body)) = body
    BY <1>2, Halves
  <2>. QED
    BY <2>1, <2>2, <2>3
<1>5. data \in Seq(Field) /\ Len(data) = HeaderLen + Len(body)
  BY <1>2, <1>3, <1>4
<1>6. SubSeq(data, 1, HeaderLen) = h
  BY <1>2, <1>3, <1>4
<1>7. SubSeq(data, HeaderLen + 1, Len(data)) = body
  BY <1>2, <1>3, <1>4, <1>5
<1>. QED
  BY <1>1, <1>2, <1>5, <1>6, <1>7 DEF h, data

\* A prefix of a prefix.
LEMMA PrefixOfPrefix ==
    ASSUME NEW data \in Seq(Field), NEW n \in 0 .. Len(data), NEW m \in 0 .. n
    PROVE  /\ SubSeq(data, 1, n) \in Seq(Field) /\ Len(SubSeq(data, 1, n)) = n
           /\ SubSeq(SubSeq(data, 1, n), 1, m) = SubSeq(data, 1, m)
<1> DEFINE p == SubSeq(data, 1, n)
           q == SubSeq(data, 1, m)
<1>1. Len(data) \in Nat /\ n \in Nat /\ m \in Nat
  BY LenProperties
<1>2. \A i \in 1 .. n : data[i] \in Field
  BY <1>1, ElementOfSeq
<1>3. /\ p \in Seq(Field) /\ Len(p) = n
      /\ \A i \in 1 .. n : p[i] = data[i]
  BY <1>1, <1>2, SubSeqProperties
<1>4. /\ q \in Seq(Field) /\ Len(q) = m
      /\ \A i \in 1 .. m : q[i] = data[i]
  <2>1. \A i \in 1 .. m : data[i] \in Field
    BY <1>1, <1>2
  <2>. QED
    BY <1>1, <2>1, SubSeqProperties
<1> HIDE DEF p, q
<1>5. SubSeq(p, 1, m) = q
  <2>1. \A i \in 1 .. m : p[1 + i - 1] = q[i]
    BY <1>1, <1>3, <1>4
  <2>2. IsAt(p, 1, m, q)
    BY <1>1, <1>3, <1>4, <2>1 DEF IsAt
  <2>. QED
    BY <1>1, <1>3, <1>4, <2>2, Cut
<1>. QED
  BY <1>3, <1>5 DEF p, q

\* What a client makes of a response that ends after n fields.
LEMMA CallResultIs ==
    ASSUME NEW id, NEW code \in Field, NEW body \in Seq(Field),
           NEW n \in 0 .. Len(Framed(code, body))
    PROVE  CallResult(id, SubSeq(Framed(code, body), 1, n)) =
              IF n < Len(Framed(code, body)) THEN Failure(id, INTERNAL_ENDPOINT_ERROR)
              ELSE IF code # OK THEN Failure(id, code)
              ELSE [id |-> id, code |-> OK,
                    values |-> PopAll(WithData(body), ResponseShape(id)).values]
<1> DEFINE whole == Framed(code, body)
           data == SubSeq(whole, 1, n)
           start == SubSeq(data, 1, HeaderLen)
           header == PopAll(WithData(start), Header)
           again == PopAll(header.stream, Header)
           size == Len(body)
<1>1. /\ whole \in Seq(Field) /\ Len(whole) = HeaderLen + size /\ size \in Nat
      /\ SubSeq(whole, HeaderLen + 1, Len(whole)) = body
      /\ PopAll(WithData(SubSeq(whole, 1, HeaderLen)), Header) =
            [values |-> <<code, size>>, stream |-> WithData(<<>>)]
  BY FramedIs
<1>2. n \in 0 .. Len(whole)
  OBVIOUS
<1> HIDE DEF whole
<1>3. data \in Seq(Field) /\ Len(data) = n
  BY <1>1, <1>2, PrefixOfPrefix
<1>4. ASSUME n >= HeaderLen
      PROVE  /\ header.values[1] = code /\ header.values[2] = size /\ Parsed(header)
             /\ header.stream = WithData(<<>>)
  <2>1. HeaderLen \in 0 .. n
    BY <1>4, <1>2 DEF HeaderLen
  <2>2. start = SubSeq(whole, 1, HeaderLen)
    BY <1>1, <1>2, <2>1, PrefixOfPrefix
  <2>3. header = [values |-> <<code, size>>, stream |-> WithData(<<>>)]
    BY <1>1, <2>2
  <2> HIDE DEF header, size
  <2>. QED
    BY <2>3 DEF Parsed, WithData
<1>5. MessageRead(data) <=> /\ n >= HeaderLen /\ Parsed(header)
                            /\ n >= HeaderLen + header.values[2]
  <2> HIDE DEF data
  <2>. QED
    BY <1>3 DEF MessageRead
<1>6. CASE n < Len(whole)
  <2>1. ~MessageRead(data)
    <3>1. CASE n >= HeaderLen
      <4>1. header.values[2] = size /\ ~(n >= HeaderLen + size)
        BY <1>1, <1>2, <1>4, <1>6, <3>1 DEF HeaderLen
      <4> HIDE DEF data, header
      <4>. QED
        BY <1>5, <4>1
    <3>2. CASE ~(n >= HeaderLen)
      BY <1>5, <3>2
    <3>. QED
      BY <3>1, <3>2
  <2> HIDE DEF data
  <2>. QED
    BY <1>6, <2>1 DEF CallResult, data, whole
<1>7. CASE ~(n < Len(whole))
  <2>1. n = Len(whole) /\ n >= HeaderLen /\ n >= HeaderLen + size
    BY <1>1, <1>2, <1>7 DEF HeaderLen
  <2>2. MessageRead(data)
    BY <1>4, <1>5, <2>1
  <2>3. data = whole
    BY <1>1, <2>1, SubSeqFull
  <2>4. SubSeq(data, HeaderLen + 1, Len(data)) = body
    BY <1>1, <2>1, <2>3
  <2>5. again.values[1] = OK
    <3>1. header.stream = WithData(<<>>)
      BY <1>4, <2>1
    <3>2. "I32" \in AllTypes /\ "U32" \in AllTypes /\ Zero("I32") = 0
      BY DEF AllTypes, Numbers, Zero
    <3>3. PopAll(WithData(<<>>), Header).values = <<Zero("I32"), Zero("U32")>>
      BY <3>2, PopTwoOfNothing DEF Header
    <3> HIDE DEF header
    <3>. QED
      BY <3>1, <3>2, <3>3 DEF OK
  <2>6. header.values[1] = code
    BY <1>4, <2>1
  <2> DEFINE last == IF header.values[1] # OK THEN header.values[1] ELSE again.values[1]
             values == PopAll(WithData(SubSeq(data, HeaderLen + 1, Len(data))), ResponseShape(id)).values
  <2>7. last = code
    <3> HIDE DEF header, again
    <3>. QED
      BY <2>5, <2>6
  <2>8. CallResult(id, data) = IF ~MessageRead(data) THEN Failure(id, INTERNAL_ENDPOINT_ERROR)
                               ELSE IF last # OK THEN Failure(id, last)
                               ELSE [id |-> id, code |-> OK, values |-> values]
    <3> HIDE DEF data
    <3>. QED
      BY DEF CallResult
  <2>9. values = PopAll(WithData(body), ResponseShape(id)).values
    BY <2>4
  <2> HIDE DEF last, values, data
  <2>10. CallResult(id, data) = IF code # OK THEN Failure(id, code)
                                ELSE [id |-> id, code |-> OK, values |-> values]
    BY <2>2, <2>7, <2>8
  <2>. QED
    BY <1>7, <2>9, <2>10 DEF data, whole
<1>. QED
  BY <1>6, <1>7

-----------------------------------------------------------------------------

\* Records on disk.

Record(id, name) == PushAll(TaskRecord, <<id, name>>)

LEMMA RecordIs ==
    ASSUME NEW id \in Field, NEW name \in Seq(Field)
    PROVE  /\ Record(id, name) \in Seq(Field)
           /\ Len(Record(id, name)) = 4 + Len(name) /\ Len(name) \in Nat
           /\ Record(id, name)[1] = Tag("U64") /\ Record(id, name)[4] = Len(name)
           /\ PopAll(WithData(Record(id, name)), TaskRecord) =
                 [values |-> <<id, name>>, stream |-> WithData(<<>>)]
<1> DEFINE r == Record(id, name)
           a == Encode("U64", id)
           b == Encode("STR", name)
<1>1. /\ "U64" \in AllTypes /\ "STR" \in AllTypes
      /\ id \in ValueOf("U64") /\ name \in ValueOf("STR")
  BY DEF AllTypes, ValueOf, Numbers
<1>2. Fits(TaskRecord, <<id, name>>) /\ r = a \o b
  BY <1>1, PushTwo DEF TaskRecord, Record
<1>3. /\ Rest("U64", id) = <<>> /\ Second("U64", id) = id
      /\ Rest("STR", name) = name /\ Second("STR", name) = Len(name)
      /\ Len(name) \in Nat /\ Len(<<>>) = 0
  BY LenProperties DEF Rest, Second, Numbers
<1>4. a \in Seq(Field) /\ Len(a) = 2 /\ b \in Seq(Field) /\ Len(b) = 2 + Len(name)
  <2>1. a \in Seq(Field) /\ Len(a) = 2 + Len(Rest("U64", id))
    BY <1>1, EncodeTyped
  <2>2. b \in Seq(Field) /\ Len(b) = 2 + Len(Rest("STR", name))
    BY <1>1, EncodeTyped
  <2> HIDE DEF a, b
  <2>. QED
    BY <1>3, <2>1, <2>2
<1>5. r[1] = Tag("U64")
  <2>1. LaidOut(a \o b, Tag("U64"), Second("U64", id), Rest("U64", id), b)
    BY <1>1, <1>4, EncodeFront
  <2> HIDE DEF a, b, r
  <2>. QED
    BY <1>2, <2>1 DEF LaidOut
<1>6. b[2] = Len(name)
  <2>1. LaidOut(b \o <<>>, Tag("STR"), Second("STR", name), Rest("STR", name), <<>>)
    BY <1>1, EncodeFront, EmptySeq
  <2> HIDE DEF b
  <2>2. b \o <<>> = b
    BY <1>4, ConcatEmptySeq
  <2>. QED
    BY <1>3, <2>1, <2>2 DEF LaidOut
<1> HIDE DEF a, b, r
<1>7. r \in Seq(Field) /\ Len(r) = 4 + Len(name)
  <2>1. a \o b \in Seq(Field) /\ Len(a \o b) = Len(a) + Len(b)
    BY <1>4, ConcatProperties
  <2>. QED
    BY <1>2, <1>3, <1>4, <2>1
<1>8. r[4] = Len(name)
  <2>1. \A i \in 1 .. Len(b) : (a \o b)[Len(a) + i] = b[i]
    <3>1. a \in Seq(Field)
      BY <1>4
    <3>2. b \in Seq(Field)
      BY <1>4
    <3>. QED
      BY <3>1, <3>2, Halves, Zenon
  <2>2. 2 \in 1 .. Len(b) /\ Len(a) + 2 = 4
    BY <1>3, <1>4
  <2>. QED
    BY <1>2, <1>6, <2>1, <2>2
<1>9. PopAll(WithData(r), TaskRecord) = [values |-> <<id, name>>, stream |-> WithData(<<>>)]
  <2>1. r \o <<>> = r /\ <<>> \in Seq(Field)
    BY <1>7, ConcatEmptySeq
  <2>2. PopAll(WithData(r \o <<>>), TaskRecord) =
           [values |-> <<id, name>>, stream |-> WithData(<<>>)]
    BY <1>2, <2>1, CodecInverse DEF r, Record
  <2>. QED
    BY <2>1, <2>2
<1>. QED
  BY <1>3, <1>5, <1>7, <1>8, <1>9 DEF r

\* A record that is cut is refused.
LEMMA CutRecordRefused ==
    ASSUME NEW id \in Field, NEW name \in Seq(Field), NEW k \in 0 .. Len(Record(id, name)),
           Parsed(PopAll(WithData(SubSeq(Record(id, name), 1, k)), TaskRecord))
    PROVE  k = Len(Record(id, name))
<1> DEFINE r == Record(id, name)
           d == SubSeq(r, 1, k)
           s == WithData(d)
           p == Pop(s, "U64")
           q == Pop(p.stream, "STR")
<1>1. /\ r \in Seq(Field) /\ Len(r) = 4 + Len(name) /\ Len(name) \in Nat
      /\ r[1] = Tag("U64") /\ r[4] = Len(name)
  BY RecordIs
<1>2. k \in 0 .. Len(r) /\ Parsed(PopAll(s, TaskRecord))
  OBVIOUS
<1> HIDE DEF r
<1>3. d \in Seq(Field) /\ Len(d) = k /\ \A i \in 1 .. k : d[i] = r[i]
  <2>1. \A i \in 1 .. k : r[i] \in Field
    BY <1>1, <1>2, ElementOfSeq
  <2>. QED
    BY <1>2, <2>1, SubSeqProperties
<1> HIDE DEF d
<1>4. s \in Streams /\ s.data = d
  BY <1>3, WithDataTyped DEF WithData
<1>5. "U64" \in AllTypes /\ "STR" \in AllTypes
  BY DEF AllTypes, Numbers
<1> HIDE DEF s
<1>6. q.stream.lastResult = "success"
  <2>1. PopAll(s, TaskRecord) = [values |-> <<p.value, q.value>>, stream |-> q.stream]
    BY <1>4, <1>5, PopTwo DEF TaskRecord
  <2> HIDE DEF p, q
  <2>. QED
    BY <1>2, <2>1 DEF Parsed
<1>7. ASSUME Len(p.stream.data) < 2
      PROVE  FALSE
  <2>1. q = Refused(p.stream, "STR", "wrong_value_format")
    BY <1>7 DEF Pop, Demanded
  <2>2. q.stream = [p.stream EXCEPT !.lastResult = "wrong_value_format"] /\ p.stream \in Streams
    BY <1>4, <1>5, <2>1, PopTyped DEF Refused
  <2> HIDE DEF p, q
  <2>3. q.stream.lastResult = "wrong_value_format"
    BY <2>2 DEF Streams
  <2>. QED
    BY <1>6, <2>3
<1>8. k >= 2
  <2> SUFFICES ASSUME k < 2 PROVE FALSE
    BY <1>1, <1>2
  <2>1. p = Refused(s, "U64", "wrong_value_format")
    BY <1>3, <1>4 DEF Pop, Demanded
  <2>2. p.stream = [s EXCEPT !.lastResult = "wrong_value_format"]
    BY <2>1 DEF Refused
  <2> HIDE DEF p, q
  <2>3. p.stream.data = d
    BY <1>4, <2>2 DEF Streams
  <2>. QED
    BY <1>3, <1>7, <2>3
<1> DEFINE e == SubSeq(d, 3, k)
<1>9. p.stream = WithData(e)
  <2>1. ~(Len(s.data) < Demanded("U64")) /\ s.data[1] = Tag("U64")
    <3>1. 1 \in 1 .. k
      BY <1>1, <1>2, <1>8
    <3>. QED
      BY <1>1, <1>3, <1>4, <1>8, <3>1 DEF Demanded
  <2>2. "U64" \in Numbers /\ "U64" \notin Slices \cup {"STR"} /\ "U64" # "SLICE_STR"
    BY DEF Numbers, Slices
  <2>3. p = PopNumber(s, "U64")
    BY <2>1, <2>2 DEF Pop
  <2>. QED
    BY <1>3, <1>4, <2>3 DEF PopNumber, Taken
<1>10. e \in Seq(Field) /\ Len(e) = k - 2 /\ \A i \in 1 .. (k - 2) : e[i] = d[i + 2]
  <2>1. \A i \in 3 .. k : d[i] \in Field
    BY <1>3, <1>8, ElementOfSeq
  <2>2. /\ e \in Seq(Field) /\ Len(e) = IF 3 <= k THEN k - 3 + 1 ELSE 0
        /\ \A i \in 1 .. k - 3 + 1 : e[i] = d[3 + i - 1]
    BY <1>2, <2>1, SubSeqProperties
  <2> HIDE DEF e
  <2>3. k \in Nat
    BY <1>1, <1>2
  <2>. QED
    BY <1>8, <2>2, <2>3
<1>11. p.stream.data = e
  BY <1>9 DEF WithData
<1>12. k >= 4
  <2> HIDE DEF e, p, q
  <2>. QED
    BY <1>1, <1>2, <1>7, <1>10, <1>11
<1>13. e[2] = Len(name)
  <2> HIDE DEF e
  <2>1. 2 \in 1 .. (k - 2) /\ 2 + 2 = 4 /\ 4 \in 1 .. k
    BY <1>1, <1>2, <1>12
  <2>. QED
    BY <1>1, <1>3, <1>10, <2>1
<1>14. ~(Len(e) < 2 + e[2])
  <2> SUFFICES ASSUME Len(e) < 2 + e[2] PROVE FALSE
    OBVIOUS
  <2> DEFINE t == p.stream
  <2>1. t \in Streams /\ t.data = e
    BY <1>4, <1>5, <1>11, PopTyped
  <2> HIDE DEF t, e
  <2>2. "STR" \notin Numbers /\ "STR" \in Slices \cup {"STR"} /\ "STR" # "SLICE_STR"
    BY DEF Numbers, Slices
  <2>3. \E status \in {"wrong_value_format", "wrong_value_type"} :
           Pop(t, "STR") = Refused(t, "STR", status)
    <3>1. ~(Len(t.data) < Demanded("STR"))
      BY <1>1, <1>2, <1>10, <1>12, <2>1 DEF Demanded
    <3>2. CASE t.data[1] # Tag("STR")
      BY <3>1, <3>2 DEF Pop
    <3>3. CASE t.data[1] = Tag("STR")
      <4>1. Pop(t, "STR") = PopCounted(t, "STR")
        BY <2>2, <3>1, <3>3 DEF Pop
      <4>2. PopCounted(t, "STR") = Refused(t, "STR", "wrong_value_format")
        BY <2>1 DEF PopCounted
      <4>. QED
        BY <4>1, <4>2
    <3>. QED
      BY <3>2, <3>3
  <2>4. PICK status \in {"wrong_value_format", "wrong_value_type"} :
           Pop(t, "STR") = Refused(t, "STR", status)
    BY <2>3
  <2>5. q.stream.lastResult = status
    <3>1. q = Refused(t, "STR", status)
      BY <2>4 DEF t
    <3> HIDE DEF q
    <3>. QED
      BY <2>1, <3>1 DEF Refused, Streams
  <2>. QED
    BY <1>6, <2>5
<1> HIDE DEF e
<1>. QED
  BY <1>1, <1>2, <1>10, <1>13, <1>14 DEF r

\* What TaskState_Read makes of a file that a record was written to, cut or
\* not: the record, or nothing.
LEMMA RecordReadIs ==
    ASSUME NEW id \in Field, NEW name \in Seq(Field), NEW n \in 0 .. Len(Record(id, name)),
           NEW file, file = SubSeq(Record(id, name), 1, n),
           NEW p, p = PopAll(WithData(Limited(file, ReadCap)), TaskRecord)
    PROVE  /\ Parsed(p) => p.values = <<id, name>>
           /\ file = Record(id, name) /\ Len(file) <= ReadCap => Parsed(p)
<1> DEFINE r == Record(id, name)
           k == IF n < ReadCap THEN n ELSE ReadCap
<1>1. /\ r \in Seq(Field) /\ Len(r) \in Nat
      /\ PopAll(WithData(r), TaskRecord) = [values |-> <<id, name>>, stream |-> WithData(<<>>)]
  BY RecordIs, LenProperties
<1>2. n \in 0 .. Len(r) /\ file = SubSeq(r, 1, n) /\ ReadCap \in Nat
  BY CallAssumption
<1>3. k \in 0 .. n /\ k \in 0 .. Len(r)
  BY <1>1, <1>2
<1> HIDE DEF r
<1>4. Len(file) = n /\ SubSeq(file, 1, k) = SubSeq(r, 1, k)
  <2> HIDE DEF k
  <2>. QED
    BY <1>1, <1>2, <1>3, PrefixOfPrefix
<1>5. Limited(file, ReadCap) = SubSeq(r, 1, k)
  BY <1>4 DEF Limited
<1> HIDE DEF k
<1>6. k = Len(r) => p = [values |-> <<id, name>>, stream |-> WithData(<<>>)]
  <2>1. SubSeq(r, 1, Len(r)) = r
    BY <1>1, SubSeqFull
  <2>. QED
    BY <1>1, <1>5, <2>1
<1>7. ASSUME Parsed(p)
      PROVE  k = Len(r)
  <2>1. p = PopAll(WithData(SubSeq(r, 1, k)), TaskRecord)
    BY <1>5
  <2>. QED
    BY <1>3, <1>7, <2>1, CutRecordRefused DEF r
<1>8. ASSUME file = r, Len(file) <= ReadCap
      PROVE  Parsed(p)
  <2>1. k = Len(r)
    BY <1>1, <1>2, <1>4, <1>8 DEF k
  <2>. QED
    BY <1>6, <2>1 DEF Parsed, WithData
<1>. QED
  BY <1>6, <1>7, <1>8 DEF r

-----------------------------------------------------------------------------

\* Shapes of requests and responses, and values that fit them.

LEMMA FitsNone == Fits(<<>>, <<>>)
  BY EmptySeq DEF Fits

LEMMA FitsOne ==
    ASSUME NEW t \in AllTypes, NEW v \in ValueOf(t)
    PROVE  Fits(<<t>>, <<v>>)
<1>1. v \in Values
  BY DEF ValueOf, Values
<1> DEFINE shape == <<t>>
           values == <<v>>
<1>2. /\ shape \in Seq(AllTypes) /\ Len(shape) = 1 /\ shape[1] = t
      /\ values \in Seq(Values) /\ Len(values) = 1 /\ values[1] = v
  BY <1>1
<1> HIDE DEF shape, values
<1>3. Fits(shape, values)
  BY <1>2 DEF Fits
<1>. QED
  BY <1>3 DEF shape, values

LEMMA FitsThree ==
    ASSUME NEW t \in AllTypes, NEW u \in AllTypes, NEW x \in AllTypes,
           NEW v \in ValueOf(t), NEW w \in ValueOf(u), NEW y \in ValueOf(x)
    PROVE  Fits(<<t, u, x>>, <<v, w, y>>)
<1>1. v \in Values /\ w \in Values /\ y \in Values
  BY DEF ValueOf, Values
<1> DEFINE shape == <<t, u, x>>
           values == <<v, w, y>>
<1>2. /\ shape \in Seq(AllTypes) /\ Len(shape) = 3
      /\ shape[1] = t /\ shape[2] = u /\ shape[3] = x
      /\ values \in Seq(Values) /\ Len(values) = 3
      /\ values[1] = v /\ values[2] = w /\ values[3] = y
  BY <1>1
<1> HIDE DEF shape, values
<1>3. Fits(shape, values)
  BY <1>2 DEF Fits
<1>. QED
  BY <1>3 DEF shape, values

USE DEF HEALTH_CHECK, TASK_NEW, TASK_GET, TASK_LIST, TASK_DELETE

LEMMA ShapesAre ==
    /\ RequestShape(HEALTH_CHECK) = <<>> /\ ResponseShape(HEALTH_CHECK) = <<>>
    /\ RequestShape(TASK_NEW) = <<"U64", "STR">> /\ ResponseShape(TASK_NEW) = <<"U64">>
    /\ RequestShape(TASK_GET) = <<"U64", "U64">> /\ RequestShape(TASK_DELETE) = <<"U64", "U64">>
    /\ ResponseShape(TASK_DELETE) = <<"U64">>
    /\ ResponseShape(TASK_GET) = <<"U64", "STR", "STR">>
    /\ RequestShape(TASK_LIST) = <<"U64">>
    /\ ResponseShape(TASK_LIST) = <<"SLICE_U64", "SLICE_STR", "SLICE_STR">>
    /\ \A id \in Int \ Registered : RequestShape(id) = <<>>
  BY DEF RequestShape, ResponseShape, Registered

LEMMA TypesAre ==
    /\ "U64" \in AllTypes /\ ValueOf("U64") = Field
    /\ "STR" \in AllTypes /\ ValueOf("STR") = Seq(Field)
    /\ "SLICE_U64" \in AllTypes /\ ValueOf("SLICE_U64") = Seq(Field)
    /\ "SLICE_STR" \in AllTypes /\ ValueOf("SLICE_STR") = Seq(Seq(Field))
  BY DEF AllTypes, ValueOf, Numbers, Slices

LEMMA RegistryIs == MaxEndpoints - 1 \in Field \ Registered /\ MaxEndpoints \in Field \ Registered
<1>1. \A id \in {0, 4, 5, 6, 7} : id < MaxEndpoints - 1
  BY RegistryAssumption DEF Registered
<1>2. MaxEndpoints \in Nat
  BY CallAssumption
<1>. QED
  BY <1>1, <1>2 DEF Registered, Field

LEMMA NowhereIs == Workspaces \subseteq Field /\ Nowhere \in Field /\ Nowhere \notin Workspaces
<1>1. Workspaces \subseteq Nat /\ \E last \in Workspaces : \A w \in Workspaces : w <= last
  BY CallAssumption
<1>2. PICK m : m = CHOOSE n \in Workspaces : \A w \in Workspaces : w <= n
  OBVIOUS
<1>3. m \in Workspaces /\ \A w \in Workspaces : w <= m
  BY <1>1, <1>2
<1>4. Nowhere = m + 1
  BY <1>2 DEF Nowhere
<1>. QED
  BY <1>1, <1>3, <1>4 DEF Field

\* What is true of every call that is made.
IsCall(what) ==
    /\ what.id \in Field /\ Fits(what.shape, what.values)
    /\ what.id \in Registered =>
          \/ what.shape = RequestShape(what.id)
          \/ what.id = TASK_GET /\ what.shape = <<>>

LEMMA CallsAre == \A what \in Calls : IsCall(what)
<1> SUFFICES ASSUME NEW what \in Calls PROVE IsCall(what)
  OBVIOUS
<1>1. \A w \in Workspaces \cup {Nowhere} : w \in Field
  BY NowhereIs
<1>2. \A name \in Names : name \in Seq(Field)
  BY CallAssumption DEF Field
<1>3. ASSUME NEW id \in Field, NEW values, Fits(RequestShape(id), values)
      PROVE  IsCall(Proper(id, values))
  BY <1>3 DEF IsCall, Proper
<1>4. CASE what = Proper(HEALTH_CHECK, <<>>)
  BY <1>3, <1>4, FitsNone, ShapesAre DEF Field
<1>5. ASSUME NEW values \in (Workspaces \cup {Nowhere}) \X Names, what = Proper(TASK_NEW, values)
      PROVE  IsCall(what)
  <2>1. PICK w \in Workspaces \cup {Nowhere}, name \in Names : values = <<w, name>>
    OBVIOUS
  <2>2. Fits(<<"U64", "STR">>, <<w, name>>)
    BY <1>1, <1>2, TypesAre, PushTwo
  <2>. QED
    BY <1>3, <1>5, <2>1, <2>2, ShapesAre DEF Field
<1>6. ASSUME NEW values \in (Workspaces \cup {Nowhere}) \X TaskIds, what = Proper(TASK_GET, values)
      PROVE  IsCall(what)
  <2>1. PICK w \in Workspaces \cup {Nowhere}, id \in TaskIds : values = <<w, id>>
    OBVIOUS
  <2>2. id \in Field
    BY DEF TaskIds, Field
  <2>3. Fits(<<"U64", "U64">>, <<w, id>>)
    BY <1>1, <2>2, TypesAre, PushTwo
  <2>. QED
    BY <1>3, <1>6, <2>1, <2>3, ShapesAre DEF Field
<1>7. ASSUME NEW w \in Workspaces \cup {Nowhere}, what = Proper(TASK_LIST, <<w>>)
      PROVE  IsCall(what)
  <2>1. Fits(<<"U64">>, <<w>>)
    BY <1>1, TypesAre, FitsOne
  <2>. QED
    BY <1>3, <1>7, <2>1, ShapesAre DEF Field
<1>11. ASSUME NEW values \in (Workspaces \cup {Nowhere}) \X TaskIds, what = Proper(TASK_DELETE, values)
       PROVE  IsCall(what)
  <2>1. PICK w \in Workspaces \cup {Nowhere}, id \in TaskIds : values = <<w, id>>
    OBVIOUS
  <2>2. id \in Field
    BY DEF TaskIds, Field
  <2>3. Fits(<<"U64", "U64">>, <<w, id>>)
    BY <1>1, <2>2, TypesAre, PushTwo
  <2>. QED
    BY <1>3, <1>11, <2>1, <2>3, ShapesAre DEF Field
<1>8. CASE what \in {Proper(MaxEndpoints - 1, <<>>), Proper(MaxEndpoints, <<>>)}
  <2>1. PICK id \in Field \ Registered : what = Proper(id, <<>>)
    BY <1>8, RegistryIs
  <2>2. RequestShape(id) = <<>>
    BY ShapesAre DEF Field
  <2>. QED
    BY <1>3, <2>1, <2>2, FitsNone
<1>9. CASE what = [id |-> TASK_GET, shape |-> <<>>, values |-> <<>>]
  BY <1>9, FitsNone DEF IsCall, Field
<1>10. \/ what = Proper(HEALTH_CHECK, <<>>)
       \/ \E values \in (Workspaces \cup {Nowhere}) \X Names : what = Proper(TASK_NEW, values)
       \/ \E values \in (Workspaces \cup {Nowhere}) \X TaskIds : what = Proper(TASK_GET, values)
       \/ \E values \in (Workspaces \cup {Nowhere}) \X TaskIds : what = Proper(TASK_DELETE, values)
       \/ \E w \in Workspaces \cup {Nowhere} : what = Proper(TASK_LIST, <<w>>)
       \/ what \in {Proper(MaxEndpoints - 1, <<>>), Proper(MaxEndpoints, <<>>)}
       \/ what = [id |-> TASK_GET, shape |-> <<>>, values |-> <<>>]
  BY DEF Calls
<1>. QED
  BY <1>4, <1>5, <1>6, <1>7, <1>8, <1>9, <1>10, <1>11, Zenon

\* A request as the registry gets it: the id, and the parameters, or none.

LEMMA ParseOfRequest ==
    ASSUME NEW c, IsCall(call[c]), wire[c] = Request(call[c])
    PROVE  /\ EndpointId(c) = call[c].id
           /\ call[c].shape = RequestShape(call[c].id) =>
                 Parsed(Parse(c)) /\ Parse(c).values = call[c].values
           /\ call[c].id = TASK_GET /\ call[c].shape = <<>> => ~Parsed(Parse(c))
<1> DEFINE what == call[c]
           body == PushAll(what.shape, what.values)
           id == what.id
<1>1. id \in Field /\ Fits(what.shape, what.values)
  BY DEF IsCall
<1>2. body \in Seq(Field)
  BY <1>1, PushAllTyped
<1>3. wire[c] = Framed(id, body)
  BY DEF Request, Framed
<1> HIDE DEF body
<1>4. /\ SubSeq(wire[c], HeaderLen + 1, Len(wire[c])) = body
      /\ PopAll(WithData(SubSeq(wire[c], 1, HeaderLen)), Header) =
            [values |-> <<id, Len(body)>>, stream |-> WithData(<<>>)]
  BY <1>1, <1>2, <1>3, FramedIs
<1>5. EndpointId(c) = id
  BY <1>4 DEF EndpointId
<1>6. Parse(c) = PopAll(WithData(body), RequestShape(id))
  BY <1>4, <1>5 DEF Parse, Body
<1>7. ASSUME what.shape = RequestShape(id)
      PROVE  Parsed(Parse(c)) /\ Parse(c).values = what.values
  <2>1. body \o <<>> = body /\ <<>> \in Seq(Field)
    BY <1>2, ConcatEmptySeq
  <2>2. PopAll(WithData(body \o <<>>), what.shape) =
           [values |-> what.values, stream |-> WithData(<<>>)]
    BY <1>1, <2>1, CodecInverse DEF body
  <2>3. Parse(c) = [values |-> what.values, stream |-> WithData(<<>>)]
    BY <1>6, <1>7, <2>1, <2>2
  <2>. QED
    BY <2>3 DEF Parsed, WithData
<1>8. ASSUME id = TASK_GET, what.shape = <<>>
      PROVE  ~Parsed(Parse(c))
  <2>1. body = <<>>
    <3>1. PushAll(<<>>, what.values) = <<>>
      <4>1. Fits(<<>>, what.values)
        BY <1>1, <1>8
      <4>2. Pushed(<<>>, what.values)[0] = <<>>
        BY <4>1, PushedUnfold
      <4>. QED
        BY <4>2 DEF PushAll
    <3>. QED
      BY <1>8, <3>1 DEF body
  <2>2. RequestShape(id) = <<"U64", "U64">>
    BY <1>8, ShapesAre
  <2>3. ~Parsed(PopAll(WithData(<<>>), <<"U64", "U64">>))
    BY TypesAre, PopTwoOfNothing
  <2>. QED
    BY <1>6, <2>1, <2>2, <2>3
<1>. QED
  BY <1>5, <1>7, <1>8

-----------------------------------------------------------------------------

\* The invariant. Its parts are stated of values, so that they can be carried
\* from one state to the next.

\* An answer is true of the tasks in g.
IsTask(g, w, id, name, path) == <<w, id, name>> \in g /\ path = PathOf(w, id)

Tells(g, what, v) ==
    /\ what.id = TASK_NEW => <<what.values[1], v[1], what.values[2]>> \in g
    /\ what.id = TASK_GET => v[1] = what.values[2] /\ IsTask(g, what.values[1], v[1], v[2], v[3])
    /\ what.id = TASK_LIST =>
          /\ Len(v[2]) = Len(v[1]) /\ Len(v[3]) = Len(v[1])
          /\ \A i \in DOMAIN v[1] : IsTask(g, what.values[1], v[1][i], v[2][i], v[3][i])
          /\ \A i, j \in DOMAIN v[1] : i < j => v[1][i] < v[1][j]

\* The fields w are a response that carries what came out.
Carries(w, what, out) ==
    /\ out.code \in OK .. INTERNAL_ENDPOINT_ERROR
    /\ \E body \in Seq(Field) :
          /\ w = Framed(out.code, body)
          /\ out.code = OK =>
                /\ Fits(ResponseShape(what.id), out.values)
                /\ body = PushAll(ResponseShape(what.id), out.values)

\* What a command got is what came out, or the error of a broken connection.
Arrived(broke, got, what, out) ==
    \/ broke /\ got = Failure(what.id, INTERNAL_ENDPOINT_ERROR)
    \/ /\ ~broke /\ got.code = out.code
       /\ got.code = OK => got.values = out.values

\* The directory of a task holds the record of a task that was made, or the
\* beginning of it, and it is not beyond the next one of the config.
IsDir(cf, g, dir, w, id) ==
    /\ cf[w] # Blank => id <= cf[w]
    /\ \E name \in Seq(Field) :
          /\ <<w, id, name>> \in g
          /\ \E n \in 0 .. Len(Record(id, name)) : dir.record = SubSeq(Record(id, name), 1, n)

Keeps(cf, g, ds) ==
    /\ cf \in [Workspaces -> Field \cup {Blank}]
    /\ \A key \in DOMAIN ds :
          \E w \in Workspaces : \E id \in Field : key = <<w, id>> /\ IsDir(cf, g, ds[key], w, id)

IdleOK(c) == pc[c] = "idle" => outcome[c] = NoAnswer
SentOK(c) == pc[c] = "sent" => wire[c] = Request(call[c])
AnsweredOK(c) == pc[c] = "answered" => Carries(wire[c], call[c], outcome[c])
DoneOK(c) == pc[c] = "done" => Arrived(c \in lost, result[c], call[c], outcome[c])
TruthOK(c) ==
    pc[c] \in {"answered", "done"} /\ outcome[c].code = OK => Tells(given, call[c], outcome[c].values)

ClientOK(c) == IdleOK(c) /\ SentOK(c) /\ AnsweredOK(c) /\ DoneOK(c) /\ TruthOK(c)

Tables == DOMAIN wire = Clients /\ DOMAIN result = Clients /\ DOMAIN outcome = Clients

CallInv == TypeOK /\ Tables /\ Keeps(config, given, dirs) /\ \A c \in Clients : ClientOK(c)

\* What was true of the tasks made is true of more of them.
LEMMA TellsOn ==
    ASSUME NEW g, NEW h, g \subseteq h, NEW what, NEW v, Tells(g, what, v)
    PROVE  Tells(h, what, v)
<1>1. \A w : \A id : \A name : \A path : IsTask(g, w, id, name, path) => IsTask(h, w, id, name, path)
  BY DEF IsTask
<1>2. CASE what.id = TASK_GET
  <2>1. what.id # TASK_LIST /\ what.id # TASK_NEW
    BY <1>2
  <2>. QED
    BY <1>1, <1>2, <2>1 DEF Tells
<1>3. CASE what.id = TASK_LIST
  <2>1. what.id # TASK_GET /\ what.id # TASK_NEW
    BY <1>3
  <2> DEFINE Task(i) == IsTask(h, what.values[1], v[1][i], v[2][i], v[3][i])
  <2>2. \A i \in DOMAIN v[1] : Task(i)
    BY <1>1, <1>3 DEF Tells
  <2>3. /\ Len(v[2]) = Len(v[1]) /\ Len(v[3]) = Len(v[1])
        /\ \A i, j \in DOMAIN v[1] : i < j => v[1][i] < v[1][j]
    BY <1>3 DEF Tells
  <2>. QED
    BY <2>1, <2>2, <2>3 DEF Tells
<1>4. CASE what.id \notin {TASK_GET, TASK_LIST}
  BY <1>4 DEF Tells
<1>. QED
  BY <1>2, <1>3, <1>4

\* One client's step leaves the others alone.

Others(c) ==
    \A d \in Clients \ {c} :
        /\ pc'[d] = pc[d] /\ call'[d] = call[d] /\ wire'[d] = wire[d]
        /\ result'[d] = result[d] /\ outcome'[d] = outcome[d]
        /\ (d \in lost') = (d \in lost)

LEMMA OthersStay ==
    ASSUME NEW c, Others(c), given \subseteq given', NEW d \in Clients \ {c}, ClientOK(d)
    PROVE  ClientOK(d)'
<1>1. /\ pc'[d] = pc[d] /\ call'[d] = call[d] /\ wire'[d] = wire[d]
      /\ result'[d] = result[d] /\ outcome'[d] = outcome[d]
      /\ (d \in lost') = (d \in lost)
  BY DEF Others
<1>2. IdleOK(d)' /\ SentOK(d)'
  BY <1>1 DEF ClientOK, IdleOK, SentOK, Request
<1>3. AnsweredOK(d)'
  BY <1>1 DEF ClientOK, AnsweredOK
<1>4. DoneOK(d)'
  BY <1>1 DEF ClientOK, DoneOK
<1>5. TruthOK(d)'
  <2>1. TruthOK(d)
    BY DEF ClientOK
  <2>2. Tells(given, call[d], outcome[d].values) => Tells(given', call[d], outcome[d].values)
    BY TellsOn
  <2>. QED
    BY <1>1, <2>1, <2>2 DEF TruthOK
<1>. QED
  BY <1>2, <1>3, <1>4, <1>5 DEF ClientOK

\* The server answers one client, and may have made a task.

Known(code, body, what, g, v) ==
    code = OK =>
        /\ Fits(ResponseShape(what.id), v) /\ body = PushAll(ResponseShape(what.id), v)
        /\ Tells(g, what, v)

DiskKept == given \subseteq given' /\ Keeps(config', given', dirs')

Answer(c) ==
    /\ pc[c] = "sent"
    /\ DiskKept
    /\ \E code \in OK .. INTERNAL_ENDPOINT_ERROR : \E body \in Seq(Field) : \E v :
          Respond(c, code, body, v) /\ Known(code, body, call[c], given', v)

-----------------------------------------------------------------------------

\* What the server knows of a request it has.

LEMMA SentIs ==
    ASSUME CallInv, NEW c \in Clients, pc[c] = "sent"
    PROVE  /\ IsCall(call[c]) /\ call[c].id \in Field /\ EndpointId(c) = call[c].id
           /\ call[c].shape = RequestShape(call[c].id) =>
                 Parsed(Parse(c)) /\ Parse(c).values = call[c].values
           /\ call[c].id = TASK_GET /\ call[c].shape = <<>> => ~Parsed(Parse(c))
<1>1. call[c] \in Calls
  BY DEF CallInv, TypeOK
<1>2. IsCall(call[c])
  BY <1>1, CallsAre
<1>3. wire[c] = Request(call[c])
  BY DEF CallInv, ClientOK, SentOK
<1>. QED
  BY <1>2, <1>3, ParseOfRequest DEF IsCall

LEMMA DispatchedIs ==
    ASSUME CallInv, NEW c \in Clients, NEW id \in Registered, Dispatched(c, id)
    PROVE  /\ pc[c] = "sent" /\ call[c].id = id /\ EndpointId(c) = id
           /\ Fits(RequestShape(id), call[c].values)
           /\ \A i : Param(c, i) = call[c].values[i]
<1>1. pc[c] = "sent" /\ EndpointId(c) = id /\ Parsed(Parse(c))
  BY DEF Dispatched
<1>2. /\ IsCall(call[c]) /\ EndpointId(c) = call[c].id
      /\ call[c].shape = RequestShape(call[c].id) => Parse(c).values = call[c].values
      /\ call[c].id = TASK_GET /\ call[c].shape = <<>> => ~Parsed(Parse(c))
  BY <1>1, SentIs
<1>3. call[c].id = id
  BY <1>1, <1>2
<1>4. call[c].shape = RequestShape(id)
  BY <1>1, <1>2, <1>3 DEF IsCall
<1>5. Fits(RequestShape(id), call[c].values)
  BY <1>2, <1>4 DEF IsCall
<1>6. Parse(c).values = call[c].values
  BY <1>2, <1>3, <1>4
<1>. QED
  BY <1>1, <1>3, <1>5, <1>6 DEF Param

\* The values of a request with two parameters.
LEMMA TwoParams ==
    ASSUME CallInv, NEW c \in Clients, NEW id \in Registered, Dispatched(c, id),
           NEW s, NEW t, RequestShape(id) = <<s, t>>
    PROVE  /\ call[c].id = id /\ Param(c, 1) = call[c].values[1] /\ Param(c, 2) = call[c].values[2]
           /\ Param(c, 1) \in ValueOf(s) /\ Param(c, 2) \in ValueOf(t)
<1>1. /\ call[c].id = id /\ Fits(<<s, t>>, call[c].values)
      /\ \A i : Param(c, i) = call[c].values[i]
  BY DispatchedIs
<1> DEFINE shape == <<s, t>>
           values == call[c].values
<1>2. Len(shape) = 2 /\ shape[1] = s /\ shape[2] = t
  OBVIOUS
<1>3. values[1] \in ValueOf(shape[1]) /\ values[2] \in ValueOf(shape[2])
  BY <1>1, <1>2 DEF Fits
<1>. QED
  BY <1>1, <1>2, <1>3

\* The records on disk.

NameIn(w, id) == ReadRecord(w, id).values[2]

LEMMA ReadRecordIs ==
    ASSUME Keeps(config, given, dirs), NEW w, NEW id, <<w, id>> \in DOMAIN dirs
    PROVE  /\ w \in Workspaces /\ id \in Field
           /\ Found(w, id) => /\ ReadRecord(w, id).values = <<id, NameIn(w, id)>>
                              /\ NameIn(w, id) \in Seq(Field) /\ <<w, id, NameIn(w, id)>> \in given
           /\ Stored(w, id) => Found(w, id)
<1> DEFINE file == dirs[<<w, id>>].record
           p == ReadRecord(w, id)
<1>1. w \in Workspaces /\ id \in Field /\ IsDir(config, given, dirs[<<w, id>>], w, id)
  <2>1. PICK v \in Workspaces, k \in Field : <<w, id>> = <<v, k>> /\ IsDir(config, given, dirs[<<w, id>>], v, k)
    BY DEF Keeps
  <2>. QED
    BY <2>1
<1>2. PICK name \in Seq(Field) :
         /\ <<w, id, name>> \in given
         /\ \E n \in 0 .. Len(Record(id, name)) : file = SubSeq(Record(id, name), 1, n)
  BY <1>1 DEF IsDir
<1>3. PICK n \in 0 .. Len(Record(id, name)) : file = SubSeq(Record(id, name), 1, n)
  BY <1>2
<1>4. p = PopAll(WithData(Limited(file, ReadCap)), TaskRecord)
  BY DEF ReadRecord
<1> HIDE DEF file, p
<1>5. Parsed(p) => p.values = <<id, name>>
  BY <1>1, <1>2, <1>3, <1>4, RecordReadIs
<1>6. ASSUME Found(w, id)
      PROVE  /\ p.values = <<id, NameIn(w, id)>>
             /\ NameIn(w, id) \in Seq(Field) /\ <<w, id, NameIn(w, id)>> \in given
  <2>1. Parsed(p)
    BY <1>6 DEF Found, RecordRead, p
  <2>2. p.values = <<id, name>>
    BY <1>5, <2>1
  <2>3. NameIn(w, id) = name
    BY <2>2 DEF NameIn, p
  <2>. QED
    BY <1>2, <2>2, <2>3
<1>7. ASSUME Stored(w, id)
      PROVE  Found(w, id)
  <2>1. PICK whole \in Names : file = Record(id, whole)
    BY <1>7 DEF Stored, Record, file
  <2>2. whole \in Seq(Field) /\ Len(file) <= ReadCap /\ dirs[<<w, id>>].script
    BY <1>7, CallAssumption DEF Stored, Field, file
  <2>3. Record(id, whole) \in Seq(Field) /\ Len(Record(id, whole)) \in Nat
    BY <1>1, <2>2, RecordIs, LenProperties
  <2>4. /\ Len(Record(id, whole)) \in 0 .. Len(Record(id, whole))
        /\ file = SubSeq(Record(id, whole), 1, Len(Record(id, whole)))
    BY <2>1, <2>3, SubSeqFull
  <2>5. Parsed(p)
    BY <1>1, <1>4, <2>1, <2>2, <2>4, RecordReadIs
  <2>. QED
    BY <2>2, <2>5 DEF Found, RecordRead, p
<1>. QED
  BY <1>1, <1>6, <1>7 DEF p

\* The ids of the tasks found below n, in order.
AreFound(ids, R, n) ==
    /\ ids \in Seq(Nat)
    /\ \A i \in 1 .. Len(ids) : ids[i] \in 0 .. (n - 1) /\ ids[i] \in R
    /\ \A i, j \in 1 .. Len(ids) : i < j => ids[i] < ids[j]
    /\ \A id \in 0 .. (n - 1) : id \in R => \E i \in 1 .. Len(ids) : ids[i] = id

LEMMA FoundOn ==
    ASSUME NEW ids, NEW R, NEW n \in Nat, AreFound(ids, R, n)
    PROVE  AreFound(IF n \in R THEN Append(ids, n) ELSE ids, R, n + 1)
<1>1. ids \in Seq(Nat) /\ Len(ids) \in Nat
  BY LenProperties DEF AreFound
<1>2. CASE n \notin R
  <2>1. \A i \in 1 .. Len(ids) : ids[i] \in 0 .. ((n + 1) - 1) /\ ids[i] \in R
    BY DEF AreFound
  <2>2. \A id \in 0 .. ((n + 1) - 1) : id \in R => \E i \in 1 .. Len(ids) : ids[i] = id
    <3> TAKE id \in 0 .. ((n + 1) - 1)
    <3> HAVE id \in R
    <3>1. id \in 0 .. (n - 1)
      BY <1>2
    <3>. QED
      BY <3>1 DEF AreFound
  <2>3. \A i, j \in 1 .. Len(ids) : i < j => ids[i] < ids[j]
    BY DEF AreFound
  <2>4. AreFound(ids, R, n + 1)
    BY <1>1, <2>1, <2>2, <2>3 DEF AreFound
  <2>. QED
    BY <1>2, <2>4
<1>3. CASE n \in R
  <2> DEFINE more == Append(ids, n)
             N == Len(ids)
  <2>1. more \in Seq(Nat) /\ Len(more) = N + 1
    BY <1>1, AppendProperties
  <2>2. \A i \in 1 .. N : more[i] = ids[i]
    BY <1>1, AppendProperties
  <2>3. more[N + 1] = n
    BY <1>1, AppendProperties
  <2>4. /\ \A i \in 1 .. N : ids[i] \in 0 .. (n - 1) /\ ids[i] \in R
        /\ \A i, j \in 1 .. N : i < j => ids[i] < ids[j]
        /\ \A id \in 0 .. (n - 1) : id \in R => \E i \in 1 .. N : ids[i] = id
    BY DEF AreFound
  <2> HIDE DEF more, N
  <2>5. N \in Nat
    BY <1>1 DEF N
  <2>6. \A i \in 1 .. (N + 1) : more[i] \in 0 .. ((n + 1) - 1) /\ more[i] \in R
    <3> TAKE i \in 1 .. (N + 1)
    <3>1. CASE i \in 1 .. N
      BY <2>2, <2>4, <3>1
    <3>2. CASE i = N + 1
      BY <1>3, <2>3, <3>2
    <3>. QED
      BY <2>5, <3>1, <3>2
  <2>7. \A i, j \in 1 .. (N + 1) : i < j => more[i] < more[j]
    <3> TAKE i, j \in 1 .. (N + 1)
    <3> HAVE i < j
    <3>1. i \in 1 .. N
      BY <2>5
    <3>2. CASE j \in 1 .. N
      BY <2>2, <2>4, <3>1, <3>2
    <3>3. CASE j = N + 1
      <4>1. more[i] \in 0 .. (n - 1)
        BY <2>2, <2>4, <3>1
      <4>. QED
        BY <2>3, <3>3, <4>1
    <3>. QED
      BY <2>5, <3>2, <3>3
  <2>8. \A id \in 0 .. ((n + 1) - 1) : id \in R => \E i \in 1 .. (N + 1) : more[i] = id
    <3> TAKE id \in 0 .. ((n + 1) - 1)
    <3> HAVE id \in R
    <3>1. CASE id = n
      <4>1. N + 1 \in 1 .. (N + 1)
        BY <2>5
      <4>. QED
        BY <2>3, <3>1, <4>1
    <3>2. CASE id # n
      <4>1. id \in 0 .. (n - 1)
        BY <3>2
      <4>2. PICK i \in 1 .. N : ids[i] = id
        BY <2>4, <4>1
      <4>3. i \in 1 .. (N + 1)
        BY <2>5
      <4>. QED
        BY <2>2, <4>2, <4>3
    <3>. QED
      BY <3>1, <3>2
  <2>9. AreFound(more, R, n + 1)
    BY <2>1, <2>6, <2>7, <2>8 DEF AreFound
  <2>. QED
    BY <1>3, <2>9 DEF more
<1>. QED
  BY <1>2, <1>3

-----------------------------------------------------------------------------

\* The ids TaskList goes by.

IsFoundIds(w, ids) ==
    ids = [n \in 0 .. config[w] |->
             IF n = 0 THEN <<>>
             ELSE IF Found(w, n - 1) THEN Append(ids[n - 1], n - 1) ELSE ids[n - 1]]

LEMMA FoundIdsUnfold ==
    ASSUME NEW w, config[w] \in Nat
    PROVE  /\ FoundIds(w)[0] = <<>>
           /\ \A n \in 1 .. config[w] :
                 FoundIds(w)[n] = IF Found(w, n - 1) THEN Append(FoundIds(w)[n - 1], n - 1)
                                  ELSE FoundIds(w)[n - 1]
<1> DEFINE N == config[w]
           X == Seq(Nat)
           F == [n \in Nat |-> [x \in X |->
                   IF n \in 1 .. N /\ Found(w, n - 1) THEN Append(x, n - 1) ELSE x]]
<1>1. N \in Nat /\ <<>> \in X
  BY EmptySeq
<1>2. F \in [Nat -> [X -> X]]
  <2>1. \A n \in 1 .. N : \A x \in X : Append(x, n - 1) \in X
    <3> TAKE n \in 1 .. N
    <3> TAKE x \in X
    <3>1. n - 1 \in Nat
      BY <1>1
    <3>. QED
      BY <3>1, AppendProperties
  <2> HIDE DEF X, N
  <2>. QED
    BY <2>1
<1> HIDE DEF X
<1>3. PICK g \in [0 .. N -> X] : IsRecursion(g, <<>>, F, N)
  <2> HIDE DEF F, N
  <2>. QED
    BY <1>1, <1>2, RecursiveFunctionExists
<1>4. IsFoundIds(w, g)
  <2> DEFINE E(n) == IF n = 0 THEN <<>>
                     ELSE IF Found(w, n - 1) THEN Append(g[n - 1], n - 1) ELSE g[n - 1]
  <2> HIDE DEF N
  <2>1. \A n \in 1 .. N : F[n][g[n - 1]] = IF Found(w, n - 1) THEN Append(g[n - 1], n - 1) ELSE g[n - 1]
    <3> TAKE n \in 1 .. N
    <3>1. n - 1 \in 0 .. N /\ n \in Nat
      BY <1>1
    <3>2. g[n - 1] \in X
      BY <3>1
    <3>. QED
      BY <3>1, <3>2
  <2> HIDE DEF F
  <2>2. \A n \in 0 .. N : g[n] = IF n = 0 THEN <<>> ELSE F[n][g[n - 1]]
    BY <1>3 DEF IsRecursion
  <2>3. \A n \in 0 .. N : g[n] = E(n)
    <3> TAKE n \in 0 .. N
    <3>1. CASE n = 0
      BY <2>2, <3>1
    <3>2. CASE n # 0
      <4>1. n \in 1 .. N
        BY <1>1, <3>2
      <4>. QED
        BY <2>1, <2>2, <3>2, <4>1
    <3>. QED
      BY <3>1, <3>2
  <2>4. g = [n \in 0 .. N |-> E(n)]
    <3> HIDE DEF E
    <3>. QED
      BY <2>3
  <2>. QED
    BY <2>4 DEF IsFoundIds, N
<1> DEFINE f == CHOOSE f : IsFoundIds(w, f)
<1>5. IsFoundIds(w, f)
  BY <1>4
<1>6. FoundIds(w) = f
  BY DEF FoundIds, IsFoundIds
<1> HIDE DEF f
<1>7. \A n \in 0 .. N : f[n] = IF n = 0 THEN <<>>
                               ELSE IF Found(w, n - 1) THEN Append(f[n - 1], n - 1) ELSE f[n - 1]
  BY <1>5 DEF IsFoundIds
<1>8. \A n \in 1 .. N : n \in 0 .. N /\ n # 0
  BY <1>1
<1>. QED
  BY <1>1, <1>6, <1>7, <1>8

LEMMA FoundIdsAre ==
    ASSUME NEW w, config[w] \in Nat
    PROVE  AreFound(FoundIds(w)[config[w]], {id \in Nat : Found(w, id)}, config[w])
<1> DEFINE N == config[w]
           R == {id \in Nat : Found(w, id)}
           ids == FoundIds(w)
           S == {n \in 0 .. N : AreFound(ids[n], R, n)}
<1>1. /\ N \in Nat /\ ids[0] = <<>>
      /\ \A n \in 1 .. N : ids[n] = IF Found(w, n - 1) THEN Append(ids[n - 1], n - 1) ELSE ids[n - 1]
  BY FoundIdsUnfold
<1> HIDE DEF ids, N
<1>2. 0 \in S
  <2>1. <<>> \in Seq(Nat) /\ Len(<<>>) = 0
    BY EmptySeq
  <2>2. AreFound(<<>>, R, 0)
    BY <2>1 DEF AreFound
  <2>. QED
    BY <1>1, <2>2
<1>3. \A n \in 0 .. (N - 1) : n \in S => n + 1 \in S
  <2> TAKE n \in 0 .. (N - 1)
  <2> HAVE n \in S
  <2>1. AreFound(ids[n], R, n) /\ n \in Nat
    BY <1>1
  <2>2. n + 1 \in 1 .. N /\ (n + 1) - 1 = n /\ n + 1 \in 0 .. N
    BY <1>1
  <2>3. ids[n + 1] = IF Found(w, n) THEN Append(ids[n], n) ELSE ids[n]
    BY <1>1, <2>2
  <2>4. n \in R <=> Found(w, n)
    BY <2>1
  <2> HIDE DEF R
  <2>5. AreFound(IF n \in R THEN Append(ids[n], n) ELSE ids[n], R, n + 1)
    BY <2>1, FoundOn
  <2>6. AreFound(ids[n + 1], R, n + 1)
    BY <2>3, <2>4, <2>5
  <2>. QED
    BY <2>2, <2>6
<1>4. 0 .. N \subseteq S
  <2> HIDE DEF S
  <2>. QED
    BY <1>1, <1>2, <1>3, InductionUpTo
<1>5. N \in 0 .. N
  BY <1>1
<1>. QED
  BY <1>4, <1>5 DEF N, ids

-----------------------------------------------------------------------------

\* Each endpoint answers.

LEMMA RespondsWith ==
    ASSUME CallInv, NEW c \in Clients, NEW id \in Registered, Dispatched(c, id),
           NEW code \in OK .. INTERNAL_ENDPOINT_ERROR, NEW v, Fits(ResponseShape(id), v),
           RespondWith(c, code, v), DiskKept, code = OK => Tells(given', call[c], v)
    PROVE  Answer(c)
<1>1. pc[c] = "sent" /\ call[c].id = id /\ EndpointId(c) = id
  BY DispatchedIs
<1> DEFINE body == PushAll(ResponseShape(id), v)
<1>2. body \in Seq(Field)
  BY PushAllTyped
<1>3. Respond(c, code, body, v)
  BY <1>1 DEF RespondWith
<1>4. Known(code, body, call[c], given', v)
  BY <1>1 DEF Known
<1> HIDE DEF body
<1>. QED
  BY <1>1, <1>2, <1>3, <1>4 DEF Answer

\* An endpoint that leaves the disk as it is, or adds a directory, or takes from one.

LEMMA DiskStays == ASSUME CallInv, UNCHANGED disk PROVE DiskKept
<1>1. config' = config /\ given' = given /\ dirs' = dirs /\ Keeps(config, given, dirs)
  BY DEF disk, CallInv
<1>. QED
  BY <1>1 DEF DiskKept

\* A config is as it was, or is beyond the directory that was made.
LEMMA MakeKeeps ==
    ASSUME CallInv, NEW w \in Workspaces, config[w] \in Field,
           NEW name \in Seq(Field), NEW script, NEW n \in 0 .. Len(Record(config[w], name)),
           Make(w, config[w], name, script, n),
           config' \in [Workspaces -> Field \cup {Blank}],
           \A v \in Workspaces : config'[v] # Blank => config[v] # Blank /\ config[v] <= config'[v]
    PROVE  DiskKept
<1> DEFINE id == config[w]
           dir == [script |-> script, record |-> SubSeq(Record(id, name), 1, n)]
<1>1. /\ dirs' = [k \in DOMAIN dirs \cup {<<w, id>>} |-> IF k = <<w, id>> THEN dir ELSE dirs[k]]
      /\ given' = given \cup {<<w, id, name>>}
  BY DEF Make, Put, Record
<1>2. Keeps(config, given, dirs) /\ id \in Field
  BY DEF CallInv
<1>3. dir.record = SubSeq(Record(id, name), 1, n)
  OBVIOUS
<1> HIDE DEF dir
<1>4. IsDir(config', given', dir, w, id)
  <2>1. config'[w] # Blank => id <= config'[w]
    OBVIOUS
  <2>2. <<w, id, name>> \in given' /\ n \in 0 .. Len(Record(id, name))
    BY <1>1
  <2> HIDE DEF id
  <2>. QED
    BY <1>3, <2>1, <2>2 DEF IsDir
<1>5. \A key \in DOMAIN dirs' : \E v \in Workspaces : \E k \in Field :
         key = <<v, k>> /\ IsDir(config', given', dirs'[key], v, k)
  <2> SUFFICES ASSUME NEW key \in DOMAIN dirs'
               PROVE  \E v \in Workspaces : \E k \in Field :
                         key = <<v, k>> /\ IsDir(config', given', dirs'[key], v, k)
    OBVIOUS
  <2> HIDE DEF id
  <2>1. CASE key = <<w, id>>
    <3>1. dirs'[key] = dir
      BY <1>1, <2>1
    <3>. QED
      BY <1>2, <1>4, <2>1, <3>1
  <2>2. CASE key # <<w, id>>
    <3>1. key \in DOMAIN dirs /\ dirs'[key] = dirs[key]
      BY <1>1, <2>2
    <3>2. PICK v \in Workspaces, k \in Field : key = <<v, k>> /\ IsDir(config, given, dirs[key], v, k)
      BY <1>2, <3>1 DEF Keeps
    <3>3. config'[v] # Blank => k <= config'[v]
      <4>1. config'[v] # Blank => config[v] # Blank /\ config[v] <= config'[v] /\ k <= config[v]
        BY <3>2 DEF IsDir
      <4>2. config[v] \in Field \cup {Blank} /\ config'[v] \in Field \cup {Blank}
        BY <1>2 DEF Keeps
      <4>. QED
        BY <4>1, <4>2 DEF Field
    <3>4. IsDir(config', given', dirs[key], v, k)
      BY <1>1, <3>2, <3>3 DEF IsDir
    <3>. QED
      BY <3>1, <3>2, <3>4
  <2>. QED
    BY <2>1, <2>2
<1>. QED
  BY <1>1, <1>5 DEF DiskKept, Keeps

LEMMA TakeKeeps ==
    ASSUME CallInv, config' = config, given' = given, DOMAIN dirs' \subseteq DOMAIN dirs,
           \A key \in DOMAIN dirs' : dirs'[key].record \in {dirs[key].record, <<>>}
    PROVE  DiskKept
<1>1. Keeps(config, given, dirs)
  BY DEF CallInv
<1>2. \A key \in DOMAIN dirs' : \E w \in Workspaces : \E id \in Field :
         key = <<w, id>> /\ IsDir(config, given, dirs'[key], w, id)
  <2> TAKE key \in DOMAIN dirs'
  <2>1. PICK w \in Workspaces, id \in Field : key = <<w, id>> /\ IsDir(config, given, dirs[key], w, id)
    BY <1>1 DEF Keeps
  <2>2. PICK name \in Seq(Field) :
           /\ <<w, id, name>> \in given
           /\ \E n \in 0 .. Len(Record(id, name)) : dirs[key].record = SubSeq(Record(id, name), 1, n)
    BY <2>1 DEF IsDir
  <2>3. \E n \in 0 .. Len(Record(id, name)) : dirs'[key].record = SubSeq(Record(id, name), 1, n)
    <3>1. Record(id, name) \in Seq(Field) /\ Len(Record(id, name)) \in Nat
      BY RecordIs, LenProperties
    <3>2. 0 \in 0 .. Len(Record(id, name)) /\ SubSeq(Record(id, name), 1, 0) = <<>>
      BY <3>1, SubSeqEmpty
    <3>. QED
      BY <2>2, <3>2
  <2>4. IsDir(config, given, dirs'[key], w, id)
    BY <2>1, <2>2, <2>3 DEF IsDir
  <2>. QED
    BY <2>1, <2>4
<1>. QED
  BY <1>1, <1>2 DEF DiskKept, Keeps

LEMMA HealthCheckAnswers == ASSUME CallInv, NEW c \in Clients, HealthCheck(c) PROVE Answer(c)
<1> DEFINE id == HEALTH_CHECK
<1>1. id \in Registered /\ Dispatched(c, id) /\ RespondWith(c, OK, <<>>) /\ DiskKept
  BY DiskStays DEF HealthCheck, Registered
<1>2. Fits(ResponseShape(id), <<>>)
  BY ShapesAre, FitsNone
<1>3. call[c].id = id
  BY <1>1, DispatchedIs
<1>4. Tells(given', call[c], <<>>)
  BY <1>3 DEF Tells
<1>5. OK \in OK .. INTERNAL_ENDPOINT_ERROR
  BY DEF OK, INTERNAL_ENDPOINT_ERROR
<1> HIDE DEF id
<1>. QED
  BY <1>1, <1>2, <1>4, <1>5, RespondsWith

\* What a refusal is answered with is no value.
LEMMA FailsWith ==
    ASSUME CallInv, NEW c \in Clients, NEW id \in Registered, Dispatched(c, id),
           NEW v, Fits(ResponseShape(id), v),
           RespondWith(c, INTERNAL_ENDPOINT_ERROR, v), DiskKept
    PROVE  Answer(c)
<1>2. INTERNAL_ENDPOINT_ERROR \in OK .. INTERNAL_ENDPOINT_ERROR /\ INTERNAL_ENDPOINT_ERROR # OK
  BY DEF OK, INTERNAL_ENDPOINT_ERROR
<1>. QED
  BY <1>2, RespondsWith

LEMMA OneNumber == ASSUME NEW n \in Field PROVE Fits(<<"U64">>, <<n>>)
  BY TypesAre, FitsOne

LEMMA ConfigIs ==
    ASSUME CallInv, NEW w \in Workspaces, config[w] # Blank
    PROVE  config[w] \in Field
  BY DEF CallInv, Keeps

LEMMA NewParams ==
    ASSUME CallInv, NEW c \in Clients, Dispatched(c, TASK_NEW)
    PROVE  /\ call[c].id = TASK_NEW /\ Param(c, 2) \in Seq(Field)
           /\ Param(c, 1) = call[c].values[1] /\ Param(c, 2) = call[c].values[2]
<1>1. TASK_NEW \in Registered /\ RequestShape(TASK_NEW) = <<"U64", "STR">>
  BY ShapesAre DEF Registered
<1>2. /\ call[c].id = TASK_NEW /\ Param(c, 2) \in ValueOf("STR")
      /\ Param(c, 1) = call[c].values[1] /\ Param(c, 2) = call[c].values[2]
  BY <1>1, TwoParams
<1>. QED
  BY <1>2, TypesAre

LEMMA TaskNewFailsAnswers == ASSUME CallInv, NEW c \in Clients, TaskNewFails(c) PROVE Answer(c)
<1> DEFINE w == Param(c, 1)
           name == Param(c, 2)
<1>1. TASK_NEW \in Registered /\ Dispatched(c, TASK_NEW)
  BY DEF TaskNewFails, Registered
<1>2. name \in Seq(Field)
  BY <1>1, NewParams
<1>3. \E id \in Field : RespondWith(c, INTERNAL_ENDPOINT_ERROR, <<id>>)
  <2>1. CASE \E id \in Uninitialised : RespondWith(c, INTERNAL_ENDPOINT_ERROR, <<id>>)
    BY <2>1 DEF Uninitialised, Field
  <2>2. CASE w \in Workspaces /\ config[w] # Blank /\ RespondWith(c, INTERNAL_ENDPOINT_ERROR, <<config[w]>>)
    BY <2>2, ConfigIs
  <2>. QED
    BY <2>1, <2>2 DEF TaskNewFails
<1>4. DiskKept
  <2>1. CASE UNCHANGED disk
    BY <2>1, DiskStays
  <2>2. ASSUME w \in Workspaces, config[w] # Blank, config' = config,
               NEW script, NEW n \in 0 .. Len(Record(config[w], name)),
               Make(w, config[w], name, script, n)
        PROVE  DiskKept
    <3>1. config[w] \in Field /\ config \in [Workspaces -> Field \cup {Blank}]
      BY <2>2, ConfigIs DEF CallInv, Keeps
    <3>2. \A v \in Workspaces : config'[v] # Blank => config[v] # Blank /\ config[v] <= config'[v]
      BY <2>2, <3>1 DEF Field
    <3> HIDE DEF w, name
    <3>. QED
      BY <1>2, <2>2, <3>1, <3>2, MakeKeeps
  <2>3. ASSUME w \in Workspaces, config[w] # Blank
        PROVE  0 \in 0 .. Len(Record(config[w], name))
    <3>1. Record(config[w], name) \in Seq(Field)
      BY <1>2, <2>3, ConfigIs, RecordIs
    <3>. QED
      BY <3>1, LenProperties
  <2>4. \/ UNCHANGED disk
        \/ /\ w \in Workspaces /\ config[w] # Blank /\ config' = config
           /\ \/ Make(w, config[w], name, FALSE, 0)
              \/ \E n \in 0 .. Len(Record(config[w], name)) : Make(w, config[w], name, TRUE, n)
    BY DEF TaskNewFails, disk, RecordLen, Record
  <2> HIDE DEF w, name
  <2>. QED
    BY <2>1, <2>2, <2>3, <2>4
<1>5. PICK id \in Field : RespondWith(c, INTERNAL_ENDPOINT_ERROR, <<id>>)
  BY <1>3
<1>6. Fits(ResponseShape(TASK_NEW), <<id>>)
  BY OneNumber, ShapesAre
<1>. QED
  BY <1>1, <1>4, <1>5, <1>6, FailsWith

LEMMA TaskNewAnswers ==
    ASSUME CallInv, NEW c \in Clients, TaskNew(c)
    PROVE  Answer(c)
<1> DEFINE w == Param(c, 1)
           id == config[w]
           name == Param(c, 2)
<1>1. TASK_NEW \in Registered /\ Dispatched(c, TASK_NEW) /\ RespondWith(c, OK, <<id>>)
  BY DEF TaskNew, Registered
<1>2. /\ call[c].id = TASK_NEW /\ name \in Seq(Field)
      /\ w = call[c].values[1] /\ name = call[c].values[2]
  BY <1>1, NewParams
<1>3. w \in Workspaces /\ id # Blank /\ id \in Field
  BY ConfigIs DEF TaskNew
<1>4. PICK n \in 0 .. Len(Record(id, name)) : Make(w, id, name, TRUE, n)
  BY DEF TaskNew, RecordLen, Record
<1>5. PICK next \in {id + 1, Blank} : config' = [config EXCEPT ![w] = next]
  BY DEF TaskNew
<1>6. config \in [Workspaces -> Field \cup {Blank}] /\ Blank \notin Field
  BY DEF CallInv, Keeps, Blank, Field
<1>7. config' \in [Workspaces -> Field \cup {Blank}]
  <2> HIDE DEF w
  <2>. QED
    BY <1>3, <1>5, <1>6 DEF Field
<1>8. \A v \in Workspaces : config'[v] # Blank => config[v] # Blank /\ config[v] <= config'[v]
  <2> TAKE v \in Workspaces
  <2>1. config[v] \in Field \cup {Blank}
    BY <1>6
  <2>2. CASE v = w
    <3>1. config'[v] = next /\ config[v] = id
      BY <1>3, <1>5, <1>6, <2>2
    <3> HIDE DEF id, w
    <3>. QED
      BY <1>3, <3>1 DEF Field
  <2>3. CASE v # w
    <3>1. config'[v] = config[v]
      BY <1>3, <1>5, <1>6, <2>3
    <3>. QED
      BY <2>1, <3>1 DEF Field
  <2>. QED
    BY <2>2, <2>3
<1>9. DiskKept
  <2> HIDE DEF w, name
  <2>. QED
    BY <1>2, <1>3, <1>4, <1>7, <1>8, MakeKeeps
<1>10. Fits(ResponseShape(TASK_NEW), <<id>>)
  BY <1>3, OneNumber, ShapesAre
<1>11. Tells(given', call[c], <<id>>)
  <2>1. <<w, id, name>> \in given'
    BY <1>4 DEF Make
  <2> HIDE DEF w, id, name
  <2>. QED
    BY <1>2, <2>1 DEF Tells
<1>12. OK \in OK .. INTERNAL_ENDPOINT_ERROR
  BY DEF OK, INTERNAL_ENDPOINT_ERROR
<1> HIDE DEF id, w, name
<1>. QED
  BY <1>1, <1>9, <1>10, <1>11, <1>12, RespondsWith

LEMMA TaskDeleteAnswers ==
    ASSUME CallInv, NEW c \in Clients, TaskDelete(c)
    PROVE  Answer(c)
<1> DEFINE id == Param(c, 2)
           key == <<Param(c, 1), id>>
<1>1. TASK_DELETE \in Registered /\ Dispatched(c, TASK_DELETE) /\ config' = config /\ given' = given
  BY DEF TaskDelete, Registered
<1>2. call[c].id = TASK_DELETE /\ id \in Field
  <2>1. RequestShape(TASK_DELETE) = <<"U64", "U64">>
    BY ShapesAre
  <2>. QED
    BY <1>1, <2>1, TwoParams, TypesAre
<1>3. ResponseShape(TASK_DELETE) = <<"U64">>
  BY ShapesAre
<1>4. CASE /\ key \in DOMAIN dirs
           /\ dirs' = [k \in DOMAIN dirs \ {key} |-> dirs[k]]
           /\ RespondWith(c, OK, <<id>>)
  <2>1. DOMAIN dirs' \subseteq DOMAIN dirs /\ \A k \in DOMAIN dirs' : dirs'[k] = dirs[k]
    <3> HIDE DEF key
    <3>. QED
      BY <1>4
  <2>2. DiskKept
    BY <1>1, <2>1, TakeKeeps
  <2>3. Fits(ResponseShape(TASK_DELETE), <<id>>)
    BY <1>2, <1>3, OneNumber
  <2>4. Tells(given', call[c], <<id>>)
    BY <1>2 DEF Tells
  <2>5. OK \in OK .. INTERNAL_ENDPOINT_ERROR
    BY DEF OK, INTERNAL_ENDPOINT_ERROR
  <2> HIDE DEF id
  <2>. QED
    BY <1>1, <1>4, <2>2, <2>3, <2>4, <2>5, RespondsWith
<1>5. CASE /\ \/ UNCHANGED dirs
              \/ /\ key \in DOMAIN dirs
                 /\ \E script \in {dirs[key].script, FALSE}, record \in {dirs[key].record, <<>>} :
                       Put(key, [script |-> script, record |-> record])
           /\ \E k \in Uninitialised : RespondWith(c, INTERNAL_ENDPOINT_ERROR, <<k>>)
  <2>1. DOMAIN dirs' \subseteq DOMAIN dirs /\ \A k \in DOMAIN dirs' : dirs'[k].record \in {dirs[k].record, <<>>}
    <3> HIDE DEF key
    <3>1. CASE UNCHANGED dirs
      BY <3>1
    <3>2. ASSUME key \in DOMAIN dirs, NEW script, NEW record \in {dirs[key].record, <<>>},
                 Put(key, [script |-> script, record |-> record])
          PROVE  DOMAIN dirs' \subseteq DOMAIN dirs /\ \A k \in DOMAIN dirs' : dirs'[k].record \in {dirs[k].record, <<>>}
      <4> DEFINE dir == [script |-> script, record |-> record]
      <4>1. dirs' = [k \in DOMAIN dirs \cup {key} |-> IF k = key THEN dir ELSE dirs[k]]
        BY <3>2 DEF Put
      <4>2. dir.record \in {dirs[key].record, <<>>}
        BY <3>2
      <4> HIDE DEF dir
      <4>. QED
        BY <3>2, <4>1, <4>2
    <3>. QED
      BY <1>5, <3>1, <3>2
  <2>2. DiskKept
    BY <1>1, <2>1, TakeKeeps
  <2>3. PICK k \in Field : RespondWith(c, INTERNAL_ENDPOINT_ERROR, <<k>>)
    BY <1>5 DEF Uninitialised, Field
  <2>4. Fits(ResponseShape(TASK_DELETE), <<k>>)
    BY <1>3, OneNumber
  <2>. QED
    BY <1>1, <2>2, <2>3, <2>4, FailsWith
<1>. QED
  BY <1>4, <1>5 DEF TaskDelete

LEMMA AppendTwo == \A x : \A y : \A z : Append(<<x, y>>, z) = <<x, y, z>>
<1> SUFFICES ASSUME NEW x, NEW y, NEW z PROVE Append(<<x, y>>, z) = <<x, y, z>>
  OBVIOUS
<1> DEFINE X == {x, y, z}
           two == <<x, y>>
           three == <<x, y, z>>
           more == Append(two, z)
<1>1. two \in Seq(X) /\ Len(two) = 2 /\ two[1] = x /\ two[2] = y
  OBVIOUS
<1>2. three \in Seq(X) /\ Len(three) = 3 /\ three[1] = x /\ three[2] = y /\ three[3] = z
  OBVIOUS
<1>3. z \in X
  OBVIOUS
<1> HIDE DEF two, three, X
<1>4. more \in Seq(X) /\ Len(more) = 3 /\ more[1] = x /\ more[2] = y /\ more[3] = z
  <2>1. more \in Seq(X) /\ Len(more) = Len(two) + 1
    BY <1>1, <1>3, AppendProperties
  <2>2. \A i \in 1 .. Len(two) : more[i] = two[i]
    <3>1. two \in Seq(X)
      BY <1>1
    <3> TAKE i \in 1 .. Len(two)
    <3>. QED
      BY <1>3, <3>1, AppendProperties
  <2>3. more[Len(two) + 1] = z
    BY <1>1, <1>3, AppendProperties
  <2> HIDE DEF more
  <2>. QED
    BY <1>1, <2>1, <2>2, <2>3
<1> HIDE DEF more
<1>5. more = three
  <2>1. Len(more) = Len(three) /\ \A i \in 1 .. Len(more) : more[i] = three[i]
    BY <1>2, <1>4
  <2>. QED
    BY <1>2, <1>4, <2>1, SeqEqual
<1>. QED
  BY <1>5 DEF more, two, three

LEMMA GetParams ==
    ASSUME CallInv, NEW c \in Clients, Dispatched(c, TASK_GET)
    PROVE  /\ call[c].id = TASK_GET /\ Param(c, 1) \in Field /\ Param(c, 2) \in Field
           /\ Param(c, 1) = call[c].values[1] /\ Param(c, 2) = call[c].values[2]
<1>1. TASK_GET \in Registered /\ RequestShape(TASK_GET) = <<"U64", "U64">>
  BY ShapesAre DEF Registered
<1>. QED
  BY <1>1, TwoParams, TypesAre

LEMMA PathIs == ASSUME NEW w \in Field, NEW id \in Field PROVE PathOf(w, id) \in Seq(Field)
  BY DEF PathOf

LEMMA TaskGetAnswers ==
    ASSUME CallInv, NEW c \in Clients, TaskGet(c)
    PROVE  Answer(c)
<1> DEFINE w == Param(c, 1)
           id == Param(c, 2)
           found == w \in Workspaces /\ Found(w, id)
<1>1. TASK_GET \in Registered /\ Dispatched(c, TASK_GET) /\ UNCHANGED disk
  BY DEF TaskGet, Registered
<1>2. Keeps(config, given, dirs) /\ DiskKept
  BY <1>1, DiskStays DEF CallInv
<1>3. /\ w \in Field /\ id \in Field /\ call[c].id = TASK_GET
      /\ w = call[c].values[1] /\ id = call[c].values[2]
  BY <1>1, GetParams
<1>4. CASE ~found
  <2>1. RespondWith(c, INTERNAL_ENDPOINT_ERROR, <<0, <<>>, <<>>>>)
    BY <1>4 DEF TaskGet
  <2>2. 0 \in Field /\ <<>> \in Seq(Field)
    BY EmptySeq DEF Field
  <2>3. Fits(<<"U64", "STR", "STR">>, <<0, <<>>, <<>>>>)
    BY <2>2, TypesAre, FitsThree
  <2>4. Fits(ResponseShape(TASK_GET), <<0, <<>>, <<>>>>)
    BY <2>3, ShapesAre
  <2>. QED
    BY <1>1, <1>2, <2>1, <2>4, FailsWith
<1>5. CASE found
  <2> DEFINE name == NameIn(w, id)
             path == PathOf(w, id)
             v == <<id, name, path>>
  <2>1. Found(w, id) /\ <<w, id>> \in DOMAIN dirs
    BY <1>5 DEF Found
  <2>2. name \in Seq(Field) /\ ReadRecord(w, id).values = <<id, name>> /\ <<w, id, name>> \in given
    <3> HIDE DEF w, id
    <3>. QED
      BY <1>2, <2>1, ReadRecordIs
  <2>3. RespondWith(c, OK, Append(ReadRecord(w, id).values, path))
    BY <1>5 DEF TaskGet
  <2>4. path \in Seq(Field)
    <3> HIDE DEF w, id
    <3>. QED
      BY <1>3, PathIs
  <2>5. RespondWith(c, OK, v)
    <3> HIDE DEF w, id, name, path
    <3>1. Append(<<id, name>>, path) = <<id, name, path>>
      BY AppendTwo, Zenon
    <3>2. ReadRecord(w, id).values = <<id, name>>
      BY <2>2
    <3>. QED
      BY <2>3, <3>1, <3>2
  <2>6. Fits(ResponseShape(TASK_GET), v)
    <3>1. Fits(<<"U64", "STR", "STR">>, v)
      <4> HIDE DEF id, name, path
      <4>. QED
        BY <1>3, <2>2, <2>4, TypesAre, FitsThree
    <3>. QED
      BY <3>1, ShapesAre
  <2>7. Tells(given', call[c], v)
    <3>1. given' = given
      BY <1>1 DEF disk
    <3>2. IsTask(given, w, id, name, path)
      BY <2>2 DEF IsTask
    <3> HIDE DEF w, id, name, path
    <3>3. v[1] = id /\ v[2] = name /\ v[3] = path
      OBVIOUS
    <3> HIDE DEF v
    <3>. QED
      BY <1>3, <3>1, <3>2, <3>3 DEF Tells
  <2>8. OK \in OK .. INTERNAL_ENDPOINT_ERROR
    BY DEF OK, INTERNAL_ENDPOINT_ERROR
  <2> HIDE DEF v
  <2>. QED
    BY <1>1, <1>2, <2>5, <2>6, <2>7, <2>8, RespondsWith
<1>. QED
  BY <1>4, <1>5

-----------------------------------------------------------------------------

LEMMA RefuseAnswers == ASSUME CallInv, NEW c \in Clients, Refuse(c) PROVE Answer(c)
<1>1. PICK code \in {INVALID_ENDPOINT_ID, ENDPOINT_NOT_INITIALIZED, FAILED_TO_PARSE_REQUEST} :
         Respond(c, code, <<>>, <<>>)
  BY DEF Refuse
<1>2. pc[c] = "sent" /\ DiskKept
  BY DiskStays DEF Refuse
<1>3. code \in OK .. INTERNAL_ENDPOINT_ERROR /\ code # OK
  BY DEF INVALID_ENDPOINT_ID, ENDPOINT_NOT_INITIALIZED, FAILED_TO_PARSE_REQUEST, OK, INTERNAL_ENDPOINT_ERROR
<1>4. <<>> \in Seq(Field) /\ Known(code, <<>>, call[c], given', <<>>)
  BY <1>3, EmptySeq DEF Known
<1>. QED
  BY <1>1, <1>2, <1>3, <1>4 DEF Answer

\* The rows of a list of functions of the ids.
LEMMA RowIs ==
    ASSUME NEW ids \in Seq(Nat), NEW X, NEW row, DOMAIN row = DOMAIN ids,
           row = [i \in DOMAIN ids |-> row[i]],
           \A i \in 1 .. Len(ids) : row[i] \in X
    PROVE  row \in Seq(X) /\ Len(row) = Len(ids)
<1>1. Len(ids) \in Nat /\ DOMAIN ids = 1 .. Len(ids)
  BY LenProperties
<1>2. row \in [1 .. Len(ids) -> X]
  BY <1>1
<1>3. row \in Seq(X)
  BY <1>1, <1>2, IsASeq
<1>4. Len(row) \in Nat /\ DOMAIN row = 1 .. Len(row)
  BY <1>3, LenProperties
<1>. QED
  BY <1>1, <1>3, <1>4

LEMMA TaskListAnswers ==
    ASSUME CallInv, NEW c \in Clients, TaskList(c)
    PROVE  Answer(c)
<1> DEFINE w == Param(c, 1)
           ids == FoundIds(w)[config[w]]
           N == config[w]
           a == [i \in DOMAIN ids |-> ReadRecord(w, ids[i]).values[1]]
           b == [i \in DOMAIN ids |-> ReadRecord(w, ids[i]).values[2]]
           p == [i \in DOMAIN ids |-> PathOf(w, ids[i])]
           v == <<a, b, p>>
<1>1. TASK_LIST \in Registered /\ Dispatched(c, TASK_LIST) /\ UNCHANGED disk
  BY DEF TaskList, Registered
<1>2. Keeps(config, given, dirs) /\ DiskKept
  BY <1>1, DiskStays DEF CallInv
<1>3. call[c].id = TASK_LIST /\ w = call[c].values[1]
  BY <1>1, DispatchedIs
<1>4. CASE RespondWith(c, INTERNAL_ENDPOINT_ERROR, <<<<>>, <<>>, <<>>>>)
  <2>2. <<>> \in Seq(Field) /\ <<>> \in Seq(Seq(Field))
    BY EmptySeq
  <2>3. Fits(<<"SLICE_U64", "SLICE_STR", "SLICE_STR">>, <<<<>>, <<>>, <<>>>>)
    BY <2>2, TypesAre, FitsThree
  <2>4. Fits(ResponseShape(TASK_LIST), <<<<>>, <<>>, <<>>>>)
    BY <2>3, ShapesAre
  <2>. QED
    BY <1>1, <1>2, <1>4, <2>4, FailsWith
<1>5. CASE w \in Workspaces /\ N # Blank /\ RespondWith(c, OK, v)
  <2>1. w \in Field /\ N \in Nat
    BY <1>5, NowhereIs, ConfigIs DEF Field
  <2>2. /\ ids \in Seq(Nat) /\ Len(ids) \in Nat /\ DOMAIN ids = 1 .. Len(ids)
        /\ \A i \in 1 .. Len(ids) : Found(w, ids[i])
        /\ \A i, j \in 1 .. Len(ids) : i < j => ids[i] < ids[j]
    <3>1. AreFound(ids, {id \in Nat : Found(w, id)}, N)
      <4> HIDE DEF w
      <4>. QED
        BY <2>1, FoundIdsAre
    <3> HIDE DEF ids, N, w
    <3>. QED
      BY <3>1, LenProperties DEF AreFound
  <2> HIDE DEF ids, N
  <2>3. \A i \in 1 .. Len(ids) :
           /\ a[i] = ids[i] /\ a[i] \in Field
           /\ <<w, ids[i], b[i]>> \in given /\ b[i] \in Seq(Field)
           /\ p[i] = PathOf(w, ids[i]) /\ p[i] \in Seq(Field)
    <3> TAKE i \in 1 .. Len(ids)
    <3> DEFINE id == ids[i]
    <3>1. Found(w, id) /\ <<w, id>> \in DOMAIN dirs
      BY <2>2 DEF Found
    <3>2. a[i] = ReadRecord(w, id).values[1] /\ b[i] = NameIn(w, id) /\ p[i] = PathOf(w, id)
      BY <2>2 DEF NameIn
    <3> HIDE DEF w, id, a, b, p
    <3>3. /\ ReadRecord(w, id).values = <<id, NameIn(w, id)>> /\ id \in Field
          /\ NameIn(w, id) \in Seq(Field) /\ <<w, id, NameIn(w, id)>> \in given
      BY <1>2, <3>1, ReadRecordIs
    <3>4. PathOf(w, id) \in Seq(Field)
      BY <2>1, <3>3, PathIs
    <3>5. a[i] = id
      BY <3>2, <3>3
    <3>. QED
      BY <3>2, <3>3, <3>4, <3>5 DEF id
  <2>4. /\ DOMAIN a = DOMAIN ids /\ a = [i \in DOMAIN ids |-> a[i]]
        /\ DOMAIN b = DOMAIN ids /\ b = [i \in DOMAIN ids |-> b[i]]
        /\ DOMAIN p = DOMAIN ids /\ p = [i \in DOMAIN ids |-> p[i]]
    OBVIOUS
  <2> HIDE DEF a, b, p
  <2>5. a \in Seq(Field) /\ Len(a) = Len(ids)
    BY <2>2, <2>3, <2>4, RowIs
  <2>6. b \in Seq(Seq(Field)) /\ Len(b) = Len(ids)
    BY <2>2, <2>3, <2>4, RowIs
  <2>7. p \in Seq(Seq(Field)) /\ Len(p) = Len(ids)
    BY <2>2, <2>3, <2>4, RowIs
  <2>8. Fits(ResponseShape(TASK_LIST), v)
    <3>1. Fits(<<"SLICE_U64", "SLICE_STR", "SLICE_STR">>, v)
      BY <2>5, <2>6, <2>7, TypesAre, FitsThree
    <3>. QED
      BY <3>1, ShapesAre
  <2>9. Tells(given', call[c], v)
    <3>1. \A i \in DOMAIN a : IsTask(given, w, a[i], b[i], p[i])
      <4> TAKE i \in DOMAIN a
      <4>1. i \in 1 .. Len(ids)
        BY <2>2, <2>4
      <4> HIDE DEF w
      <4>2. a[i] = ids[i] /\ <<w, ids[i], b[i]>> \in given /\ p[i] = PathOf(w, ids[i])
        BY <2>3, <4>1
      <4>. QED
        BY <4>2 DEF IsTask
    <3>2. \A i, j \in DOMAIN a : i < j => a[i] < a[j]
      BY <2>2, <2>3, <2>4
    <3>3. v[1] = a /\ v[2] = b /\ v[3] = p
      OBVIOUS
    <3> HIDE DEF v, w
    <3>4. given' = given
      BY <1>1 DEF disk
    <3>. QED
      BY <1>3, <2>5, <2>6, <2>7, <3>1, <3>2, <3>3, <3>4 DEF Tells
  <2>10. OK \in OK .. INTERNAL_ENDPOINT_ERROR
    BY DEF OK, INTERNAL_ENDPOINT_ERROR
  <2> HIDE DEF v
  <2>. QED
    BY <1>1, <1>2, <1>5, <2>8, <2>9, <2>10, RespondsWith
<1>. QED
  BY <1>4, <1>5 DEF TaskList

-----------------------------------------------------------------------------

\* What every step keeps of the tables.

ClientTyped(c) ==
    /\ pc[c] \in {"idle", "done"} => wire[c] = <<>>
    /\ IF pc[c] = "done" THEN result[c].code \in OK .. INTERNAL_ENDPOINT_ERROR
       ELSE result[c] = NoAnswer
    /\ c \in lost => pc[c] = "done"

Typed ==
    /\ pc \in [Clients -> {"idle", "sent", "answered", "done"}]
    /\ call \in [Clients -> Calls]
    /\ lost \subseteq Clients

DiskTyped(cf, ds) ==
    /\ cf \in [Workspaces -> Nat \cup {Blank}]
    /\ \A key \in DOMAIN ds : key[1] \in Workspaces /\ (cf[key[1]] # Blank => key[2] <= cf[key[1]])

LEMMA TypedIs ==
    TypeOK <=> Typed /\ DiskTyped(config, dirs) /\ \A c \in Clients : ClientTyped(c)
  BY DEF TypeOK, Typed, DiskTyped, ClientTyped

LEMMA DiskTypedIs == ASSUME NEW cf, NEW g, NEW ds, Keeps(cf, g, ds) PROVE DiskTyped(cf, ds)
<1>1. cf \in [Workspaces -> Nat \cup {Blank}]
  BY DEF Keeps, Field
<1>2. ASSUME NEW key \in DOMAIN ds
      PROVE  key[1] \in Workspaces /\ (cf[key[1]] # Blank => key[2] <= cf[key[1]])
  <2>1. PICK w \in Workspaces, id \in Field : key = <<w, id>> /\ IsDir(cf, g, ds[key], w, id)
    BY DEF Keeps
  <2>2. key[1] = w /\ key[2] = id
    BY <2>1
  <2>. QED
    BY <2>1, <2>2 DEF IsDir
<1>. QED
  BY <1>1, <1>2 DEF DiskTyped

LEMMA StepKeeps ==
    ASSUME CallInv, NEW c \in Clients, Others(c), Typed', Tables', ClientTyped(c)', ClientOK(c)',
           Keeps(config', given', dirs'), given \subseteq given'
    PROVE  CallInv'
<1>1. \A d \in Clients : ClientOK(d)'
  <2> TAKE d \in Clients
  <2>1. CASE d = c
    BY <2>1
  <2>2. CASE d # c
    BY <2>2, OthersStay DEF CallInv
  <2>. QED
    BY <2>1, <2>2
<1>2. \A d \in Clients : ClientTyped(d)'
  <2> TAKE d \in Clients
  <2>1. CASE d = c
    BY <2>1
  <2>2. CASE d # c
    <3>1. ClientTyped(d)
      BY TypedIs DEF CallInv
    <3>. QED
      BY <2>2, <3>1 DEF Others, ClientTyped
  <2>. QED
    BY <2>1, <2>2
<1>3. DiskTyped(config', dirs')
  BY DiskTypedIs
<1>4. TypeOK'
  BY <1>2, <1>3 DEF TypeOK, Typed, DiskTyped, ClientTyped
<1>. QED
  BY <1>1, <1>4 DEF CallInv, Keeps, IsDir, Record

LEMMA ExceptAt ==
    ASSUME NEW f, DOMAIN f = Clients, NEW c \in Clients, NEW x, NEW g, g = [f EXCEPT ![c] = x]
    PROVE  g[c] = x /\ DOMAIN g = Clients /\ \A d \in Clients \ {c} : g[d] = f[d]
  OBVIOUS

-----------------------------------------------------------------------------

\* The steps.

LEMMA SendKeeps ==
    ASSUME CallInv, NEW c \in Clients, Send(c)
    PROVE  CallInv'
<1>1. Typed /\ Tables /\ Keeps(config, given, dirs) /\ ClientTyped(c) /\ ClientOK(c)
  BY TypedIs DEF CallInv
<1>2. PICK what \in Calls : /\ call' = [call EXCEPT ![c] = what]
                            /\ wire' = [wire EXCEPT ![c] = Request(what)]
  BY DEF Send
<1>3. /\ pc[c] = "idle" /\ pc' = [pc EXCEPT ![c] = "sent"]
      /\ result' = result /\ disk' = disk /\ outcome' = outcome /\ lost' = lost
  BY DEF Send, Goto
<1>4. /\ pc'[c] = "sent" /\ call'[c] = what /\ wire'[c] = Request(what)
      /\ DOMAIN wire' = Clients
      /\ \A d \in Clients \ {c} : pc'[d] = pc[d] /\ call'[d] = call[d] /\ wire'[d] = wire[d]
  BY <1>1, <1>2, <1>3, ExceptAt DEF Typed, Tables
<1>5. Others(c)
  BY <1>3, <1>4 DEF Others
<1>6. Typed' /\ Tables'
  BY <1>1, <1>2, <1>3, <1>4 DEF Typed, Tables
<1>7. ClientTyped(c)'
  BY <1>1, <1>3, <1>4 DEF ClientTyped
<1>8. ClientOK(c)'
  BY <1>3, <1>4 DEF ClientOK, IdleOK, SentOK, AnsweredOK, DoneOK, TruthOK, Request
<1>9. Keeps(config', given', dirs') /\ given \subseteq given'
  BY <1>1, <1>3 DEF disk
<1>. QED
  BY <1>5, <1>6, <1>7, <1>8, <1>9, StepKeeps

LEMMA SendFailsKeeps ==
    ASSUME CallInv, NEW c \in Clients, SendFails(c)
    PROVE  CallInv'
<1> DEFINE failure == Failure(call[c].id, INTERNAL_ENDPOINT_ERROR)
<1>1. Typed /\ Tables /\ Keeps(config, given, dirs) /\ ClientTyped(c) /\ ClientOK(c)
  BY TypedIs DEF CallInv
<1>2. /\ pc[c] = "idle" /\ pc' = [pc EXCEPT ![c] = "done"]
      /\ result' = [result EXCEPT ![c] = failure] /\ lost' = lost \cup {c}
      /\ call' = call /\ wire' = wire /\ disk' = disk /\ outcome' = outcome
  BY DEF SendFails, Goto
<1> HIDE DEF failure
<1>3. /\ pc'[c] = "done" /\ result'[c] = failure /\ DOMAIN result' = Clients
      /\ \A d \in Clients \ {c} : pc'[d] = pc[d] /\ result'[d] = result[d]
  BY <1>1, <1>2, ExceptAt DEF Typed, Tables
<1>4. Others(c)
  BY <1>2, <1>3 DEF Others
<1>5. Typed' /\ Tables'
  BY <1>1, <1>2, <1>3 DEF Typed, Tables
<1>6. failure.code \in OK .. INTERNAL_ENDPOINT_ERROR
  BY DEF failure, Failure, OK, INTERNAL_ENDPOINT_ERROR
<1>7. ClientTyped(c)'
  BY <1>1, <1>2, <1>3, <1>6 DEF ClientTyped
<1>8. ClientOK(c)'
  <2>1. outcome[c] = NoAnswer /\ NoAnswer.code # OK
    BY <1>1, <1>2 DEF ClientOK, IdleOK, NoAnswer, OK
  <2>2. IdleOK(c)' /\ SentOK(c)' /\ AnsweredOK(c)' /\ TruthOK(c)'
    BY <1>2, <1>3, <2>1 DEF IdleOK, SentOK, AnsweredOK, TruthOK
  <2>3. DoneOK(c)'
    BY <1>2, <1>3 DEF DoneOK, Arrived, failure
  <2>. QED
    BY <2>2, <2>3 DEF ClientOK
<1>9. Keeps(config', given', dirs') /\ given \subseteq given'
  BY <1>1, <1>2 DEF disk
<1>. QED
  BY <1>4, <1>5, <1>7, <1>8, <1>9, StepKeeps

LEMMA AnswerKeeps ==
    ASSUME CallInv, NEW c \in Clients, Answer(c)
    PROVE  CallInv'
<1>1. Typed /\ Tables /\ Keeps(config, given, dirs) /\ ClientTyped(c) /\ ClientOK(c)
  BY TypedIs DEF CallInv
<1>2. pc[c] = "sent" /\ Keeps(config', given', dirs') /\ given \subseteq given'
  BY DEF Answer, DiskKept
<1>3. PICK code \in OK .. INTERNAL_ENDPOINT_ERROR, body \in Seq(Field) :
         \E v : Respond(c, code, body, v) /\ Known(code, body, call[c], given', v)
  BY DEF Answer
<1>4. PICK v : Respond(c, code, body, v) /\ Known(code, body, call[c], given', v)
  BY <1>3
<1> DEFINE out == [id |-> EndpointId(c), code |-> code, values |-> v]
<1>5. /\ wire' = [wire EXCEPT ![c] = Framed(code, body)] /\ outcome' = [outcome EXCEPT ![c] = out]
      /\ pc' = [pc EXCEPT ![c] = "answered"] /\ call' = call /\ result' = result /\ lost' = lost
  BY <1>4 DEF Respond, Goto, Framed
<1>6. out.code = code /\ out.values = v
  OBVIOUS
<1> HIDE DEF out
<1>7. /\ pc'[c] = "answered" /\ wire'[c] = Framed(code, body) /\ outcome'[c] = out
      /\ DOMAIN wire' = Clients /\ DOMAIN outcome' = Clients
      /\ \A d \in Clients \ {c} : pc'[d] = pc[d] /\ wire'[d] = wire[d] /\ outcome'[d] = outcome[d]
  BY <1>1, <1>5, ExceptAt DEF Typed, Tables
<1>8. Others(c)
  BY <1>5, <1>7 DEF Others
<1>9. Typed' /\ Tables'
  BY <1>1, <1>5, <1>7 DEF Typed, Tables
<1>10. ClientTyped(c)'
  BY <1>1, <1>2, <1>5, <1>7 DEF ClientTyped
<1>11. ClientOK(c)'
  <2>1. Carries(wire'[c], call'[c], outcome'[c])
    BY <1>4, <1>5, <1>6, <1>7 DEF Carries, Known
  <2>2. out.code = OK => Tells(given', call'[c], out.values)
    BY <1>4, <1>5, <1>6 DEF Known
  <2>3. AnsweredOK(c)' /\ TruthOK(c)'
    BY <1>7, <2>1, <2>2 DEF AnsweredOK, TruthOK
  <2>4. IdleOK(c)' /\ SentOK(c)' /\ DoneOK(c)'
    BY <1>7 DEF IdleOK, SentOK, DoneOK
  <2>. QED
    BY <2>3, <2>4 DEF ClientOK
<1>. QED
  BY <1>2, <1>8, <1>9, <1>10, <1>11, StepKeeps

LEMMA ReturnKeeps ==
    ASSUME CallInv, NEW c \in Clients, Return(c)
    PROVE  CallInv'
<1> DEFINE id == call[c].id
           out == outcome[c]
<1>1. Typed /\ Tables /\ Keeps(config, given, dirs) /\ ClientTyped(c) /\ ClientOK(c)
  BY TypedIs DEF CallInv
<1>2. pc[c] = "answered" /\ c \notin lost
  BY <1>1 DEF Return, ClientTyped
<1>3. PICK n \in 0 .. Len(wire[c]) :
         /\ result' = [result EXCEPT ![c] = CallResult(id, SubSeq(wire[c], 1, n))]
         /\ lost' = IF n < Len(wire[c]) THEN lost \cup {c} ELSE lost
  BY DEF Return
<1> DEFINE got == CallResult(id, SubSeq(wire[c], 1, n))
<1>4. /\ pc' = [pc EXCEPT ![c] = "done"] /\ wire' = [wire EXCEPT ![c] = <<>>]
      /\ call' = call /\ disk' = disk /\ outcome' = outcome
  BY DEF Return, Goto
<1>5. Carries(wire[c], call[c], out)
  BY <1>1, <1>2 DEF ClientOK, AnsweredOK
<1>6. /\ Arrived(n < Len(wire[c]), got, call[c], out)
      /\ got.code \in OK .. INTERNAL_ENDPOINT_ERROR
  <2>1. out.code \in OK .. INTERNAL_ENDPOINT_ERROR /\ out.code \in Field
    BY <1>5 DEF Carries, Field, OK, INTERNAL_ENDPOINT_ERROR
  <2>2. PICK body \in Seq(Field) :
           /\ wire[c] = Framed(out.code, body)
           /\ out.code = OK => /\ Fits(ResponseShape(id), out.values)
                               /\ body = PushAll(ResponseShape(id), out.values)
    BY <1>5 DEF Carries
  <2> DEFINE values == PopAll(WithData(body), ResponseShape(id)).values
  <2>3. got = IF n < Len(wire[c]) THEN Failure(id, INTERNAL_ENDPOINT_ERROR)
              ELSE IF out.code # OK THEN Failure(id, out.code)
              ELSE [id |-> id, code |-> OK, values |-> values]
    <3> DEFINE code == out.code
               w == Framed(code, body)
    <3>1. code \in Field /\ n \in 0 .. Len(w) /\ wire[c] = w
      BY <2>1, <2>2
    <3> HIDE DEF code, id, out
    <3>2. CallResult(id, SubSeq(w, 1, n)) =
             IF n < Len(w) THEN Failure(id, INTERNAL_ENDPOINT_ERROR)
             ELSE IF code # OK THEN Failure(id, code)
             ELSE [id |-> id, code |-> OK, values |-> values]
      BY <3>1, CallResultIs
    <3> HIDE DEF w, values
    <3>. QED
      BY <3>1, <3>2 DEF code
  <2>4. ASSUME out.code = OK
        PROVE  values = out.values
    <3> DEFINE shape == ResponseShape(id)
    <3>1. Fits(shape, out.values) /\ body = PushAll(shape, out.values)
      BY <2>2, <2>4
    <3>2. body \o <<>> = body /\ <<>> \in Seq(Field)
      BY <2>2, ConcatEmptySeq
    <3> HIDE DEF shape
    <3>3. PopAll(WithData(body \o <<>>), shape) =
             [values |-> out.values, stream |-> WithData(<<>>)]
      BY <3>1, <3>2, CodecInverse
    <3>4. PopAll(WithData(body), shape).values = out.values
      BY <3>2, <3>3
    <3>. QED
      BY <3>4 DEF shape
  <2> HIDE DEF values, got, out, id
  <2>5. INTERNAL_ENDPOINT_ERROR \in OK .. INTERNAL_ENDPOINT_ERROR
    BY DEF OK, INTERNAL_ENDPOINT_ERROR
  <2>6. CASE n < Len(wire[c])
    BY <2>3, <2>5, <2>6 DEF Arrived, Failure, id
  <2>7. CASE ~(n < Len(wire[c])) /\ out.code # OK
    BY <2>1, <2>3, <2>7 DEF Arrived, Failure
  <2>8. CASE ~(n < Len(wire[c])) /\ out.code = OK
    BY <2>1, <2>3, <2>4, <2>8 DEF Arrived
  <2>. QED
    BY <2>6, <2>7, <2>8
<1>7. result' = [result EXCEPT ![c] = got]
  BY <1>3
<1> HIDE DEF got
<1>8. /\ pc'[c] = "done" /\ wire'[c] = <<>> /\ result'[c] = got
      /\ DOMAIN wire' = Clients /\ DOMAIN result' = Clients
      /\ \A d \in Clients \ {c} : pc'[d] = pc[d] /\ wire'[d] = wire[d] /\ result'[d] = result[d]
  BY <1>1, <1>4, <1>7, ExceptAt DEF Typed, Tables
<1>9. (c \in lost') = (n < Len(wire[c])) /\ \A d \in Clients \ {c} : (d \in lost') = (d \in lost)
  BY <1>2, <1>3
<1>10. Others(c)
  BY <1>4, <1>8, <1>9 DEF Others
<1>11. Typed' /\ Tables'
  BY <1>1, <1>3, <1>4, <1>8 DEF Typed, Tables
<1>12. ClientTyped(c)'
  BY <1>6, <1>8 DEF ClientTyped
<1>13. ClientOK(c)'
  <2>1. Arrived(c \in lost', result'[c], call'[c], outcome'[c])
    BY <1>4, <1>6, <1>8, <1>9
  <2>2. DoneOK(c)'
    BY <2>1 DEF DoneOK
  <2>3. TruthOK(c)'
    BY <1>1, <1>2, <1>4 DEF ClientOK, TruthOK, disk
  <2>4. IdleOK(c)' /\ SentOK(c)' /\ AnsweredOK(c)'
    BY <1>8 DEF IdleOK, SentOK, AnsweredOK
  <2>. QED
    BY <2>2, <2>3, <2>4 DEF ClientOK
<1>14. Keeps(config', given', dirs') /\ given \subseteq given'
  BY <1>1, <1>4 DEF disk
<1>. QED
  BY <1>10, <1>11, <1>12, <1>13, <1>14, StepKeeps

-----------------------------------------------------------------------------

LEMMA InitKeeps == Init => CallInv
<1> SUFFICES ASSUME Init PROVE CallInv
  OBVIOUS
<1>1. Proper(HEALTH_CHECK, <<>>) \in Calls
  BY DEF Calls
<1> DEFINE first == Proper(HEALTH_CHECK, <<>>)
<1>2. /\ pc = [c \in Clients |-> "idle"] /\ call = [c \in Clients |-> first]
      /\ wire = [c \in Clients |-> <<>>] /\ result = [c \in Clients |-> NoAnswer]
      /\ outcome = [c \in Clients |-> NoAnswer] /\ lost = {}
  BY DEF Init
<1> HIDE DEF first
<1>3. Typed /\ Tables
  BY <1>1, <1>2 DEF Typed, Tables, first
<1>4. \A c \in Clients : ClientTyped(c)
  BY <1>2 DEF ClientTyped
<1>5. \A c \in Clients : ClientOK(c)
  BY <1>2 DEF ClientOK, IdleOK, SentOK, AnsweredOK, DoneOK, TruthOK
<1>6. Keeps(config, given, dirs)
  <2>1. config \in [Workspaces -> Field \cup {Blank}] /\ DOMAIN dirs = {}
    BY DEF Init, Field
  <2>. QED
    BY <2>1 DEF Keeps
<1>7. TypeOK
  BY <1>3, <1>4, <1>6, TypedIs, DiskTypedIs
<1>. QED
  BY <1>3, <1>5, <1>6, <1>7 DEF CallInv

LEMMA StutterKeeps == CallInv /\ UNCHANGED vars => CallInv'
<1> SUFFICES ASSUME CallInv, UNCHANGED vars PROVE CallInv'
  OBVIOUS
<1>1. /\ pc' = pc /\ call' = call /\ wire' = wire /\ result' = result /\ config' = config
      /\ given' = given /\ dirs' = dirs /\ outcome' = outcome /\ lost' = lost
  BY DEF vars, disk
<1>2. TypeOK'
  BY <1>1 DEF CallInv, TypeOK
<1>3. Tables' /\ Keeps(config, given, dirs)'
  <2>1. Keeps(config, given, dirs) /\ Tables
    BY DEF CallInv
  <2>2. Tables'
    BY <1>1, <2>1 DEF Tables
  <2>3. Keeps(config', given', dirs')
    BY <1>1, <2>1
  <2>. QED
    BY <2>2, <2>3 DEF Keeps, IsDir, Record
<1>4. \A c \in Clients : ClientOK(c)'
  <2> TAKE c \in Clients
  <2>1. IdleOK(c)' /\ SentOK(c)'
    BY <1>1 DEF CallInv, ClientOK, IdleOK, SentOK, Request
  <2>2. AnsweredOK(c)' /\ DoneOK(c)' /\ TruthOK(c)'
    BY <1>1 DEF CallInv, ClientOK, AnsweredOK, DoneOK, TruthOK
  <2>. QED
    BY <2>1, <2>2 DEF ClientOK
<1>. QED
  BY <1>2, <1>3, <1>4 DEF CallInv

LEMMA CallInvHolds == Spec => []CallInv
<1>1. ASSUME CallInv, Next
      PROVE  CallInv'
  <2>1. PICK c \in Clients :
           \/ Send(c) \/ SendFails(c)
           \/ Refuse(c) \/ HealthCheck(c)
           \/ TaskNewFails(c) \/ TaskNew(c) \/ TaskGet(c) \/ TaskList(c) \/ TaskDelete(c)
           \/ Return(c)
    BY <1>1 DEF Next
  <2>2. CASE Send(c)
    BY <1>1, <2>2, SendKeeps
  <2>3. CASE SendFails(c)
    BY <1>1, <2>3, SendFailsKeeps
  <2>4. CASE Refuse(c)
    BY <1>1, <2>4, RefuseAnswers, AnswerKeeps
  <2>5. CASE HealthCheck(c)
    BY <1>1, <2>5, HealthCheckAnswers, AnswerKeeps
  <2>6. CASE TaskNewFails(c)
    BY <1>1, <2>6, TaskNewFailsAnswers, AnswerKeeps
  <2>7. CASE TaskNew(c)
    BY <1>1, <2>7, TaskNewAnswers, AnswerKeeps
  <2>8. CASE TaskGet(c)
    BY <1>1, <2>8, TaskGetAnswers, AnswerKeeps
  <2>9. CASE TaskList(c)
    BY <1>1, <2>9, TaskListAnswers, AnswerKeeps
  <2>11. CASE TaskDelete(c)
    BY <1>1, <2>11, TaskDeleteAnswers, AnswerKeeps
  <2>10. CASE Return(c)
    BY <1>1, <2>10, ReturnKeeps
  <2>. QED
    BY <2>1, <2>2, <2>3, <2>4, <2>5, <2>6, <2>7, <2>8, <2>9, <2>10, <2>11
<1>2. CallInv /\ [Next]_vars => CallInv'
  BY <1>1, StutterKeeps
<1>. QED
  BY <1>2, InitKeeps, PTL DEF Spec

\* A call of a command is in one of its phases, with a return code the program
\* knows, and no directory is beyond the next task of a config, for any number of
\* commands, tasks and characters (return_code.h, task_new.c).
THEOREM CallTypeCorrect == Spec => []TypeOK
<1>1. CallInv => TypeOK
  BY DEF CallInv
<1>. QED
  BY <1>1, CallInvHolds, PTL

\* What a command gets is what the endpoint answered, or the error of a
\* connection that broke, wherever the response was cut: what the codec pushed
\* is what it pops, for values of any size (macro.h, client.c, message.c).
THEOREM ResultsAreOutcomes == Spec => []ResultIsOutcome
<1>1. CallInv => ResultIsOutcome
  BY DEF CallInv, ClientOK, DoneOK, Arrived, ResultIsOutcome
<1>. QED
  BY <1>1, CallInvHolds, PTL

\* A command never shows a task under a wrong name, id or path, whatever was
\* cut on the way to disk or back (task_get.c, task_list.c, task_state.c).
THEOREM AnswersTellTheTruth == Spec => []AnswersAreTrue
<1>1. ASSUME CallInv
      PROVE  AnswersAreTrue
  <2> SUFFICES ASSUME NEW c \in Clients, pc[c] = "done", result[c].code = OK
               PROVE  IsTrue(call[c], result[c].values)
    BY DEF AnswersAreTrue
  <2>1. DoneOK(c) /\ TruthOK(c)
    BY <1>1 DEF CallInv, ClientOK
  <2>2. outcome[c].code = OK /\ result[c].values = outcome[c].values
    BY <2>1 DEF DoneOK, Arrived, Failure, OK, INTERNAL_ENDPOINT_ERROR
  <2>3. Tells(given, call[c], result[c].values)
    BY <2>1, <2>2 DEF TruthOK
  <2> DEFINE what == call[c]
             v == result[c].values
  <2>4. \A w : \A id : \A name : \A path : IsTask(given, w, id, name, path) => TrueTask(w, id, name, path)
    BY DEF IsTask, TrueTask
  <2> HIDE DEF what, v
  <2>5. Tells(given, what, v) => IsTrue(what, v)
    BY <2>4 DEF Tells, IsTrue
  <2>. QED
    BY <2>3, <2>5 DEF what, v
<1>. QED
  BY <1>1, CallInvHolds, PTL

-----------------------------------------------------------------------------

\* The action that answers a request of the commands is that of its endpoint.
LEMMA ServedBy ==
    ASSUME CallInv, NEW c \in Clients, Served(c), Next,
           NEW id \in {TASK_GET, TASK_LIST}, call[c].id = id
    PROVE  /\ id = TASK_GET => TaskGet(c)
           /\ id = TASK_LIST => TaskList(c)
           /\ Dispatched(c, id)
           /\ \A i : Param(c, i) = call[c].values[i]
<1>1. PICK d \in Clients :
         \/ Send(d) \/ SendFails(d)
         \/ Refuse(d) \/ HealthCheck(d)
         \/ TaskNewFails(d) \/ TaskNew(d) \/ TaskGet(d) \/ TaskList(d) \/ TaskDelete(d)
         \/ Return(d)
  BY DEF Next
<1>2. pc[c] = "sent" /\ pc'[c] = "answered" /\ call[c].shape # <<>>
  BY DEF Served
<1>3. /\ IsCall(call[c]) /\ EndpointId(c) = call[c].id
      /\ call[c].shape = RequestShape(call[c].id) =>
            Parsed(Parse(c)) /\ Parse(c).values = call[c].values
  BY <1>2, SentIs
<1>4. id \in Registered /\ EndpointId(c) = id /\ call[c].shape = RequestShape(id)
  BY <1>2, <1>3 DEF IsCall, Registered
<1>5. Dispatched(c, id) /\ \A i : Param(c, i) = call[c].values[i]
  BY <1>2, <1>3, <1>4 DEF Dispatched, Param
<1>6. d = c
  <2> SUFFICES ASSUME d # c PROVE pc'[c] = pc[c]
    BY <1>2
  <2>1. \E step : pc' = [pc EXCEPT ![d] = step]
    BY <1>1 DEF Send, SendFails, Refuse, HealthCheck, TaskNewFails, TaskNew, TaskGet, TaskList, TaskDelete,
                Return, RespondWith, Respond, Goto
  <2>2. DOMAIN pc = Clients
    BY DEF CallInv, TypeOK
  <2>. QED
    BY <2>1, <2>2
<1>7. ~Send(c) /\ ~SendFails(c) /\ ~Return(c)
  BY <1>2 DEF Send, SendFails, Return
<1>8. ~Refuse(c)
  <2>1. id < MaxEndpoints - 1 /\ MaxEndpoints \in Nat /\ id \in Nat
    BY <1>4, RegistryAssumption, CallAssumption DEF Registered
  <2>2. EndpointId(c) \in 0 .. (MaxEndpoints - 1) /\ EndpointId(c) \in Registered /\ Parsed(Parse(c))
    BY <1>4, <1>5, <2>1 DEF Dispatched
  <2>. QED
    BY <2>2 DEF Refuse
<1>9. ~HealthCheck(c) /\ ~TaskNewFails(c) /\ ~TaskNew(c) /\ ~TaskDelete(c)
  <2>1. ~Dispatched(c, HEALTH_CHECK) /\ ~Dispatched(c, TASK_NEW) /\ ~Dispatched(c, TASK_DELETE)
    BY <1>4 DEF Dispatched
  <2>. QED
    BY <2>1 DEF HealthCheck, TaskNewFails, TaskNew, TaskDelete
<1>10. /\ id = TASK_GET => ~TaskList(c)
       /\ id = TASK_LIST => ~TaskGet(c)
  BY <1>4 DEF TaskGet, TaskList, Dispatched
<1>. QED
  BY <1>1, <1>5, <1>6, <1>7, <1>8, <1>9, <1>10

\* A task with a script and a whole record, no longer than what is read of it,
\* is there for every TaskGet that reaches the server, and for every TaskList of
\* a workspace whose config can be read and has counted it, for any limit and any
\* number of tasks (task_get.c, task_list.c, task_state.c, data_stream.c).
THEOREM StoredTasksAreServed == Spec => StoredIsServed
<1> DEFINE ServedGet(c, w) ==
             call[c].id = TASK_GET /\ Stored(w, call[c].values[2]) => outcome'[c].code = OK
           ServedList(c, w) ==
             call[c].id = TASK_LIST /\ w \in Workspaces =>
                \A id \in 0 .. (config[w] - 1) :
                   Stored(w, id) => \E i \in DOMAIN outcome'[c].values[1] : outcome'[c].values[1][i] = id
<1>1. ASSUME CallInv, Next, NEW c \in Clients, Served(c), NEW w, w = call[c].values[1]
      PROVE  ServedGet(c, w)
  <2> SUFFICES ASSUME call[c].id = TASK_GET, Stored(w, call[c].values[2])
               PROVE  outcome'[c].code = OK
    OBVIOUS
  <2> DEFINE id == call[c].values[2]
  <2>1. /\ TaskGet(c) /\ Dispatched(c, TASK_GET)
        /\ Param(c, 1) = w /\ Param(c, 2) = id
    BY <1>1, ServedBy
  <2> HIDE DEF id
  <2>2. Stored(w, id) /\ <<w, id>> \in DOMAIN dirs
    BY DEF Stored, id
  <2>3. w \in Workspaces /\ Found(w, id)
    BY <1>1, <2>2, ReadRecordIs DEF CallInv
  <2>4. \E v : RespondWith(c, OK, v)
    BY <2>1, <2>3 DEF TaskGet
  <2>5. PICK v : outcome' = [outcome EXCEPT ![c] = [id |-> EndpointId(c), code |-> OK, values |-> v]]
    BY <2>4 DEF RespondWith, Respond
  <2>6. DOMAIN outcome = Clients
    BY <1>1 DEF CallInv, Tables
  <2>. QED
    BY <2>5, <2>6
<1>2. ASSUME CallInv, Next, NEW c \in Clients, Served(c), NEW w, w = call[c].values[1]
      PROVE  ServedList(c, w)
  <2> SUFFICES ASSUME call[c].id = TASK_LIST, w \in Workspaces,
                      NEW id \in 0 .. (config[w] - 1), Stored(w, id)
               PROVE  \E i \in DOMAIN outcome'[c].values[1] : outcome'[c].values[1][i] = id
    OBVIOUS
  <2>1. TaskList(c) /\ Param(c, 1) = w
    BY <1>2, ServedBy
  <2>2. config[w] \in Nat /\ config[w] # Blank
    <3>1. config[w] \in Nat \cup {Blank}
      BY <1>2 DEF CallInv, Keeps, Field
    <3>. QED
      BY <3>1 DEF Blank
  <2> DEFINE ids == FoundIds(w)[config[w]]
             a == [i \in DOMAIN ids |-> ReadRecord(w, ids[i]).values[1]]
             b == [i \in DOMAIN ids |-> ReadRecord(w, ids[i]).values[2]]
             p == [i \in DOMAIN ids |-> PathOf(w, ids[i])]
  <2>3. RespondWith(c, OK, <<a, b, p>>)
    BY <2>1, <2>2 DEF TaskList
  <2>4. Found(w, id) /\ ReadRecord(w, id).values = <<id, NameIn(w, id)>>
    BY <1>2, ReadRecordIs DEF CallInv, Stored
  <2>5. \E i \in DOMAIN ids : ids[i] = id
    <3>1. AreFound(ids, {k \in Nat : Found(w, k)}, config[w])
      BY <2>2, FoundIdsAre
    <3>2. id \in {k \in Nat : Found(w, k)}
      BY <2>2, <2>4
    <3> HIDE DEF ids
    <3>3. DOMAIN ids = 1 .. Len(ids)
      BY <3>1, LenProperties DEF AreFound
    <3>. QED
      BY <3>1, <3>2, <3>3 DEF AreFound
  <2> HIDE DEF ids, b, p
  <2>6. PICK i \in DOMAIN ids : ids[i] = id
    BY <2>5
  <2>7. i \in DOMAIN a /\ a[i] = id
    <3>1. a[i] = ReadRecord(w, id).values[1]
      BY <2>6
    <3> HIDE DEF a
    <3>2. a[i] = id
      BY <2>4, <3>1
    <3>. QED
      BY <3>2 DEF a
  <2> HIDE DEF a
  <2>8. outcome'[c].values = <<a, b, p>>
    <3>1. outcome' = [outcome EXCEPT ![c] = [id |-> EndpointId(c), code |-> OK, values |-> <<a, b, p>>]]
      BY <2>3 DEF RespondWith, Respond
    <3>2. DOMAIN outcome = Clients
      BY <1>2 DEF CallInv, Tables
    <3>. QED
      BY <3>1, <3>2
  <2>9. outcome'[c].values[1] = a
    BY <2>8
  <2>. QED
    BY <2>7, <2>9
<1>3. CallInv /\ [Next]_vars => [ServesStored]_vars
  <2>1. ASSUME CallInv, Next
        PROVE  ServesStored
    <3>1. \A c \in Clients : Served(c) =>
             ServedGet(c, call[c].values[1]) /\ ServedList(c, call[c].values[1])
      <4> HIDE DEF ServedGet, ServedList
      <4>. QED
        BY <1>1, <1>2, <2>1
    <3>. QED
      BY <3>1 DEF ServesStored
  <2>. QED
    BY <2>1
<1>. QED
  BY <1>3, CallInvHolds, PTL DEF Spec, StoredIsServed
=============================================================================
