---------------------------- MODULE BufferProofs -----------------------------
(***************************************************************************)
(* Proofs that a Buffer of any size is a queue of bytes that stays within  *)
(* its memory.                                                             *)
(***************************************************************************)
EXTENDS Buffer, SequenceTheorems, TLAPS

(* b, r and w are the fields of a Buffer.                                  *)
Shape(b, r, w) == b \in Seq(Byte) /\ r \in Nat /\ w \in r .. Len(b)

-----------------------------------------------------------------------------
(* The operations on the memory.                                           *)

(* The length of a content that is extended by l bytes.                    *)
LEMMA MoreBehind ==
  ASSUME NEW nw \in Nat, NEW nr \in Nat, NEW w \in Nat, NEW r \in Nat,
         NEW l \in Nat, nw - nr = w - r
  PROVE  (nw + l) - nr = (w - r) + l
  OBVIOUS

LEMMA MoreInFront ==
  ASSUME NEW w \in Nat, NEW r \in Nat, NEW at \in Nat, NEW l \in Nat, at + l = r
  PROVE  w - at = l + (w - r)
  OBVIOUS

LEMMA DataIsSeq == Data \subseteq Seq(Byte)
  BY SeqDef, SizeAssumption DEF Data, SizeAssumption

LEMMA ContentIs ==
  ASSUME NEW b \in Seq(Byte), NEW r \in Nat, NEW w \in Nat, Shape(b, r, w)
  PROVE  /\ ContentOf(b, r, w) \in Seq(Byte)
         /\ Len(ContentOf(b, r, w)) = w - r
         /\ \A i \in 1 .. w - r : ContentOf(b, r, w)[i] = b[r + i]
<1> DEFINE c == SubSeq(b, r + 1, w)
<1>1. /\ r + 1 \in Int /\ w \in Int /\ Len(b) \in Nat
      /\ \A i \in r + 1 .. w : b[i] \in Byte
  BY ElementOfSeq, LenProperties DEF Shape
<1>2. /\ c \in Seq(Byte)
      /\ Len(c) = IF r + 1 <= w THEN w - (r + 1) + 1 ELSE 0
      /\ \A i \in 1 .. w - (r + 1) + 1 : c[i] = b[r + 1 + i - 1]
  BY <1>1, SubSeqProperties DEF Shape
<1> QED
  BY <1>1, <1>2 DEF Shape, ContentOf

LEMMA CopyIs ==
  ASSUME NEW b \in Seq(Byte), NEW s \in Seq(Byte), NEW at \in Nat,
         at + Len(s) <= Len(b)
  PROVE  /\ copy(s, b, at) \in Seq(Byte)
         /\ Len(copy(s, b, at)) = Len(b)
         /\ \A i \in 1 .. Len(s) : copy(s, b, at)[at + i] = s[i]
         /\ \A i \in 1 .. Len(b) :
              i \notin at + 1 .. at + Len(s) => copy(s, b, at)[i] = b[i]
<1>1. Len(b) \in Nat /\ Len(s) \in Nat
  BY LenProperties
<1>2. \A i \in 1 .. Len(b) : copy(s, b, at)[i] \in Byte
  BY <1>1, ElementOfSeq DEF copy
<1>3. copy(s, b, at) \in [1 .. Len(b) -> Byte]
  BY <1>2 DEF copy
<1>4. copy(s, b, at) \in Seq(Byte)
  BY <1>1, <1>3, SeqDef
<1>5. Len(copy(s, b, at)) = Len(b)
  BY <1>1, <1>3, <1>4, LenProperties
<1> QED
  BY <1>1, <1>4, <1>5 DEF copy

LEMMA ResizeIs ==
  ASSUME NEW b \in Seq(Byte), NEW size \in Nat, Len(b) <= size
  PROVE  /\ resize(b, size) \in Seq(Byte)
         /\ Len(resize(b, size)) = size
         /\ \A i \in 1 .. Len(b) : resize(b, size)[i] = b[i]
<1>1. Len(b) \in Nat
  BY LenProperties
<1>2. \A i \in 1 .. size : resize(b, size)[i] \in Byte
  BY <1>1, ElementOfSeq, ByteAssumption DEF resize, ByteAssumption
<1>3. resize(b, size) \in [1 .. size -> Byte]
  BY <1>2 DEF resize
<1>4. resize(b, size) \in Seq(Byte)
  BY <1>3, SeqDef
<1>5. Len(resize(b, size)) = size
  BY <1>3, <1>4, LenProperties
<1> QED
  BY <1>1, <1>4, <1>5 DEF resize

(* Bytes written behind the content extend it.                             *)
LEMMA WriteBehind ==
  ASSUME NEW b \in Seq(Byte), NEW r \in Nat, NEW w \in Nat, Shape(b, r, w),
         NEW s \in Seq(Byte),
         w + Len(s) <= Len(b)
  PROVE  /\ Shape(copy(s, b, w), r, w + Len(s))
         /\ ContentOf(copy(s, b, w), r, w + Len(s)) = ContentOf(b, r, w) \o s
<1> DEFINE d == copy(s, b, w)
           left == ContentOf(d, r, w + Len(s))
           c == ContentOf(b, r, w)
           right == c \o s
<1>0. b \in Seq(Byte) /\ r \in Nat /\ w \in Nat /\ r <= w /\ Len(b) \in Nat /\ Len(s) \in Nat
  BY LenProperties DEF Shape
<1>1. /\ d \in Seq(Byte) /\ Len(d) = Len(b)
      /\ \A i \in 1 .. Len(s) : d[w + i] = s[i]
      /\ \A i \in 1 .. Len(b) : i \notin w + 1 .. w + Len(s) => d[i] = b[i]
  BY <1>0, CopyIs
<1>2. Shape(d, r, w + Len(s))
  BY <1>0, <1>1 DEF Shape
<1>3. /\ left \in Seq(Byte) /\ Len(left) = (w + Len(s)) - r
      /\ \A i \in 1 .. (w + Len(s)) - r : left[i] = d[r + i]
  <2>1. d \in Seq(Byte) /\ r \in Nat /\ w + Len(s) \in Nat
    BY <1>0, <1>1
  <2> HIDE DEF d
  <2> QED
    BY <1>2, <2>1, ContentIs
<1>4. /\ c \in Seq(Byte)
      /\ Len(c) = w - r
      /\ \A i \in 1 .. w - r : c[i] = b[r + i]
  BY ContentIs
<1>5. /\ right \in Seq(Byte) /\ Len(right) = (w - r) + Len(s)
      /\ \A i \in 1 .. (w - r) + Len(s) :
           right[i] = IF i <= w - r THEN b[r + i] ELSE s[i - (w - r)]
  <2> HIDE DEF c
  <2>1. /\ right \in Seq(Byte) /\ Len(right) = Len(c) + Len(s)
        /\ \A i \in 1 .. Len(c) + Len(s) :
             right[i] = IF i <= Len(c) THEN c[i] ELSE s[i - Len(c)]
    BY <1>4, ConcatProperties
  <2> QED
    BY <1>0, <1>4, <2>1
<1>6. ASSUME NEW i \in 1 .. Len(left) PROVE left[i] = right[i]
  <2> HIDE DEF c, d, left, right
  <2>1. CASE i <= w - r
    BY <1>0, <1>1, <1>3, <1>5, <2>1
  <2>2. CASE i > w - r
    <3>1. i - (w - r) \in 1 .. Len(s) /\ r + i = w + (i - (w - r))
      BY <1>0, <1>3, <2>2
    <3> QED
      BY <1>0, <1>1, <1>3, <1>5, <2>2, <3>1
  <2> QED
    BY <1>0, <2>1, <2>2
<1>7. Len(left) = Len(right)
  BY <1>0, <1>3, <1>5
<1>8. left = right
  <2> HIDE DEF left, right
  <2> QED
    BY <1>3, <1>5, <1>6, <1>7, SeqEqual
<1> QED
  BY <1>2, <1>8

(* Bytes written in front of the content extend it at the front.           *)
LEMMA WriteInFront ==
  ASSUME NEW b \in Seq(Byte), NEW r \in Nat, NEW w \in Nat, Shape(b, r, w),
         NEW s \in Seq(Byte), NEW at \in Nat, at + Len(s) = r
  PROVE  /\ Shape(copy(s, b, at), at, w)
         /\ ContentOf(copy(s, b, at), at, w) = s \o ContentOf(b, r, w)
<1> DEFINE d == copy(s, b, at)
           left == ContentOf(d, at, w)
           c == ContentOf(b, r, w)
           right == s \o c
<1>0. r <= w /\ w <= Len(b) /\ Len(b) \in Nat /\ Len(s) \in Nat
  BY LenProperties DEF Shape
<1>1. /\ d \in Seq(Byte) /\ Len(d) = Len(b)
      /\ \A i \in 1 .. Len(s) : d[at + i] = s[i]
      /\ \A i \in 1 .. Len(b) : i \notin at + 1 .. at + Len(s) => d[i] = b[i]
  BY <1>0, CopyIs
<1>2. Shape(d, at, w)
  BY <1>0, <1>1 DEF Shape
<1>3. /\ left \in Seq(Byte) /\ Len(left) = w - at
      /\ \A i \in 1 .. w - at : left[i] = d[at + i]
  <2>1. d \in Seq(Byte)
    BY <1>1
  <2> HIDE DEF d
  <2> QED
    BY <1>2, <2>1, ContentIs
<1>4. /\ c \in Seq(Byte) /\ Len(c) = w - r
      /\ \A i \in 1 .. w - r : c[i] = b[r + i]
  BY ContentIs
<1>5. /\ right \in Seq(Byte) /\ Len(right) = Len(s) + Len(c)
      /\ \A i \in 1 .. Len(s) + Len(c) :
           right[i] = IF i <= Len(s) THEN s[i] ELSE c[i - Len(s)]
  <2>1. c \in Seq(Byte)
    BY <1>4
  <2> HIDE DEF c
  <2>2. right \in Seq(Byte)
    BY <2>1, ConcatProperties
  <2>3. Len(right) = Len(s) + Len(c)
    BY <2>1, ConcatProperties
  <2>4. \A i \in 1 .. Len(s) + Len(c) :
          right[i] = IF i <= Len(s) THEN s[i] ELSE c[i - Len(s)]
    BY <2>1, ConcatProperties
  <2> QED
    BY <2>2, <2>3, <2>4
<1> HIDE DEF c, d, left, right
<1>6. ASSUME NEW i \in 1 .. Len(left) PROVE left[i] = right[i]
  <2>0. i \in 1 .. w - at /\ i \in 1 .. Len(s) + Len(c)
    BY <1>0, <1>3, <1>4
  <2>1. CASE i <= Len(s)
    <3>1. i \in 1 .. Len(s)
      BY <1>0, <2>0, <2>1
    <3> QED
      BY <1>1, <1>3, <1>5, <2>0, <2>1, <3>1
  <2>2. CASE i > Len(s)
    <3>1. /\ i - Len(s) \in 1 .. w - r
          /\ at + i \in 1 .. Len(b) /\ at + i \notin at + 1 .. at + Len(s)
          /\ ~(i <= Len(s))
      BY <1>0, <2>0, <2>2
    <3>2. c[i - Len(s)] = b[r + (i - Len(s))]
      BY <1>4, <3>1
    <3>3. r + (i - Len(s)) = at + i
      BY <1>0, <2>0
    <3>4. d[at + i] = b[at + i]
      BY <1>1, <3>1
    <3> QED
      BY <1>3, <1>5, <2>0, <3>1, <3>2, <3>3, <3>4
  <2> QED
    BY <1>0, <2>0, <2>1, <2>2
<1>7. Len(left) = Len(right)
  <2>1. Len(left) = w - at /\ Len(right) = Len(s) + (w - r)
    BY <1>3, <1>4, <1>5
  <2> QED
    BY <1>0, <2>1, MoreInFront
<1>8. left = right
  BY <1>3, <1>5, <1>6, <1>7, SeqEqual
<1> QED
  BY <1>2, <1>8 DEF left, right, c, d

-----------------------------------------------------------------------------
(* makeSpace and append.                                                   *)

(* makeSpace keeps the content, makes room for len bytes behind it, and    *)
(* adds memory only when it must.                                          *)
LEMMA MakeSpaceIs ==
  ASSUME NEW b \in Seq(Byte), NEW r \in Nat, NEW w \in Nat, Shape(b, r, w),
         NEW len \in Nat, len > Len(b) - w,
         NEW m, m = makeSpace(b, r, w, len)
  PROVE  /\ Shape(m.buf, m.reader, m.writer)
         /\ m.writer + len <= Len(m.buf)
         /\ m.writer - m.reader = w - r
         /\ ContentOf(m.buf, m.reader, m.writer) = ContentOf(b, r, w)
         /\ Len(m.buf) >= Len(b)
         /\ Len(m.buf) > Len(b) => kCheapPrepend + ((w - r) + len) > Len(b)
<1> DEFINE c == ContentOf(b, r, w)
<1>0. /\ b \in Seq(Byte) /\ r \in Nat /\ w \in Nat /\ r <= w /\ w <= Len(b)
      /\ Len(b) \in Nat /\ kCheapPrepend \in Nat
  BY LenProperties, SizeAssumption DEF Shape, SizeAssumption
<1>1. /\ c \in Seq(Byte) /\ Len(c) = w - r
      /\ \A i \in 1 .. w - r : c[i] = b[r + i]
  BY ContentIs
<1>2. CASE FitsAfterMove(b, r, w, len)
  <2> DEFINE k == kCheapPrepend
             d == copy(c, b, k)
             v == k + (w - r)
  <2> HIDE DEF c
  <2>1. v + len <= Len(b) /\ k + Len(c) <= Len(b) /\ v \in Nat
    BY <1>0, <1>1, <1>2 DEF FitsAfterMove
  <2>2. /\ d \in Seq(Byte) /\ Len(d) = Len(b)
        /\ \A i \in 1 .. Len(c) : d[k + i] = c[i]
    BY <1>0, <1>1, <2>1, CopyIs
  <2>3. Shape(d, k, v)
    BY <1>0, <2>1, <2>2 DEF Shape
  <2>4. ContentOf(d, k, v) = c
    <3> HIDE DEF d, v
    <3>1. /\ ContentOf(d, k, v) \in Seq(Byte) /\ Len(ContentOf(d, k, v)) = v - k
          /\ \A i \in 1 .. v - k : ContentOf(d, k, v)[i] = d[k + i]
      BY <1>0, <2>1, <2>2, <2>3, ContentIs
    <3>2. v - k = Len(c)
      BY <1>0, <1>1 DEF v
    <3> QED
      BY <1>1, <2>2, <3>1, <3>2, SeqEqual
  <2>5. m.buf = d /\ m.reader = k /\ m.writer = v
    BY <1>2 DEF makeSpace, Moved, c
  <2>6. v - k = w - r
    BY <1>0
  <2>7. Len(d) >= Len(b) /\ ~(Len(d) > Len(b))
    BY <1>0, <2>2
  <2> HIDE DEF d, v, k
  <2> QED
    BY <2>1, <2>2, <2>3, <2>4, <2>5, <2>6, <2>7 DEF c
<1>3. CASE ~FitsAfterMove(b, r, w, len)
  <2> DEFINE d == resize(b, w + len)
  <2>1. w + len \in Nat /\ Len(b) <= w + len
    BY <1>0
  <2>2. /\ d \in Seq(Byte) /\ Len(d) = w + len
        /\ \A i \in 1 .. Len(b) : d[i] = b[i]
    BY <1>0, <2>1, ResizeIs
  <2>3. Shape(d, r, w)
    BY <1>0, <2>2 DEF Shape
  <2>4. ContentOf(d, r, w) = c
    <3> HIDE DEF d, c
    <3>1. /\ ContentOf(d, r, w) \in Seq(Byte) /\ Len(ContentOf(d, r, w)) = w - r
          /\ \A i \in 1 .. w - r : ContentOf(d, r, w)[i] = d[r + i]
      BY <1>0, <2>2, <2>3, ContentIs
    <3>2. \A i \in 1 .. w - r : d[r + i] = b[r + i]
      BY <1>0, <2>2
    <3> QED
      BY <1>1, <3>1, <3>2, SeqEqual
  <2>5. m.buf = d /\ m.reader = r /\ m.writer = w
    BY <1>3 DEF makeSpace, Grown
  <2>6. Len(d) >= Len(b) /\ kCheapPrepend + ((w - r) + len) > Len(b)
    BY <1>0, <1>3, <2>1, <2>2 DEF FitsAfterMove
  <2> HIDE DEF d
  <2> QED
    BY <1>0, <2>2, <2>3, <2>4, <2>5, <2>6 DEF c
<1> QED
  BY <1>2, <1>3

(* append puts the bytes at the end of the content.                        *)
LEMMA AppendedIs ==
  ASSUME NEW b \in Seq(Byte), NEW r \in Nat, NEW w \in Nat, Shape(b, r, w),
         NEW s \in Seq(Byte),
         NEW m, m = Appended(b, r, w, s)
  PROVE  /\ Shape(m.buf, m.reader, m.writer)
         /\ m.writer - m.reader = (w - r) + Len(s)
         /\ ContentOf(m.buf, m.reader, m.writer) = ContentOf(b, r, w) \o s
         /\ Len(m.buf) >= Len(b)
         /\ Len(m.buf) > Len(b) => kCheapPrepend + ((w - r) + Len(s)) > Len(b)
<1> DEFINE n == IF Len(s) > Len(b) - w THEN makeSpace(b, r, w, Len(s))
                ELSE [buf |-> b, reader |-> r, writer |-> w]
<1>0. /\ r \in Nat /\ w \in Nat /\ r <= w /\ w <= Len(b)
      /\ Len(b) \in Nat /\ Len(s) \in Nat /\ kCheapPrepend \in Nat
  BY LenProperties, SizeAssumption DEF Shape, SizeAssumption
<1>1. PICK nb \in Seq(Byte), nr \in Nat, nw \in Nat :
        /\ n.buf = nb /\ n.reader = nr /\ n.writer = nw
        /\ Shape(nb, nr, nw)
        /\ nw + Len(s) <= Len(nb)
        /\ nw - nr = w - r
        /\ ContentOf(nb, nr, nw) = ContentOf(b, r, w)
        /\ Len(nb) >= Len(b)
        /\ Len(nb) > Len(b) => kCheapPrepend + ((w - r) + Len(s)) > Len(b)
  <2>1. CASE Len(s) > Len(b) - w
    <3>1. n = makeSpace(b, r, w, Len(s))
      BY <2>1
    <3> HIDE DEF n
    <3>2. /\ Shape(n.buf, n.reader, n.writer)
          /\ n.writer + Len(s) <= Len(n.buf)
          /\ n.writer - n.reader = w - r
          /\ ContentOf(n.buf, n.reader, n.writer) = ContentOf(b, r, w)
          /\ Len(n.buf) >= Len(b)
          /\ Len(n.buf) > Len(b) => kCheapPrepend + ((w - r) + Len(s)) > Len(b)
      <4> Len(s) \in Nat /\ Len(s) > Len(b) - w
        BY <1>0, <2>1
      <4>1. Shape(n.buf, n.reader, n.writer)
        BY <3>1, MakeSpaceIs
      <4>2. n.writer + Len(s) <= Len(n.buf)
        BY <3>1, MakeSpaceIs
      <4>3. n.writer - n.reader = w - r
        BY <3>1, MakeSpaceIs
      <4>4. ContentOf(n.buf, n.reader, n.writer) = ContentOf(b, r, w)
        BY <3>1, MakeSpaceIs
      <4>6. Len(n.buf) >= Len(b)
        BY <3>1, MakeSpaceIs
      <4>5. Len(n.buf) > Len(b) => kCheapPrepend + ((w - r) + Len(s)) > Len(b)
        BY <3>1, MakeSpaceIs
      <4> QED
        BY <4>1, <4>2, <4>3, <4>4, <4>5, <4>6
    <3>3. n.buf \in Seq(Byte) /\ n.reader \in Nat /\ n.writer \in Nat
      BY <3>2, LenProperties DEF Shape
    <3> QED
      BY <3>2, <3>3
  <2>2. CASE ~(Len(s) > Len(b) - w)
    BY <1>0, <2>2 DEF Shape
  <2> QED
    BY <2>1, <2>2
<1>2. m = [buf |-> copy(s, n.buf, n.writer), reader |-> n.reader,
           writer |-> n.writer + Len(s)]
  BY DEF Appended
<1>3. m.buf = copy(s, nb, nw) /\ m.reader = nr /\ m.writer = nw + Len(s)
  <2> HIDE DEF n
  <2> QED
    BY <1>1, <1>2
<1> HIDE DEF n
<1>4. Shape(nb, nr, nw) /\ nw + Len(s) <= Len(nb) /\ nw - nr = w - r
  BY <1>1
<1>5. /\ nb \in Seq(Byte) /\ nr \in Nat /\ nw \in Nat /\ Len(nb) \in Nat
  BY <1>4, LenProperties DEF Shape
<1>6. /\ Shape(copy(s, nb, nw), nr, nw + Len(s))
      /\ ContentOf(copy(s, nb, nw), nr, nw + Len(s)) = ContentOf(nb, nr, nw) \o s
  BY <1>4, <1>5, WriteBehind
<1>7. Len(copy(s, nb, nw)) = Len(nb)
  BY <1>4, <1>5, CopyIs
<1>8. (nw + Len(s)) - nr = (w - r) + Len(s)
  <2>1. nw - nr = w - r
    BY <1>4
  <2>2. nw \in Nat /\ nr \in Nat /\ w \in Nat /\ r \in Nat /\ Len(s) \in Nat
    BY <1>0, <1>5
  <2> QED
    BY <2>1, <2>2, MoreBehind
<1> QED
  BY <1>1, <1>3, <1>6, <1>7, <1>8

LEMMA Regroup ==
  ASSUME NEW c \in Seq(Byte), NEW s1 \in Seq(Byte), NEW s2 \in Seq(Byte)
  PROVE  (c \o s1) \o s2 = c \o (s1 \o s2)
  BY ConcatAssociative

(* m holds what b held, and s behind it.                                   *)
Extended(b, r, w, s, m) ==
  /\ Shape(m.buf, m.reader, m.writer)
  /\ ContentOf(m.buf, m.reader, m.writer) = ContentOf(b, r, w) \o s
  /\ Len(m.buf) >= Len(b)
  /\ Len(m.buf) > Len(b) => kCheapPrepend + (m.writer - m.reader) > Len(b)

(* readFd beyond the writable bytes: s1 fills the buffer, s2 is appended.  *)
LEMMA OverflowIs ==
  ASSUME NEW b \in Seq(Byte), NEW r \in Nat, NEW w \in Nat, Shape(b, r, w),
         NEW s \in Seq(Byte), NEW s1 \in Seq(Byte), NEW s2 \in Seq(Byte),
         s1 \o s2 = s, w + Len(s1) = Len(b),
         NEW m, m = Appended(copy(s1, b, w), r, Len(b), s2)
  PROVE  Extended(b, r, w, s, m)
<1> DEFINE d == copy(s1, b, w)
           c == ContentOf(b, r, w)
<1>0. Len(b) \in Nat /\ Len(s1) \in Nat /\ w + Len(s1) <= Len(b)
  BY LenProperties
<1>1. Shape(d, r, w + Len(s1)) /\ ContentOf(d, r, w + Len(s1)) = c \o s1
  BY <1>0, WriteBehind
<1>2. d \in Seq(Byte) /\ Len(d) = Len(b)
  BY <1>0, CopyIs
<1> HIDE DEF d
<1>3. Shape(d, r, Len(b)) /\ ContentOf(d, r, Len(b)) = c \o s1
  BY <1>1
<1>4. /\ Shape(m.buf, m.reader, m.writer)
      /\ m.writer - m.reader = (Len(b) - r) + Len(s2)
      /\ ContentOf(m.buf, m.reader, m.writer) = ContentOf(d, r, Len(b)) \o s2
      /\ Len(m.buf) >= Len(d)
      /\ Len(m.buf) > Len(d) => kCheapPrepend + ((Len(b) - r) + Len(s2)) > Len(d)
  <2>1. m = Appended(d, r, Len(b), s2)
    BY DEF d
  <2> QED
    BY <1>0, <1>2, <1>3, <2>1, AppendedIs
<1>5. c \in Seq(Byte)
  BY ContentIs
<1> HIDE DEF c
<1>6. (c \o s1) \o s2 = c \o (s1 \o s2)
  BY ONLY <1>5, Regroup, s1 \in Seq(Byte), s2 \in Seq(Byte)
<1> QED
  BY <1>2, <1>3, <1>4, <1>6 DEF c, Extended

(* A sequence is its two parts.                                            *)
LEMMA Split ==
  ASSUME NEW s \in Seq(Byte), NEW n \in 0 .. Len(s)
  PROVE  /\ SubSeq(s, 1, n) \in Seq(Byte) /\ Len(SubSeq(s, 1, n)) = n
         /\ SubSeq(s, n + 1, Len(s)) \in Seq(Byte)
         /\ SubSeq(s, 1, n) \o SubSeq(s, n + 1, Len(s)) = s
<1>0. Len(s) \in Nat /\ n \in Nat /\ n <= Len(s)
  BY LenProperties
<1>1. /\ \A i \in 1 .. n : s[i] \in Byte
      /\ \A i \in n + 1 .. Len(s) : s[i] \in Byte
  BY <1>0, ElementOfSeq
<1>2. SubSeq(s, 1, n) \in Seq(Byte) /\ Len(SubSeq(s, 1, n)) = n
  BY <1>0, <1>1, SubSeqProperties
<1>3. SubSeq(s, n + 1, Len(s)) \in Seq(Byte)
  BY <1>0, <1>1, SubSeqProperties
<1>4. 1 \in 1 .. Len(s) + 1 /\ n \in 1 - 1 .. Len(s) /\ Len(s) \in n .. Len(s)
  BY <1>0
<1>5. SubSeq(s, 1, n) \o SubSeq(s, n + 1, Len(s)) = SubSeq(s, 1, Len(s))
  BY ONLY <1>4, ConcatAdjacentSubSeq, s \in Seq(Byte)
<1> QED
  BY <1>2, <1>3, <1>5, SubSeqFull

-----------------------------------------------------------------------------
(* The operations of the class.                                            *)

LEMMA TypeIsShape ==
  TypeOK <=> /\ Shape(buf, readerIndex, writerIndex)
             /\ buf \in Seq(Byte) /\ readerIndex \in Nat /\ writerIndex \in Nat
  BY LenProperties DEF TypeOK, Shape

(* What a step makes of the fields, whatever the operation.                *)
GoodStep(content) ==
  /\ Shape(buf', readerIndex', writerIndex')
  /\ ContentOf(buf', readerIndex', writerIndex') = content
  /\ Len(buf') >= Len(buf)
  /\ Len(buf') > Len(buf) => kCheapPrepend + (writerIndex' - readerIndex') > Len(buf)

LEMMA AppendStep ==
  ASSUME TypeOK, NEW s \in Seq(Byte), append(s)
  PROVE  GoodStep(Content \o s)
<1> DEFINE m == Appended(buf, readerIndex, writerIndex, s)
<1>1. buf' = m.buf /\ readerIndex' = m.reader /\ writerIndex' = m.writer
  BY DEF append, Become
<1> HIDE DEF m
<1>2. /\ Shape(m.buf, m.reader, m.writer)
      /\ m.writer - m.reader = (writerIndex - readerIndex) + Len(s)
      /\ ContentOf(m.buf, m.reader, m.writer) = ContentOf(buf, readerIndex, writerIndex) \o s
      /\ Len(m.buf) >= Len(buf)
      /\ Len(m.buf) > Len(buf)
           => kCheapPrepend + ((writerIndex - readerIndex) + Len(s)) > Len(buf)
  BY TypeIsShape, AppendedIs DEF m
<1> QED
  BY <1>1, <1>2 DEF GoodStep, Content

LEMMA ReadStep ==
  ASSUME TypeOK, NEW s \in Seq(Byte), readFd(s)
  PROVE  GoodStep(Content \o s)
<1>0. /\ Shape(buf, readerIndex, writerIndex)
      /\ buf \in Seq(Byte) /\ readerIndex \in Nat /\ writerIndex \in Nat
      /\ Len(buf) \in Nat /\ Len(s) \in Nat
      /\ readerIndex <= writerIndex /\ writerIndex <= Len(buf)
  BY TypeIsShape, LenProperties DEF Shape
<1>1. CASE Len(s) <= writableBytes
  <2>1. writerIndex + Len(s) <= Len(buf)
    BY <1>0, <1>1 DEF writableBytes
  <2>2. /\ Shape(copy(s, buf, writerIndex), readerIndex, writerIndex + Len(s))
        /\ ContentOf(copy(s, buf, writerIndex), readerIndex, writerIndex + Len(s))
             = ContentOf(buf, readerIndex, writerIndex) \o s
    BY <1>0, <2>1, WriteBehind
  <2>3. Len(copy(s, buf, writerIndex)) = Len(buf)
    BY <1>0, <2>1, CopyIs
  <2>4. /\ buf' = copy(s, buf, writerIndex)
        /\ writerIndex' = writerIndex + Len(s)
        /\ readerIndex' = readerIndex
    BY <1>1 DEF readFd
  <2> QED
    BY <1>0, <2>2, <2>3, <2>4 DEF GoodStep, Content
<1>2. CASE ~(Len(s) <= writableBytes)
  <2> DEFINE room == Len(buf) - writerIndex
             s1 == SubSeq(s, 1, room)
             s2 == SubSeq(s, room + 1, Len(s))
             m == Appended(copy(s1, buf, writerIndex), readerIndex, Len(buf), s2)
  <2>1. /\ buf' = m.buf /\ readerIndex' = m.reader /\ writerIndex' = m.writer
    BY <1>2 DEF readFd, Become, writableBytes
  <2>2. room \in 0 .. Len(s) /\ writerIndex + room = Len(buf)
    BY <1>0, <1>2 DEF writableBytes
  <2> HIDE DEF room
  <2>3. /\ s1 \in Seq(Byte) /\ Len(s1) = room
        /\ s2 \in Seq(Byte) /\ s1 \o s2 = s
    BY <2>2, Split
  <2> HIDE DEF s1, s2
  <2>4. writerIndex + Len(s1) = Len(buf)
    BY <2>2, <2>3
  <2>5. m = Appended(copy(s1, buf, writerIndex), readerIndex, Len(buf), s2)
    OBVIOUS
  <2> HIDE DEF m
  <2>6. Extended(buf, readerIndex, writerIndex, s, m)
    BY <1>0, <2>3, <2>4, <2>5, OverflowIs
  <2> QED
    BY <2>1, <2>6 DEF GoodStep, Content, Extended
<1> QED
  BY <1>1, <1>2

LEMMA PrependStep ==
  ASSUME TypeOK, NEW s \in Seq(Byte), prepend(s)
  PROVE  GoodStep(s \o Content)
<1> DEFINE at == readerIndex - Len(s)
<1>0. /\ Shape(buf, readerIndex, writerIndex)
      /\ buf \in Seq(Byte) /\ readerIndex \in Nat /\ writerIndex \in Nat
      /\ Len(buf) \in Nat /\ Len(s) \in Nat
      /\ readerIndex <= writerIndex /\ writerIndex <= Len(buf)
  BY TypeIsShape, LenProperties DEF Shape
<1>1. /\ at \in Nat /\ at + Len(s) = readerIndex /\ at + Len(s) <= Len(buf)
      /\ buf' = copy(s, buf, at) /\ readerIndex' = at /\ writerIndex' = writerIndex
  BY <1>0 DEF prepend, prependableBytes
<1> HIDE DEF at
<1>2. Len(copy(s, buf, at)) = Len(buf)
  BY <1>0, <1>1, CopyIs
<1>3. /\ Shape(copy(s, buf, at), at, writerIndex)
      /\ ContentOf(copy(s, buf, at), at, writerIndex)
           = s \o ContentOf(buf, readerIndex, writerIndex)
  <2>1. at \in Nat /\ at + Len(s) = readerIndex
    BY <1>1
  <2>2. /\ buf \in Seq(Byte) /\ readerIndex \in Nat /\ writerIndex \in Nat
        /\ Shape(buf, readerIndex, writerIndex)
    BY <1>0
  <2> QED
    BY <2>1, <2>2, WriteInFront
<1> QED
  BY <1>0, <1>1, <1>2, <1>3 DEF GoodStep, Content

(* retrieve takes the bytes from the front, or all of them.                *)
LEMMA RetrieveStep ==
  ASSUME TypeOK, Len(buf) >= kCheapPrepend, NEW len \in Nat, retrieve(len)
  PROVE  GoodStep(IF len < Len(Content)
                  THEN SubSeq(Content, len + 1, Len(Content)) ELSE <<>>)
<1>0. /\ Shape(buf, readerIndex, writerIndex)
      /\ buf \in Seq(Byte) /\ readerIndex \in Nat /\ writerIndex \in Nat
      /\ Len(buf) \in Nat /\ kCheapPrepend \in Nat
      /\ readerIndex <= writerIndex /\ writerIndex <= Len(buf)
  BY TypeIsShape, LenProperties, SizeAssumption DEF Shape, SizeAssumption
<1>1. /\ Content \in Seq(Byte) /\ Len(Content) = writerIndex - readerIndex
      /\ \A i \in 1 .. writerIndex - readerIndex : Content[i] = buf[readerIndex + i]
  BY <1>0, ContentIs DEF Content
<1>2. CASE len < writerIndex - readerIndex
  <2> DEFINE r == readerIndex + len
             left == ContentOf(buf, r, writerIndex)
             right == SubSeq(Content, len + 1, Len(Content))
  <2>1. buf' = buf /\ readerIndex' = r /\ writerIndex' = writerIndex
    BY <1>2 DEF retrieve, readableBytes
  <2>2. r \in Nat /\ Shape(buf, r, writerIndex)
    BY <1>0, <1>2 DEF Shape
  <2>3. /\ left \in Seq(Byte) /\ Len(left) = writerIndex - r
        /\ \A i \in 1 .. writerIndex - r : left[i] = buf[r + i]
    <3> HIDE DEF r
    <3> QED
      BY <1>0, <2>2, ContentIs
  <2>4. /\ right \in Seq(Byte) /\ Len(right) = Len(Content) - len
        /\ \A i \in 1 .. Len(Content) - len : right[i] = Content[len + i]
    <3>1. /\ len + 1 \in Int /\ Len(Content) \in Int /\ len + 1 <= Len(Content)
          /\ \A i \in len + 1 .. Len(Content) : Content[i] \in Byte
      BY <1>0, <1>1, <1>2, ElementOfSeq
    <3>2. /\ right \in Seq(Byte)
          /\ Len(right) = Len(Content) - (len + 1) + 1
          /\ \A i \in 1 .. Len(Content) - (len + 1) + 1 :
               right[i] = Content[len + 1 + i - 1]
      BY <3>1, SubSeqProperties
    <3> QED
      BY <3>1, <3>2
  <2>5. ASSUME NEW i \in 1 .. Len(left) PROVE left[i] = right[i]
    <3>1. i \in 1 .. writerIndex - r /\ i \in 1 .. Len(Content) - len
      BY <1>0, <1>1, <2>3
    <3>2. len + i \in 1 .. writerIndex - readerIndex
      BY <1>0, <3>1
    <3>3. readerIndex + (len + i) = r + i
      BY <1>0, <3>1
    <3> HIDE DEF left, right, r
    <3> QED
      BY <1>1, <2>3, <2>4, <3>1, <3>2, <3>3
  <2>6. Len(left) = Len(right)
    BY <1>0, <1>1, <2>3, <2>4
  <2> HIDE DEF left, right
  <2>7. left = right
    BY <2>3, <2>4, <2>5, <2>6, SeqEqual
  <2>8. len < Len(Content)
    BY <1>1, <1>2
  <2> QED
    BY <1>0, <2>1, <2>2, <2>7, <2>8 DEF GoodStep, left, right
<1>3. CASE ~(len < writerIndex - readerIndex)
  <2>1. buf' = buf /\ readerIndex' = kCheapPrepend /\ writerIndex' = kCheapPrepend
    BY <1>3 DEF retrieve, readableBytes
  <2>2. Shape(buf, kCheapPrepend, kCheapPrepend)
    BY <1>0 DEF Shape
  <2>3. ContentOf(buf, kCheapPrepend, kCheapPrepend) = <<>>
    BY <1>0, SubSeqEmpty DEF ContentOf
  <2>4. ~(len < Len(Content))
    BY <1>1, <1>3
  <2> QED
    BY <1>0, <2>1, <2>2, <2>3, <2>4 DEF GoodStep
<1> QED
  BY <1>2, <1>3

-----------------------------------------------------------------------------
(* The theorems.  A buffer must not shrink below the room kept in front,   *)
(* or retrieve would put the indices past its end.                         *)

BufferInv == TypeOK /\ Len(buf) >= kCheapPrepend

LEMMA InitBuffer == Init => BufferInv /\ BQ!Init
<1> SUFFICES ASSUME Init PROVE BufferInv /\ BQ!Init
  OBVIOUS
<1> DEFINE n == kCheapPrepend + initialSize
<1>1. kCheapPrepend \in Nat /\ n \in Nat /\ n >= kCheapPrepend
  BY SizeAssumption DEF SizeAssumption
<1> HIDE DEF n
<1>2. buf \in [1 .. n -> Byte] /\ readerIndex = kCheapPrepend /\ writerIndex = kCheapPrepend
  BY ByteAssumption DEF Init, n, ByteAssumption
<1>3. buf \in Seq(Byte)
  BY <1>1, <1>2, SeqDef
<1>4. Len(buf) = n
  BY <1>1, <1>2, <1>3, LenProperties
<1>5. ContentOf(buf, kCheapPrepend, kCheapPrepend) = <<>>
  BY <1>1, SubSeqEmpty DEF ContentOf
<1> QED
  BY <1>1, <1>2, <1>3, <1>4, <1>5 DEF BufferInv, TypeOK, BQ!Init, Content

(* Every operation keeps the invariant, adds memory only when it must, and *)
(* is one operation of the byte queue.                                     *)
LEMMA StepBuffer ==
  ASSUME BufferInv, Next
  PROVE  /\ BufferInv'
         /\ Len(buf') > Len(buf) => kCheapPrepend + (writerIndex' - readerIndex') > Len(buf)
         /\ BQ!Next
<1>0. TypeOK /\ Len(buf) >= kCheapPrepend
  BY DEF BufferInv
<1>1. ASSUME NEW c, GoodStep(c)
      PROVE  /\ BufferInv' /\ Content' = c
             /\ Len(buf') > Len(buf) => kCheapPrepend + (writerIndex' - readerIndex') > Len(buf)
  <2>1. buf \in Seq(Byte) /\ Len(buf) \in Nat /\ kCheapPrepend \in Nat
    BY <1>0, LenProperties, SizeAssumption DEF TypeOK, SizeAssumption
  <2>2. /\ Shape(buf', readerIndex', writerIndex')
        /\ Len(buf') >= Len(buf)
    BY <1>1 DEF GoodStep
  <2>3. TypeOK' /\ Len(buf') \in Nat
    BY <2>2, LenProperties DEF Shape, TypeOK
  <2>4. Len(buf') >= kCheapPrepend
    BY <1>0, <2>1, <2>2, <2>3
  <2> QED
    BY <1>1, <2>3, <2>4 DEF GoodStep, BufferInv, Content
<1>2. ASSUME NEW s \in Data, append(s) \/ readFd(s)
      PROVE  GoodStep(Content \o s)
  BY <1>0, <1>2, DataIsSeq, AppendStep, ReadStep
<1>3. ASSUME NEW s \in Data, prepend(s)
      PROVE  GoodStep(s \o Content)
  BY <1>0, <1>3, DataIsSeq, PrependStep
<1>4. ASSUME NEW len \in 0 .. readableBytes, retrieve(len)
      PROVE  /\ GoodStep(IF len < Len(Content)
                         THEN SubSeq(Content, len + 1, Len(Content)) ELSE <<>>)
             /\ len \in 0 .. Len(Content)
  <2>1. Len(Content) = readableBytes /\ readableBytes \in Nat
    <3>1. /\ Shape(buf, readerIndex, writerIndex)
          /\ buf \in Seq(Byte) /\ readerIndex \in Nat /\ writerIndex \in Nat
          /\ Len(buf) \in Nat
      BY <1>0, TypeIsShape, LenProperties
    <3>2. Len(Content) = writerIndex - readerIndex
      BY <3>1, ContentIs DEF Content
    <3> QED
      BY <3>1, <3>2 DEF readableBytes, Shape
  <2>2. len \in Nat
    BY <2>1
  <2> QED
    BY <1>0, <1>4, <2>1, <2>2, RetrieveStep
<1>5. CASE \E s \in Data : append(s) \/ readFd(s)
  <2>1. PICK s \in Data : append(s) \/ readFd(s)
    BY <1>5
  <2>2. GoodStep(Content \o s)
    BY <1>2, <2>1
  <2>3. Content' = Content \o s
    BY <1>1, <2>2
  <2>4. BQ!Next
    BY <2>3 DEF BQ!Next, BQ!Put
  <2> QED
    BY <1>1, <2>2, <2>4
<1>6. CASE \E s \in Data : prepend(s)
  <2>1. PICK s \in Data : prepend(s)
    BY <1>6
  <2>2. GoodStep(s \o Content)
    BY <1>3, <2>1
  <2>3. Content' = s \o Content
    BY <1>1, <2>2
  <2>4. BQ!Next
    BY <2>3 DEF BQ!Next, BQ!PutInFront
  <2> QED
    BY <1>1, <2>2, <2>4
<1>7. CASE \E len \in 0 .. readableBytes : retrieve(len)
  <2>1. PICK len \in 0 .. readableBytes : retrieve(len)
    BY <1>7
  <2> DEFINE left == IF len < Len(Content)
                     THEN SubSeq(Content, len + 1, Len(Content)) ELSE <<>>
  <2>2. GoodStep(left) /\ len \in 0 .. Len(Content)
    BY <1>4, <2>1
  <2> HIDE DEF left
  <2>3. Content' = left
    BY <1>1, <2>2
  <2>4. BQ!Next
    BY <2>2, <2>3 DEF BQ!Next, BQ!Take, left
  <2> QED
    BY <1>1, <2>2, <2>4
<1> QED
  BY <1>5, <1>6, <1>7 DEF Next

(* The indices are ordered and lie within the memory, so no operation      *)
(* reads or writes outside of it: the picture in Buffer.h.                 *)
THEOREM TypeCorrect == Spec => []TypeOK
<1>1. Init => BufferInv
  BY InitBuffer
<1>2. BufferInv /\ [Next]_vars => BufferInv'
  BY StepBuffer DEF vars, BufferInv, TypeOK
<1>3. BufferInv => TypeOK
  BY DEF BufferInv
<1> QED
  BY <1>1, <1>2, <1>3, PTL DEF Spec

(* makeSpace and the append of readFd's extrabuf add memory only when the  *)
(* content with the room in front of it does not fit into what there is.   *)
THEOREM GrowthNeeded == Spec => GrowsOnlyWhenFull
<1>1. Init => BufferInv
  BY InitBuffer
<1>2. BufferInv /\ [Next]_vars => BufferInv'
  BY StepBuffer DEF vars, BufferInv, TypeOK
<1>3. BufferInv /\ [Next]_vars
        => [Len(buf') > Len(buf) => kCheapPrepend + (writerIndex' - readerIndex') > Len(buf)]_vars
  BY StepBuffer DEF vars
<1> QED
  BY <1>1, <1>2, <1>3, PTL DEF Spec, GrowsOnlyWhenFull

(* Through every move and resize, by append, prepend, retrieve and readFd, *)
(* a buffer of any size is a queue of bytes.                               *)
THEOREM BufferIsByteQueue == Spec => ImplementsByteQueue
<1>1. Init => BufferInv /\ BQ!Init
  BY InitBuffer
<1>2. BufferInv /\ [Next]_vars => BufferInv'
  BY StepBuffer DEF vars, BufferInv, TypeOK
<1>3. BufferInv /\ [Next]_vars => [BQ!Next]_Content
  BY StepBuffer DEF vars, Content
<1> QED
  BY <1>1, <1>2, <1>3, PTL DEF Spec, ImplementsByteQueue, BQ!Spec

=============================================================================
