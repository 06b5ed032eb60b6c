------------------------------- MODULE Buffer --------------------------------
(***************************************************************************)
(* The input and output buffers of a connection: src/src/Buffer.cc.        *)
(*                                                                         *)
(*    0 <= readerIndex <= writerIndex <= size                              *)
(*      prependable    readable       writable                             *)
(*                                                                         *)
(* The indices are those of the code, which count from 0; the byte at      *)
(* index i of _buf is buf[i + 1].                                          *)
(***************************************************************************)
EXTENDS Integers, Sequences

CONSTANTS
  kCheapPrepend,  \* the room kept in front of the content
  initialSize,    \* the room for content at first
  ExtraBuf,       \* the size of readFd's extrabuf
  Byte, Zero,     \* the values of a char, and the one resize() fills in
  MaxLen,         \* bound: the length of a byte string put in
  MaxSize         \* bound: the size _buf may grow to

ASSUME SizeAssumption ==
  /\ kCheapPrepend \in Nat /\ initialSize \in Nat /\ ExtraBuf \in Nat \ {0}
  /\ MaxLen \in Nat /\ MaxSize \in Nat
ASSUME ByteAssumption == Zero \in Byte

VARIABLES buf, readerIndex, writerIndex

vars == <<buf, readerIndex, writerIndex>>

readableBytes == writerIndex - readerIndex
writableBytes == Len(buf) - writerIndex
prependableBytes == readerIndex

Data == UNION {[1 .. n -> Byte] : n \in 0 .. MaxLen}

TypeOK ==
  /\ buf \in Seq(Byte)
  /\ readerIndex \in Nat
  /\ writerIndex \in readerIndex .. Len(buf)

Init ==
  /\ buf = [i \in 1 .. kCheapPrepend + initialSize |-> Zero]
  /\ readerIndex = kCheapPrepend
  /\ writerIndex = kCheapPrepend

-----------------------------------------------------------------------------
(* The operations on the memory.                                           *)

(* The bytes between the two indices.                                      *)
ContentOf(b, r, w) == SubSeq(b, r + 1, w)

(* std::copy of s to index at.                                             *)
copy(s, b, at) ==
  [i \in 1 .. Len(b) |-> IF i \in at + 1 .. at + Len(s) THEN s[i - at] ELSE b[i]]

(* vector::resize to a larger size.                                        *)
resize(b, size) == [i \in 1 .. size |-> IF i <= Len(b) THEN b[i] ELSE Zero]

(* Grow: the indices stay.                                                 *)
Grown(b, r, w, len) == [buf |-> resize(b, w + len), reader |-> r, writer |-> w]

(* Mutant: the writer index is not that of the moved content.              *)
MovedTooLow(b, r, w) ==
  [buf |-> copy(ContentOf(b, r, w), b, kCheapPrepend),
   reader |-> kCheapPrepend, writer |-> w - r]

(* Reuse the bytes already read: the content moves down.                   *)
Moved(b, r, w) ==
  [buf |-> copy(ContentOf(b, r, w), b, kCheapPrepend),
   reader |-> kCheapPrepend, writer |-> kCheapPrepend + (w - r)]

(* Mutant: the room to keep in front is forgotten.                         *)
FitsIgnoringPrepend(b, r, w, len) == (Len(b) - w) + r >= len

(* Mutant: the bytes already read are not counted.                         *)
FitsBehindOnly(b, r, w, len) == Len(b) - w >= len + kCheapPrepend

(* Are the writable and the read bytes together enough?                    *)
FitsAfterMove(b, r, w, len) == (Len(b) - w) + r >= len + kCheapPrepend

makeSpace(b, r, w, len) ==
  IF FitsAfterMove(b, r, w, len) THEN Moved(b, r, w) ELSE Grown(b, r, w, len)

(* append, from the state of the buffer given.                             *)
Appended(b, r, w, s) ==
  LET m == IF Len(s) > Len(b) - w THEN makeSpace(b, r, w, Len(s))
                                  ELSE [buf |-> b, reader |-> r, writer |-> w]
  IN [buf |-> copy(s, m.buf, m.writer), reader |-> m.reader, writer |-> m.writer + Len(s)]

Become(m) ==
  /\ Len(m.buf) <= MaxSize      \* bound
  /\ buf' = m.buf
  /\ readerIndex' = m.reader
  /\ writerIndex' = m.writer

-----------------------------------------------------------------------------
(* The operations of the class.                                            *)

append(s) == Become(Appended(buf, readerIndex, writerIndex, s))

(* Refused, with a message only, when there is no room in front.           *)
prepend(s) ==
  /\ Len(s) <= prependableBytes
  /\ readerIndex' = readerIndex - Len(s)
  /\ buf' = copy(s, buf, readerIndex - Len(s))
  /\ UNCHANGED writerIndex

(* retrieveAsString(len) returns the bytes and is retrieve(len).           *)
retrieve(len) ==
  /\ IF len < readableBytes
     THEN readerIndex' = readerIndex + len /\ UNCHANGED writerIndex
     ELSE readerIndex' = kCheapPrepend /\ writerIndex' = kCheapPrepend
  /\ UNCHANGED buf

(* What readv may return: no more than the two areas it is given hold.     *)
ReadLimit == IF writableBytes < ExtraBuf THEN writableBytes + ExtraBuf ELSE writableBytes

(* readv fills the writable bytes first; what it put into extrabuf is      *)
(* appended to a buffer that is full to its end.  s is what it read.  When *)
(* it fails, the buffer does not change.                                   *)
readFd(s) ==
  /\ Len(s) <= ReadLimit
  /\ IF Len(s) <= writableBytes
     THEN /\ buf' = copy(s, buf, writerIndex)
          /\ writerIndex' = writerIndex + Len(s)
          /\ UNCHANGED readerIndex
     ELSE Become(Appended(copy(SubSeq(s, 1, writableBytes), buf, writerIndex),
                          readerIndex, Len(buf),
                          SubSeq(s, writableBytes + 1, Len(s))))

Next ==
  \/ \E s \in Data : append(s)
  \/ \E s \in Data : prepend(s)
  \/ \E len \in 0 .. readableBytes : retrieve(len)
  \/ \E s \in Data : readFd(s)

Spec == Init /\ [][Next]_vars

-----------------------------------------------------------------------------
(* Properties.                                                             *)

Content == ContentOf(buf, readerIndex, writerIndex)

(* Whatever moves and resizes happen, the bytes come out as they went in.  *)
BQ == INSTANCE ByteQueue WITH content <- Content
ImplementsByteQueue == BQ!Spec

(* Memory is only added when the content does not fit into what there is,  *)
(* with the room kept in front of it.                                      *)
GrowsOnlyWhenFull ==
  [][Len(buf') > Len(buf) => kCheapPrepend + (writerIndex' - readerIndex') > Len(buf)]_vars

=============================================================================
