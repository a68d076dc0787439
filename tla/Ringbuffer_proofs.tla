-------------------------- MODULE Ringbuffer_proofs --------------------------
(***************************************************************************)
(* For every buffer size, frame size, block size and call size, and while  *)
(* memory accesses take effect in program order: the bytes the codec reads *)
(* are the bytes the device wrote, in order, and the buffer is never       *)
(* overfull.                                                               *)
(***************************************************************************)
EXTENDS Ringbuffer, TLAPS

Used == accepted - taken

\* The bytes between the pointers are the accepted ones not yet taken.
ContentInv ==
  /\ Used \in 0 .. Size - 1
  /\ writePtr = Mask(readPtr + Used)
  /\ \A d \in 0 .. Used - 1 : buf[Mask(readPtr + d)] = taken + d

\* The call in progress fits the free space, each memcpy() stays in the
\* buffer, and what it still has to store is a part of its own data.
WriterInv ==
  /\ Used + wLen + wNext < Size
  /\ writePtr + wLen <= Size
  /\ wNext > 0 => writePtr + wLen = Size
  /\ wLen = 0 => wNext = 0
  /\ \A a \in wTodo : \E o \in 0 .. wLen - 1 : a = <<writePtr + o, accepted + o>>
  /\ \A o \in 0 .. wLen - 1 :
       <<writePtr + o, accepted + o>> \in wTodo \/ buf[writePtr + o] = accepted + o

ReaderInv ==
  /\ rLen + rNext <= Used
  /\ readPtr + rLen <= Size
  /\ rNext > 0 => readPtr + rLen = Size
  /\ rLen = 0 => rNext = 0
  /\ rChecked => rLen = 0
  /\ \A a \in rTodo : \E o \in 0 .. rLen - 1 : a = <<readPtr + o, taken + o>>

IInv == TypeOK /\ ContentInv /\ WriterInv /\ ReaderInv /\ ReadsWhatWasWritten

-----------------------------------------------------------------------------
(* The mask is a subtraction for every value the code applies it to.       *)
LEMMA MaskValue ==
  ASSUME NEW x \in 0 .. 2 * Size - 1
  PROVE  Mask(x) = IF x < Size THEN x ELSE x - Size
<1> USE SizeAssumption
<1>1. CASE x < Size
  BY <1>1 DEF Mask
<1>2. CASE ~(x < Size)
  BY <1>2 DEF Mask
<1> QED BY <1>1, <1>2

(* The two parts of a copy add up to it; the first stays in the buffer and *)
(* ends at its end when there is a second.                                 *)
LEMMA Parts ==
  ASSUME NEW ptr \in Slot, NEW n \in 0 .. Size - 1
  PROVE  /\ FirstPart(ptr, n) \in 0 .. n
         /\ SecondPart(ptr, n) = n - FirstPart(ptr, n)
         /\ ptr + FirstPart(ptr, n) <= Size
         /\ SecondPart(ptr, n) > 0 => ptr + FirstPart(ptr, n) = Size
         /\ FirstPart(ptr, n) = 0 => SecondPart(ptr, n) = 0
<1>1. ptr + n \in 0 .. 2 * Size - 1
  BY SizeAssumption DEF Slot
<1>2. Mask(ptr + n) = IF ptr + n < Size THEN ptr + n ELSE ptr + n - Size
  BY <1>1, MaskValue, SizeAssumption DEF Slot
<1> QED BY <1>2, SizeAssumption DEF FirstPart, SecondPart, Slot

(* What the pointers say about the space is what is really there.          *)
LEMMA Spaces ==
  ASSUME TypeOK, ContentInv
  PROVE  ReadSpace = Used /\ WriteSpace = Size - 1 - Used
<1> USE SizeAssumption
<1>0. writePtr \in 0 .. Size - 1 /\ readPtr \in 0 .. Size - 1 /\ Used \in 0 .. Size - 1
  BY DEF TypeOK, Slot, ContentInv
<1>1. writePtr = IF readPtr + Used < Size THEN readPtr + Used ELSE readPtr + Used - Size
  <2>1. readPtr + Used \in 0 .. 2 * Size - 1
    BY <1>0
  <2> QED BY <1>0, <2>1, MaskValue DEF ContentInv
<1>2. ASSUME writePtr <= readPtr
      PROVE  Mask(writePtr - readPtr + Size) =
               IF writePtr < readPtr THEN writePtr - readPtr + Size ELSE 0
  <2>1. writePtr - readPtr + Size \in 0 .. 2 * Size - 1
    BY <1>0, <1>2
  <2> QED BY <1>0, <2>1, <1>2, MaskValue
<1>3. ASSUME writePtr > readPtr
      PROVE  Mask(readPtr - writePtr + Size) = readPtr - writePtr + Size
  <2>1. readPtr - writePtr + Size \in 0 .. 2 * Size - 1
    BY <1>0, <1>3
  <2> QED BY <1>0, <2>1, <1>3, MaskValue
<1>4. ReadSpace = Used
  BY <1>0, <1>1, <1>2 DEF ReadSpace
<1>5. WriteSpace = Size - 1 - Used
  BY <1>0, <1>1, <1>3 DEF WriteSpace
<1> QED BY <1>4, <1>5

(* Different distances from the read pointer are different slots.          *)
LEMMA MaskInjective ==
  ASSUME NEW p \in Slot, NEW d \in 0 .. Size - 1, NEW e \in 0 .. Size - 1,
         Mask(p + d) = Mask(p + e)
  PROVE  d = e
<1> USE SizeAssumption
<1>0. p \in 0 .. Size - 1
  BY DEF Slot
<1>1. p + d \in 0 .. 2 * Size - 1 /\ p + e \in 0 .. 2 * Size - 1
  BY <1>0
<1>2. Mask(p + d) = (IF p + d < Size THEN p + d ELSE p + d - Size)
  BY <1>0, <1>1, MaskValue
<1>3. Mask(p + e) = (IF p + e < Size THEN p + e ELSE p + e - Size)
  BY <1>0, <1>1, MaskValue
<1> QED BY <1>0, <1>1, <1>2, <1>3

(* The slot of offset o of the writer's memcpy() is the one that is Used + *)
(* o places after the read pointer.                                        *)
LEMMA WriterSlot ==
  ASSUME TypeOK, ContentInv, WriterInv, NEW o \in 0 .. wLen - 1
  PROVE  /\ writePtr + o \in Slot
         /\ Used + o \in 0 .. Size - 1
         /\ writePtr + o = Mask(readPtr + (Used + o))
<1> USE SizeAssumption
<1>1. /\ writePtr \in 0 .. Size - 1 /\ readPtr \in 0 .. Size - 1
      /\ wLen \in 0 .. Size /\ wNext \in 0 .. Size
      /\ Used \in 0 .. Size - 1
      /\ Used + wLen + wNext < Size /\ writePtr + wLen <= Size
      /\ writePtr = Mask(readPtr + Used)
  BY DEF TypeOK, Slot, ContentInv, WriterInv
<1>2. /\ readPtr + Used \in 0 .. 2 * Size - 1
      /\ readPtr + (Used + o) \in 0 .. 2 * Size - 1
  BY <1>1
<1>3. writePtr = IF readPtr + Used < Size THEN readPtr + Used ELSE readPtr + Used - Size
  BY <1>1, <1>2, MaskValue
<1>4. Mask(readPtr + (Used + o)) = IF readPtr + (Used + o) < Size
                                     THEN readPtr + (Used + o)
                                     ELSE readPtr + (Used + o) - Size
  BY <1>1, <1>2, MaskValue
<1> QED BY <1>1, <1>3, <1>4 DEF Slot

(* The byte the reader loads at offset o of its memcpy() is the one for    *)
(* that place of the stream.                                               *)
LEMMA ReaderSlot ==
  ASSUME TypeOK, ContentInv, ReaderInv, NEW o \in 0 .. rLen - 1
  PROVE  buf[readPtr + o] = taken + o
<1>1. /\ readPtr \in 0 .. Size - 1 /\ rLen \in 0 .. Size /\ rNext \in 0 .. Size
      /\ Used \in 0 .. Size - 1 /\ rLen + rNext <= Used /\ readPtr + rLen <= Size
  BY DEF TypeOK, Slot, ContentInv, ReaderInv
<1>2. o \in 0 .. Used - 1 /\ readPtr + o \in 0 .. 2 * Size - 1 /\ readPtr + o < Size
  BY <1>1, SizeAssumption
<1>3. Mask(readPtr + o) = readPtr + o
  BY <1>1, <1>2, MaskValue
<1> QED BY <1>2, <1>3 DEF ContentInv

-----------------------------------------------------------------------------
(* An empty ring.                                                          *)
LEMMA InitInv == Init => IInv
<1> SUFFICES ASSUME Init PROVE IInv
  OBVIOUS
<1> USE SizeAssumption DEF Init, Used
<1>1. Mask(0) = 0
  BY MaskValue
<1>2. TypeOK
  <2>1. buf \in [Slot -> Nat \cup {Uninitialized}]
    BY DEF Slot
  <2>2. wTodo \in SUBSET (Slot \X Nat) /\ rTodo \in SUBSET (Slot \X Nat)
        /\ out \in SUBSET (Nat \X (Nat \cup {Uninitialized}))
    OBVIOUS
  <2>3. writePtr \in Slot /\ readPtr \in Slot
    BY DEF Slot
  <2>4. /\ wLen \in 0 .. Size /\ wNext \in 0 .. Size
        /\ rLen \in 0 .. Size /\ rNext \in 0 .. Size
        /\ asked \in Nat /\ accepted \in Nat /\ taken \in Nat
    OBVIOUS
  <2>5. rChecked \in BOOLEAN
    OBVIOUS
  <2> QED BY <2>1, <2>2, <2>3, <2>4, <2>5, Zenon DEF TypeOK
<1>3. ContentInv
  BY <1>1 DEF ContentInv
<1>4. WriterInv /\ ReaderInv /\ ReadsWhatWasWritten
  BY DEF WriterInv, ReaderInv, ReadsWhatWasWritten
<1> QED BY <1>2, <1>3, <1>4 DEF IInv

(* A new call of write() takes at most the free space.                     *)
LEMMA BeginWriteInv ==
  ASSUME IInv, NEW frames \in 1 .. MaxWrite, BeginWrite(frames)
  PROVE  IInv'
<1> USE SizeAssumption DEF IInv
<1> DEFINE n == Least(frames * Frame, WriteSpace)
<1>1. frames * Frame \in Nat
  BY UseAssumption
<1>2. Used \in 0 .. Size - 1 /\ WriteSpace = Size - 1 - Used
  BY Spaces DEF ContentInv
<1>3. n \in 0 .. Size - 1 /\ Used + n < Size
  BY <1>1, <1>2 DEF Least
<1>4. writePtr \in Slot /\ asked \in Nat /\ accepted \in Nat
  BY DEF TypeOK
<1> HIDE DEF n
<1>5. /\ FirstPart(writePtr, n) \in 0 .. n
      /\ SecondPart(writePtr, n) = n - FirstPart(writePtr, n)
      /\ writePtr + FirstPart(writePtr, n) <= Size
      /\ SecondPart(writePtr, n) > 0 => writePtr + FirstPart(writePtr, n) = Size
      /\ FirstPart(writePtr, n) = 0 => SecondPart(writePtr, n) = 0
  BY <1>3, <1>4, Parts
<1>6. /\ wLen' = FirstPart(writePtr, n) /\ wNext' = SecondPart(writePtr, n)
      /\ wTodo' = Accesses(writePtr, accepted, FirstPart(writePtr, n))
      /\ asked' = asked + frames * Frame
      /\ UNCHANGED <<buf, writePtr, accepted, readerVars>>
  BY DEF BeginWrite, n
<1> USE DEF readerVars
<1>7. wLen' \in 0 .. Size /\ wNext' \in 0 .. Size
  BY <1>3, <1>5, <1>6
<1>8. wTodo' \in SUBSET (Slot \X Nat)
  BY <1>3, <1>4, <1>5, <1>6 DEF Accesses, Slot
<1>9. TypeOK'
  BY <1>1, <1>4, <1>6, <1>7, <1>8 DEF TypeOK
<1>10. ContentInv'
  BY <1>6 DEF ContentInv, Used
<1>11. WriterInv'
  BY <1>2, <1>3, <1>5, <1>6 DEF WriterInv, Used, Accesses
<1>12. ReaderInv' /\ ReadsWhatWasWritten'
  BY <1>6 DEF ReaderInv, Used, ReadsWhatWasWritten
<1> QED BY <1>9, <1>10, <1>11, <1>12

(* A byte is stored in a slot that holds no byte the reader may still load. *)
LEMMA StoreByteInv ==
  ASSUME IInv, StoreByte
  PROVE  IInv'
<1> USE SizeAssumption DEF IInv
<1>1. PICK a \in wTodo :
        /\ buf' = [buf EXCEPT ![a[1]] = a[2]]
        /\ wTodo' = wTodo \ {a}
        /\ UNCHANGED <<writePtr, wLen, wNext, asked, accepted, readerVars>>
  BY DEF StoreByte
<1>2. PICK o \in 0 .. wLen - 1 : a = <<writePtr + o, accepted + o>>
  BY DEF WriterInv
<1> USE DEF readerVars
<1>3. /\ writePtr + o \in Slot /\ Used + o \in 0 .. Size - 1
      /\ writePtr + o = Mask(readPtr + (Used + o))
  BY WriterSlot
<1>4. buf \in [Slot -> Nat \cup {Uninitialized}] /\ accepted + o \in Nat
      /\ writePtr \in 0 .. Size - 1 /\ readPtr \in Slot /\ wLen \in 0 .. Size
      /\ accepted \in Nat
  BY DEF TypeOK, Slot
<1>5. buf' = [buf EXCEPT ![writePtr + o] = accepted + o]
  BY <1>1, <1>2
<1>6. TypeOK'
  <2>1. buf' \in [Slot -> Nat \cup {Uninitialized}]
    BY <1>3, <1>4, <1>5
  <2>2. wTodo' \in SUBSET (Slot \X Nat)
    BY <1>1 DEF TypeOK
  <2> QED BY <1>1, <2>1, <2>2 DEF TypeOK
<1>7. ContentInv'
  <2>1. Used \in 0 .. Size - 1 /\ writePtr = Mask(readPtr + Used)
    BY DEF ContentInv
  <2>2. ASSUME NEW d \in 0 .. Used - 1
        PROVE  buf'[Mask(readPtr + d)] = taken + d
    <3>1. d \in 0 .. Size - 1 /\ d # Used + o
      BY <2>1, <1>3, <1>4
    <3>2. Mask(readPtr + d) # writePtr + o
      BY <1>3, <1>4, <3>1, MaskInjective
    <3>3. buf[Mask(readPtr + d)] = taken + d
      BY DEF ContentInv
    <3>4. Mask(readPtr + d) \in Slot
      <4>1. readPtr + d \in 0 .. 2 * Size - 1
        BY <1>4, <3>1 DEF Slot
      <4> QED BY <4>1, MaskValue DEF Slot
    <3> QED BY <1>4, <1>5, <3>2, <3>3, <3>4
  <2> QED BY <1>1, <2>1, <2>2 DEF ContentInv, Used
<1>8. WriterInv'
  <2>1. ASSUME NEW p \in 0 .. wLen - 1
        PROVE  <<writePtr + p, accepted + p>> \in wTodo'
               \/ buf'[writePtr + p] = accepted + p
    <3>1. writePtr + p \in Slot
      BY WriterSlot
    <3>2. CASE p = o
      BY <1>3, <1>4, <1>5, <3>2
    <3>3. CASE p # o
      <4>1. writePtr + p # writePtr + o
        BY <1>4, <3>3
      <4>2. <<writePtr + p, accepted + p>> # a
        BY <1>2, <4>1
      <4> QED BY <1>1, <1>4, <1>5, <3>1, <4>1, <4>2 DEF WriterInv
    <3> QED BY <3>2, <3>3
  <2> QED BY <1>1, <2>1 DEF WriterInv, Used
<1>9. ReaderInv' /\ ReadsWhatWasWritten'
  BY <1>1 DEF ReaderInv, Used, ReadsWhatWasWritten
<1> QED BY <1>6, <1>7, <1>8, <1>9

(* The pointer store covers exactly the bytes of its memcpy(), all stored. *)
LEMMA PublishWriteInv ==
  ASSUME StoresInOrder, IInv, PublishWrite
  PROVE  IInv'
<1> USE SizeAssumption DEF IInv, readerVars
<1>1. /\ wLen > 0 /\ wTodo = {}
      /\ writePtr' = Mask(writePtr + wLen)
      /\ accepted' = accepted + wLen
      /\ wLen' = wNext /\ wNext' = 0
      /\ wTodo' = Accesses(writePtr', accepted', wNext)
      /\ UNCHANGED <<buf, asked, readerVars>>
  BY DEF PublishWrite, Landed
<1>2. /\ writePtr \in 0 .. Size - 1 /\ readPtr \in 0 .. Size - 1
      /\ wLen \in 0 .. Size /\ wNext \in 0 .. Size
      /\ accepted \in Nat /\ taken \in Nat
      /\ Used \in 0 .. Size - 1 /\ Used = accepted - taken
      /\ Used + wLen + wNext < Size /\ writePtr + wLen <= Size
      /\ wNext > 0 => writePtr + wLen = Size
      /\ writePtr = Mask(readPtr + Used)
  BY DEF TypeOK, Slot, ContentInv, WriterInv, Used
<1>3. /\ Used' = Used + wLen /\ Used' \in 0 .. Size - 1
      /\ accepted' \in Nat
  BY <1>1, <1>2 DEF Used
<1>4. writePtr' = IF writePtr + wLen < Size THEN writePtr + wLen ELSE 0
  <2>1. writePtr + wLen \in 0 .. 2 * Size - 1
    BY <1>2
  <2>2. Mask(writePtr + wLen) = IF writePtr + wLen < Size
                                  THEN writePtr + wLen ELSE writePtr + wLen - Size
    BY <1>2, <2>1, MaskValue
  <2> QED BY <1>1, <1>2, <2>2
<1>5. writePtr' \in 0 .. Size - 1 /\ (wNext > 0 => writePtr' = 0)
  BY <1>2, <1>4
<1>6. TypeOK'
  <2>1. wTodo' \in SUBSET (Slot \X Nat)
    BY <1>1, <1>2, <1>3, <1>5 DEF Accesses, Slot
  <2> QED BY <1>1, <1>2, <1>3, <1>5, <2>1 DEF TypeOK, Slot
<1>7. ContentInv'
  <2>1. writePtr' = Mask(readPtr + (Used + wLen))
    <3>1. writePtr = IF readPtr + Used < Size
                       THEN readPtr + Used ELSE readPtr + Used - Size
      <4>1. readPtr + Used \in 0 .. 2 * Size - 1
        BY <1>2
      <4> QED BY <1>2, <4>1, MaskValue
    <3>2. readPtr + (Used + wLen) \in 0 .. 2 * Size - 1
      BY <1>2
    <3>3. Mask(readPtr + (Used + wLen)) = IF readPtr + (Used + wLen) < Size
                                            THEN readPtr + (Used + wLen)
                                            ELSE readPtr + (Used + wLen) - Size
      BY <1>2, <3>2, MaskValue
    <3> QED BY <1>2, <1>4, <3>1, <3>3
  <2>2. ASSUME NEW d \in 0 .. Used + wLen - 1
        PROVE  buf[Mask(readPtr + d)] = taken + d
    <3>1. CASE d < Used
      <4>1. d \in 0 .. Used - 1
        BY <1>2, <3>1
      <4> QED BY <4>1 DEF ContentInv
    <3>2. CASE ~(d < Used)
      <4>1. d - Used \in 0 .. wLen - 1 /\ Used + (d - Used) = d
        BY <1>2, <3>2
      <4>2. writePtr + (d - Used) = Mask(readPtr + d)
        BY <4>1, WriterSlot
      <4>3. buf[writePtr + (d - Used)] = accepted + (d - Used)
        BY <1>1, <4>1 DEF WriterInv
      <4> QED BY <1>2, <4>1, <4>2, <4>3
    <3> QED BY <3>1, <3>2
  <2>3. UNCHANGED <<buf, readPtr, taken>>
    BY <1>1
  <2>4. writePtr' = Mask(readPtr' + Used')
    BY <1>3, <2>1, <2>3
  <2>5. \A d \in 0 .. Used' - 1 : buf'[Mask(readPtr' + d)] = taken' + d
    <3>1. Used' - 1 = Used + wLen - 1
      BY <1>2, <1>3
    <3> QED BY <2>2, <2>3, <3>1
  <2> QED BY <1>3, <2>4, <2>5 DEF ContentInv
<1>8. WriterInv'
  BY <1>1, <1>2, <1>3, <1>5 DEF WriterInv, Accesses
<1>9. ReaderInv' /\ ReadsWhatWasWritten'
  <2>1. rLen \in 0 .. Size /\ rNext \in 0 .. Size
    BY DEF TypeOK
  <2> QED BY <1>1, <1>2, <1>3, <2>1 DEF ReaderInv, ReadsWhatWasWritten
<1> QED BY <1>6, <1>7, <1>8, <1>9

(* The reader asks for the space there is.                                 *)
LEMMA CheckSpaceInv ==
  ASSUME IInv, CheckSpace
  PROVE  IInv'
<1> USE DEF IInv, writerVars
<1>1. /\ rLen = 0 /\ rChecked' = TRUE
      /\ UNCHANGED <<buf, writerVars, readPtr, rLen, rNext, rTodo, taken, out>>
  BY DEF CheckSpace
<1>2. TypeOK' /\ ContentInv' /\ WriterInv' /\ ReadsWhatWasWritten'
  BY <1>1 DEF TypeOK, ContentInv, WriterInv, ReadsWhatWasWritten, Used
<1>3. ReaderInv'
  BY <1>1 DEF ReaderInv, Used
<1> QED BY <1>2, <1>3

(* A new call of read() takes at most the bytes that are there.            *)
LEMMA BeginReadInv ==
  ASSUME IInv, BeginRead
  PROVE  IInv'
<1> USE SizeAssumption DEF IInv, writerVars
<1> DEFINE n == Least(PcmFrames * Frame, ReadSpace)
<1>1. PcmFrames * Frame \in Nat
  BY UseAssumption
<1>2. Used \in 0 .. Size - 1 /\ ReadSpace = Used
  BY Spaces DEF ContentInv
<1>3. n \in 0 .. Size - 1 /\ n <= Used
  BY <1>1, <1>2 DEF Least
<1>4. readPtr \in Slot /\ taken \in Nat
  BY DEF TypeOK
<1> HIDE DEF n
<1>5. /\ FirstPart(readPtr, n) \in 0 .. n
      /\ SecondPart(readPtr, n) = n - FirstPart(readPtr, n)
      /\ readPtr + FirstPart(readPtr, n) <= Size
      /\ SecondPart(readPtr, n) > 0 => readPtr + FirstPart(readPtr, n) = Size
      /\ FirstPart(readPtr, n) = 0 => SecondPart(readPtr, n) = 0
  BY <1>3, <1>4, Parts
<1>6. /\ rLen' = FirstPart(readPtr, n) /\ rNext' = SecondPart(readPtr, n)
      /\ rTodo' = Accesses(readPtr, taken, FirstPart(readPtr, n))
      /\ rChecked' = FALSE
      /\ UNCHANGED <<buf, writerVars, readPtr, taken, out>>
  BY DEF BeginRead, n
<1>7. rLen' \in 0 .. Size /\ rNext' \in 0 .. Size
  BY <1>3, <1>5, <1>6
<1>8. rTodo' \in SUBSET (Slot \X Nat)
  BY <1>3, <1>4, <1>5, <1>6 DEF Accesses, Slot
<1>9. TypeOK'
  BY <1>4, <1>6, <1>7, <1>8 DEF TypeOK
<1>10. ContentInv' /\ WriterInv' /\ ReadsWhatWasWritten'
  BY <1>6 DEF ContentInv, WriterInv, ReadsWhatWasWritten, Used
<1>11. ReaderInv'
  <2>1. Used' = Used /\ rLen' + rNext' <= Used
    BY <1>2, <1>3, <1>5, <1>6 DEF Used
  <2>2. \A a \in rTodo' : \E o \in 0 .. rLen' - 1 : a = <<readPtr' + o, taken' + o>>
    BY <1>6 DEF Accesses
  <2> QED BY <1>5, <1>6, <2>1, <2>2 DEF ReaderInv
<1> QED BY <1>9, <1>10, <1>11

(* The byte loaded is the one for its place in the stream.                 *)
LEMMA LoadByteInv ==
  ASSUME IInv, LoadByte
  PROVE  IInv'
<1> USE DEF IInv, writerVars
<1>1. PICK a \in rTodo :
        /\ out' = out \cup {<<a[2], buf[a[1]]>>}
        /\ rTodo' = rTodo \ {a}
        /\ UNCHANGED <<buf, writerVars, readPtr, rLen, rNext, rChecked, taken>>
  BY DEF LoadByte
<1>2. PICK o \in 0 .. rLen - 1 : a = <<readPtr + o, taken + o>>
  BY DEF ReaderInv
<1>3. out' = out \cup {<<taken + o, taken + o>>}
  BY <1>1, <1>2, ReaderSlot
<1>4. taken + o \in Nat
  BY DEF TypeOK
<1>5. TypeOK'
  BY <1>1, <1>3, <1>4 DEF TypeOK
<1>6. ContentInv' /\ WriterInv' /\ ReaderInv'
  BY <1>1 DEF ContentInv, WriterInv, ReaderInv, Used
<1>7. ReadsWhatWasWritten'
  BY <1>3 DEF ReadsWhatWasWritten
<1> QED BY <1>5, <1>6, <1>7

(* The pointer store releases exactly the bytes of its memcpy(), all read. *)
LEMMA PublishReadInv ==
  ASSUME StoresInOrder, IInv, PublishRead
  PROVE  IInv'
<1> USE SizeAssumption DEF IInv, writerVars
<1>1. /\ rLen > 0 /\ rTodo = {}
      /\ readPtr' = Mask(readPtr + rLen)
      /\ taken' = taken + rLen
      /\ rLen' = rNext /\ rNext' = 0
      /\ rTodo' = Accesses(readPtr', taken', rNext)
      /\ UNCHANGED <<buf, writerVars, rChecked, out>>
  BY DEF PublishRead, Landed
<1>2. /\ readPtr \in 0 .. Size - 1 /\ rLen \in 0 .. Size /\ rNext \in 0 .. Size
      /\ wLen \in 0 .. Size /\ wNext \in 0 .. Size
      /\ accepted \in Nat /\ taken \in Nat /\ rChecked \in BOOLEAN
      /\ Used \in 0 .. Size - 1 /\ Used = accepted - taken
      /\ rLen + rNext <= Used /\ readPtr + rLen <= Size
      /\ rNext > 0 => readPtr + rLen = Size
      /\ rChecked => rLen = 0
  BY DEF TypeOK, Slot, ContentInv, ReaderInv, Used
<1>3. Used' = Used - rLen /\ Used' \in 0 .. Size - 1 /\ taken' \in Nat
  BY <1>1, <1>2 DEF Used
<1>4. readPtr' = IF readPtr + rLen < Size THEN readPtr + rLen ELSE 0
  <2>1. readPtr + rLen \in 0 .. 2 * Size - 1
    BY <1>2
  <2>2. Mask(readPtr + rLen) = IF readPtr + rLen < Size
                                 THEN readPtr + rLen ELSE readPtr + rLen - Size
    BY <1>2, <2>1, MaskValue
  <2> QED BY <1>1, <1>2, <2>2
<1>5. readPtr' \in 0 .. Size - 1 /\ (rNext > 0 => readPtr' = 0)
  BY <1>2, <1>4
<1>6. ASSUME NEW d \in 0 .. Used - rLen
      PROVE  Mask(readPtr' + d) = Mask(readPtr + (rLen + d))
  <2> DEFINE q == readPtr'
  <2>0. q \in 0 .. Size - 1 /\ d \in 0 .. Size - 1 /\ rLen + d <= Used
    BY <1>2, <1>5
  <2> HIDE DEF q
  <2>1. q + d \in 0 .. 2 * Size - 1 /\ readPtr + (rLen + d) \in 0 .. 2 * Size - 1
    BY <1>2, <2>0
  <2>2. Mask(q + d) = IF q + d < Size THEN q + d ELSE q + d - Size
    BY <2>0, <2>1, MaskValue
  <2>3. Mask(readPtr + (rLen + d)) = IF readPtr + (rLen + d) < Size
                                       THEN readPtr + (rLen + d)
                                       ELSE readPtr + (rLen + d) - Size
    BY <1>2, <2>1, MaskValue
  <2> QED BY <1>2, <1>4, <2>0, <2>2, <2>3 DEF q
<1>7. TypeOK'
  <2>1. rTodo' \in SUBSET (Slot \X Nat)
    BY <1>1, <1>2, <1>3, <1>5 DEF Accesses, Slot
  <2> QED BY <1>1, <1>2, <1>3, <1>5, <2>1 DEF TypeOK, Slot
<1>8. ContentInv'
  <2>1. writePtr' = Mask(readPtr' + Used')
    <3>1. writePtr = Mask(readPtr + (rLen + Used'))
      BY <1>2, <1>3 DEF ContentInv
    <3> QED BY <1>1, <1>2, <1>3, <1>6, <3>1
  <2>2. ASSUME NEW d \in 0 .. Used' - 1
        PROVE  buf'[Mask(readPtr' + d)] = taken' + d
    <3>1. rLen + d \in 0 .. Used - 1 /\ d \in 0 .. Used - rLen
      BY <1>2, <1>3
    <3>2. buf[Mask(readPtr + (rLen + d))] = taken + (rLen + d)
      BY <3>1 DEF ContentInv
    <3> QED BY <1>1, <1>2, <1>6, <3>1, <3>2
  <2> QED BY <1>3, <2>1, <2>2 DEF ContentInv
<1>9. WriterInv'
  BY <1>1, <1>2, <1>3 DEF WriterInv
<1>10. ReaderInv'
  BY <1>1, <1>2, <1>3, <1>5 DEF ReaderInv, Accesses
<1>11. ReadsWhatWasWritten'
  BY <1>1 DEF ReadsWhatWasWritten
<1> QED BY <1>7, <1>8, <1>9, <1>10, <1>11

-----------------------------------------------------------------------------
(* Each step of the writer and of the reader keeps the invariant.          *)
LEMMA StepInv ==
  ASSUME StoresInOrder, IInv, [Next]_vars
  PROVE  IInv'
<1>1. ASSUME NEW frames \in 1 .. MaxWrite, BeginWrite(frames) PROVE IInv'
  BY <1>1, BeginWriteInv
<1>2. CASE StoreByte    BY <1>2, StoreByteInv
<1>3. CASE PublishWrite BY <1>3, PublishWriteInv
<1>4. CASE CheckSpace   BY <1>4, CheckSpaceInv
<1>5. CASE BeginRead    BY <1>5, BeginReadInv
<1>6. CASE LoadByte     BY <1>6, LoadByteInv
<1>7. CASE PublishRead  BY <1>7, PublishReadInv
<1>8. CASE UNCHANGED vars
  BY <1>8 DEF vars, writerVars, readerVars, IInv, TypeOK, ContentInv, WriterInv,
              ReaderInv, ReadsWhatWasWritten, Used
<1> QED BY <1>1, <1>2, <1>3, <1>4, <1>5, <1>6, <1>7, <1>8 DEF Next, Writer, Reader

(* The invariant holds in every state that can be reached.                 *)
LEMMA Inductive ==
  ASSUME StoresInOrder
  PROVE  Spec => []IInv
<1>1. Init => IInv
  BY InitInv
<1>2. IInv /\ [Next]_vars => IInv'
  BY StepInv
<1> QED BY <1>1, <1>2, PTL DEF Spec

(***************************************************************************)
(* Type correctness of the ring buffer and of the two calls in progress.   *)
(***************************************************************************)
THEOREM TypeCorrect ==
  ASSUME StoresInOrder
  PROVE  Spec => []TypeOK
<1>1. IInv => TypeOK
  BY DEF IInv
<1> QED BY <1>1, Inductive, PTL

(***************************************************************************)
(* At every place of its input the codec gets the byte the device wrote    *)
(* there, whatever the sizes and the interleaving of the two threads.      *)
(***************************************************************************)
THEOREM NoStaleByte ==
  ASSUME StoresInOrder
  PROVE  Spec => []ReadsWhatWasWritten
<1>1. IInv => ReadsWhatWasWritten
  BY DEF IInv
<1> QED BY <1>1, Inductive, PTL

(***************************************************************************)
(* The buffer always keeps one slot free, and no read takes more than was  *)
(* accepted.                                                               *)
(***************************************************************************)
THEOREM NotOverfull ==
  ASSUME StoresInOrder
  PROVE  Spec => []NeverOverfull
<1>1. IInv => NeverOverfull
  BY DEF IInv, WriterInv, ReaderInv, NeverOverfull, Used
<1> QED BY <1>1, Inductive, PTL

(***************************************************************************)
(* The slots the writer still has to store are never slots the reader      *)
(* still has to load.                                                      *)
(***************************************************************************)
THEOREM NoRace ==
  ASSUME StoresInOrder
  PROVE  Spec => []NoSlotInBothHands
<1>1. IInv => NoSlotInBothHands
  <2> SUFFICES ASSUME IInv, NEW a \in wTodo, NEW b \in rTodo, a[1] = b[1]
               PROVE  FALSE
    BY DEF NoSlotInBothHands
  <2> USE SizeAssumption DEF IInv
  <2>1. PICK o \in 0 .. wLen - 1 : a = <<writePtr + o, accepted + o>>
    BY DEF WriterInv
  <2>2. PICK p \in 0 .. rLen - 1 : b = <<readPtr + p, taken + p>>
    BY DEF ReaderInv
  <2>3. /\ readPtr \in 0 .. Size - 1 /\ rLen \in 0 .. Size /\ rNext \in 0 .. Size
        /\ Used \in 0 .. Size - 1 /\ rLen + rNext <= Used
        /\ readPtr + rLen <= Size
    BY DEF TypeOK, Slot, ContentInv, ReaderInv
  <2>4. Used + o \in 0 .. Size - 1 /\ readPtr + p = Mask(readPtr + (Used + o))
    BY <2>1, <2>2, WriterSlot
  <2>5. p \in 0 .. Size - 1 /\ p < Used /\ readPtr + p = Mask(readPtr + p)
    <3>1. readPtr + p \in 0 .. 2 * Size - 1 /\ readPtr + p < Size
      BY <2>3
    <3> QED BY <2>3, <3>1, MaskValue
  <2>6. p = Used + o
    BY <2>3, <2>4, <2>5, MaskInjective DEF Slot
  <2> QED BY <2>3, <2>5, <2>6
<1> QED BY <1>1, Inductive, PTL

-----------------------------------------------------------------------------
(* What the codec has: every byte of the finished copies, and of the copy  *)
(* in progress those that are no longer to be loaded.                      *)
OutInv ==
  /\ \A p \in out : p[1] < taken + rLen
  /\ \A i \in 0 .. taken - 1 : <<i, i>> \in out
  /\ \A o \in 0 .. rLen - 1 :
       <<readPtr + o, taken + o>> \in rTodo \/ <<taken + o, taken + o>> \in out

(* Nothing is out before the first copy.                                   *)
LEMMA OutInit == Init => OutInv
  BY DEF Init, OutInv

(* Steps of the writer, and of the reader between its copies, touch none   *)
(* of it.                                                                  *)
LEMMA OutUntouched ==
  ASSUME OutInv, UNCHANGED <<readPtr, rLen, rTodo, taken, out>>
  PROVE  OutInv'
  BY DEF OutInv

(* A copy begins: all of it is to be loaded, none of it is out.            *)
LEMMA OutBeginRead ==
  ASSUME IInv, OutInv, BeginRead
  PROVE  OutInv'
<1>1. rLen = 0 /\ taken \in Nat /\ rLen' \in Nat
  <2>1. rLen = 0
    BY DEF IInv, ReaderInv, BeginRead
  <2>2. rLen' \in 0 .. Size
    <3>1. TypeOK'
      BY BeginReadInv DEF IInv
    <3> QED BY <3>1 DEF TypeOK
  <2> QED BY <2>1, <2>2, SizeAssumption DEF IInv, TypeOK
<1>2. /\ UNCHANGED <<readPtr, taken, out>>
      /\ rTodo' = Accesses(readPtr, taken, rLen')
  BY DEF BeginRead
<1>3. \A p \in out : p[1] \in Nat
  BY DEF IInv, TypeOK
<1>4. \A p \in out' : p[1] < taken' + rLen'
  BY <1>1, <1>2, <1>3 DEF OutInv
<1>5. \A o \in 0 .. rLen' - 1 : <<readPtr + o, taken + o>> \in rTodo'
  BY <1>2 DEF Accesses
<1> QED BY <1>2, <1>4, <1>5 DEF OutInv

(* A byte that is loaded is the one written at that position.              *)
LEMMA OutLoadByte ==
  ASSUME IInv, OutInv, LoadByte
  PROVE  OutInv'
<1>1. PICK a \in rTodo :
        /\ out' = out \cup {<<a[2], buf[a[1]]>>}
        /\ rTodo' = rTodo \ {a}
        /\ UNCHANGED <<readPtr, rLen, taken>>
  BY DEF LoadByte
<1>2. PICK o \in 0 .. rLen - 1 : a = <<readPtr + o, taken + o>>
  BY DEF IInv, ReaderInv
<1>3. out' = out \cup {<<taken + o, taken + o>>}
  BY <1>1, <1>2, ReaderSlot DEF IInv
<1>4. taken \in Nat /\ rLen \in 0 .. Size /\ readPtr \in Nat
  BY SizeAssumption DEF IInv, TypeOK, Slot
<1>5. \A p \in out' : p[1] < taken' + rLen'
  BY <1>1, <1>3, <1>4 DEF OutInv
<1>6. ASSUME NEW k \in 0 .. rLen' - 1
      PROVE  \/ <<readPtr' + k, taken' + k>> \in rTodo'
             \/ <<taken' + k, taken' + k>> \in out'
  <2>1. CASE k = o
    BY <1>1, <1>3, <2>1
  <2>2. CASE k # o
    <3>1. <<readPtr + k, taken + k>> # a
      BY <1>1, <1>2, <1>4, <2>2
    <3> QED BY <1>1, <1>3, <3>1 DEF OutInv
  <2> QED BY <2>1, <2>2
<1> QED BY <1>1, <1>3, <1>5, <1>6 DEF OutInv

(* The copy that ends has loaded all its bytes.                            *)
LEMMA OutPublishRead ==
  ASSUME StoresInOrder, IInv, OutInv, PublishRead
  PROVE  OutInv' /\ (\A i \in taken .. taken' - 1 : <<i, i>> \in out)
<1>1. /\ rTodo = {} /\ taken' = taken + rLen /\ rLen' = rNext /\ out' = out
      /\ rTodo' = Accesses(readPtr', taken', rNext)
  BY DEF PublishRead, Landed
<1>2. taken \in Nat /\ rLen \in 0 .. Size /\ rNext \in 0 .. Size
  BY DEF IInv, TypeOK
<1>3. \A p \in out : p[1] \in Nat
  BY DEF IInv, TypeOK
<1>4. ASSUME NEW i \in taken .. taken' - 1
      PROVE  <<i, i>> \in out
  <2>1. i - taken \in 0 .. rLen - 1 /\ taken + (i - taken) = i
    BY <1>1, <1>2, SizeAssumption
  <2> QED BY <1>1, <2>1 DEF OutInv
<1>5. \A p \in out' : p[1] < taken' + rLen'
  BY <1>1, <1>2, <1>3, SizeAssumption DEF OutInv
<1>6. ASSUME NEW i \in 0 .. (taken + rLen) - 1
      PROVE  <<i, i>> \in out
  <2>1. CASE i < taken
    BY <1>2, <2>1 DEF OutInv
  <2>2. CASE ~(i < taken)
    <3>1. i \in taken .. taken' - 1
      BY <1>1, <1>2, <2>2, SizeAssumption
    <3> QED BY <1>4, <3>1
  <2> QED BY <2>1, <2>2
<1>7. \A o \in 0 .. rLen' - 1 : <<readPtr' + o, taken' + o>> \in rTodo'
  BY <1>1 DEF Accesses
<1>8. \A i \in 0 .. taken' - 1 : <<i, i>> \in out'
  <2>1. \A i \in 0 .. (taken + rLen) - 1 : <<i, i>> \in out
    BY <1>6
  <2> QED BY <1>1, <2>1
<1> QED BY <1>4, <1>5, <1>7, <1>8 DEF OutInv

(* Each step keeps what is out in order.                                   *)
LEMMA StepOut ==
  ASSUME StoresInOrder, IInv, OutInv, [Next]_vars
  PROVE  OutInv'
<1>1. CASE Writer
  BY <1>1, OutUntouched DEF Writer, BeginWrite, StoreByte, PublishWrite, readerVars
<1>2. CASE CheckSpace   BY <1>2, OutUntouched DEF CheckSpace
<1>3. CASE BeginRead    BY <1>3, OutBeginRead
<1>4. CASE LoadByte     BY <1>4, OutLoadByte
<1>5. CASE PublishRead  BY <1>5, OutPublishRead
<1>6. CASE UNCHANGED vars
  BY <1>6, OutUntouched DEF vars, readerVars
<1> QED BY <1>1, <1>2, <1>3, <1>4, <1>5, <1>6 DEF Next, Reader

(* The record of the pipe: what the finished copies have delivered.        *)
Delivered == {p \in out : p[1] < taken}

(* A pair below a limit is among the pairs below it.                       *)
LEMMA BelowLimit ==
  ASSUME NEW S, NEW n \in Nat, NEW i \in 0 .. n - 1, <<i, i>> \in S
  PROVE  <<i, i>> \in {p \in S : p[1] < n}
  OBVIOUS

(* What the codec has from finished copies: the bytes taken, each in place. *)
LEMMA DeliveredIs ==
  ASSUME IInv, OutInv
  PROVE  Delivered = {<<i, i>> : i \in 0 .. taken - 1}
<1>1. taken \in Nat
  BY DEF IInv, TypeOK
<1>2. ASSUME NEW p \in Delivered
      PROVE  p[1] \in 0 .. taken - 1 /\ p = <<p[1], p[1]>>
  <2>1. p \in Nat \X (Nat \cup {Uninitialized}) /\ p[1] = p[2] /\ p[1] < taken
    BY DEF Delivered, IInv, TypeOK, ReadsWhatWasWritten
  <2> QED BY <1>1, <2>1
<1>3. ASSUME NEW i \in 0 .. taken - 1
      PROVE  <<i, i>> \in Delivered
  BY <1>1 DEF OutInv, Delivered
<1> QED BY <1>2, <1>3

(* An empty ring is an empty queue.                                        *)
LEMMA InitFifo == Init => Fifo!FifoInit
  BY DEF Init, Fifo!FifoInit

(* A published write is an append, a finished copy a removal, the rest stutters. *)
LEMMA StepFifo ==
  ASSUME StoresInOrder, IInv, OutInv, IInv', OutInv', [Next]_vars
  PROVE  [Fifo!FifoNext]_(Fifo!fifoVars)
<1> USE SizeAssumption
<1>1. /\ accepted \in Nat /\ taken \in Nat
      /\ wLen \in 0 .. Size /\ rLen \in 0 .. Size /\ wNext \in 0 .. Size
      /\ rNext \in 0 .. Size
      /\ Used + wLen + wNext < Size /\ rLen + rNext <= Used
      /\ Used = accepted - taken
  BY DEF IInv, TypeOK, WriterInv, ReaderInv, Used
<1>2. Delivered = {<<i, i>> : i \in 0 .. taken - 1}
  BY DeliveredIs
<1>3. Delivered' = {<<i, i>> : i \in 0 .. taken' - 1}
  <2>1. taken' \in Nat
    BY DEF IInv, TypeOK
  <2>2. ASSUME NEW p \in Delivered'
        PROVE  p[1] \in 0 .. taken' - 1 /\ p = <<p[1], p[1]>>
    <3>1. p \in Nat \X (Nat \cup {Uninitialized}) /\ p[1] = p[2] /\ p[1] < taken'
      BY DEF Delivered, IInv, TypeOK, ReadsWhatWasWritten
    <3> QED BY <2>1, <3>1
  <2>3. ASSUME NEW i \in 0 .. taken' - 1
        PROVE  <<i, i>> \in Delivered'
    <3>1. <<i, i>> \in out'
      BY DEF OutInv
    <3> QED BY <2>1, <3>1, BelowLimit DEF Delivered
  <2> QED BY <2>2, <2>3
<1>4. CASE PublishWrite
  <2>1. accepted' = accepted + wLen /\ wLen > 0 /\ taken' = taken
    BY <1>4 DEF PublishWrite, readerVars
  <2>2. wLen \in 1 .. (Size - 1) - (accepted - taken)
    BY <1>1, <2>1
  <2>3. Delivered' = Delivered
    BY <1>2, <1>3, <2>1
  <2> QED BY <2>1, <2>2, <2>3 DEF Fifo!FifoNext, Fifo!Put, Delivered
<1>5. CASE PublishRead
  <2>1. taken' = taken + rLen /\ rLen > 0 /\ accepted' = accepted
    BY <1>5 DEF PublishRead, writerVars
  <2>2. rLen \in 1 .. accepted - taken
    BY <1>1, <2>1
  <2>3. Delivered' = Delivered \cup {<<i, i>> : i \in taken .. taken + rLen - 1}
    <3>1. 0 .. taken' - 1 = (0 .. taken - 1) \cup (taken .. taken + rLen - 1)
      BY <1>1, <2>1
    <3> QED BY <1>2, <1>3, <3>1
  <2> QED BY <2>1, <2>2, <2>3 DEF Fifo!FifoNext, Fifo!Get, Delivered
<1>6. CASE UNCHANGED <<accepted, taken>>
  <2>1. Delivered' = Delivered
    BY <1>2, <1>3, <1>6
  <2> QED BY <1>6, <2>1 DEF Fifo!fifoVars, Delivered
<1>7. \/ PublishWrite \/ PublishRead \/ UNCHANGED <<accepted, taken>>
  BY DEF Next, Writer, Reader, BeginWrite, StoreByte, CheckSpace, BeginRead,
         LoadByte, vars, writerVars, readerVars
<1> QED BY <1>4, <1>5, <1>6, <1>7

(***************************************************************************)
(* The ring buffer is a lossless, order-preserving pipe of Size - 1 bytes  *)
(* for its two users: every pointer store moves a part of a call, in       *)
(* order, and every other step of either thread is invisible.              *)
(***************************************************************************)
THEOREM IsAFifo ==
  ASSUME StoresInOrder
  PROVE  Spec => ImplementsFifo
<1>1. Init => OutInv /\ Fifo!FifoInit
  BY OutInit, InitFifo
<1>2. IInv /\ OutInv /\ [Next]_vars => OutInv'
  BY StepOut
<1>3. IInv /\ OutInv /\ IInv' /\ OutInv' /\ [Next]_vars
        => [Fifo!FifoNext]_(Fifo!fifoVars)
  BY StepFifo
<1> QED BY <1>1, <1>2, <1>3, Inductive, PTL DEF Spec, ImplementsFifo, Fifo!FifoSpec

==============================================================================
