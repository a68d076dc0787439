----------------------------- MODULE Ringbuffer -----------------------------
(***************************************************************************)
(* The lock-free ring buffer between the audio device and the codec        *)
(* (src/common/ringbuffer.cpp): one writer, the ALSA capture thread, the   *)
(* JACK process callback or a device timer, and one reader, the main       *)
(* thread in Codec::encode().                                              *)
(*                                                                         *)
(* Each call is split where the other thread can get in between: the load  *)
(* of the pointers, every byte of each memcpy() (in any order), the store  *)
(* of the pointer after the first memcpy() and, when the data wraps round  *)
(* the end of the buffer, the second memcpy() and its pointer store.       *)
(*                                                                         *)
(* A byte is its position in the accepted stream; Uninitialized stands for *)
(* the content of memory that was never written.                           *)
(***************************************************************************)
EXTENDS Integers

CONSTANTS
  Sz,            \* argument of glass_ringbuffer_create(): bytes asked for
  Size,          \* rb->size: the bytes allocated
  Frame,         \* bytes of one frame: sizeof(float) * channels
  MaxWrite,      \* most frames of one write() call of a device
  PcmFrames,     \* frames the codec reads at a time: pcmFrames()
  MaxAsked,      \* bound: bytes the device offers in a behaviour
  StoresInOrder  \* TRUE: each thread's memory accesses take effect in
                 \* program order (x86); FALSE: volatile gives no order
                 \* between the pointer and the data (other processors)

Uninitialized == -1

\* The size glass_ringbuffer_create() computes: the first power of two,
\* from 2 up, that is not less than sz.
CreateSize(sz) ==
  LET powers == {2^p : p \in 1 .. sz}
  IN  CHOOSE s \in powers :
        s >= sz /\ \A t \in powers : t >= sz => s <= t

ASSUME SizeAssumption == Size \in Nat /\ Size > 1
ASSUME UseAssumption ==
  /\ Frame \in Nat \ {0}
  /\ MaxWrite \in Nat \ {0}
  /\ PcmFrames \in Nat \ {0}
  /\ MaxAsked \in Nat
  /\ StoresInOrder \in BOOLEAN
ASSUME CreateAssumption == Size = CreateSize(Sz)

VARIABLES
  buf,        \* rb->buf
  writePtr,   \* rb->write_ptr
  readPtr,    \* rb->read_ptr
  wLen,       \* bytes of the memcpy() the writer is in; 0 between calls
  wNext,      \* bytes of the memcpy() still to follow it (n2), or 0
  wTodo,      \* stores not yet in memory: pairs <<slot, byte>>
  rLen,       \* the same for the reader
  rNext,
  rTodo,      \* loads not yet made: pairs <<slot, place in the stream>>
  rChecked,   \* encode() saw readSpace() >= pcmFrames() and will read
  asked,      \* ghost: bytes the device offered
  accepted,   \* ghost: bytes covered by stores of write_ptr
  taken,      \* ghost: bytes covered by stores of read_ptr
  out         \* ghost: what the codec got: pairs <<place, byte>>

writerVars == <<writePtr, wLen, wNext, wTodo, asked, accepted>>
readerVars == <<readPtr, rLen, rNext, rTodo, rChecked, taken, out>>
vars       == <<buf, writerVars, readerVars>>

-----------------------------------------------------------------------------
(* The arithmetic of the pointers.                                         *)

\* (An operator named Wrong... or Late... is its neighbour with a mistake in
\* it: a property below must fail with it in its neighbour's place.)
Mask(x) == x % Size                  \* x & rb->size_mask

WrongReadSpace ==                    \* the mask forgotten
  IF writePtr > readPtr THEN writePtr - readPtr ELSE writePtr - readPtr + Size

ReadSpace ==
  IF writePtr > readPtr
    THEN writePtr - readPtr
    ELSE Mask(writePtr - readPtr + Size)

WriteSpace ==
  IF writePtr > readPtr      THEN Mask(readPtr - writePtr + Size) - 1
  ELSE IF writePtr < readPtr THEN (readPtr - writePtr) - 1
  ELSE Size - 1

Least(a, b) == IF a < b THEN a ELSE b

\* The lengths n1 and n2 of the two memcpy() calls that move n bytes from
\* or to the position ptr.
FirstPart(ptr, n)  == IF ptr + n > Size THEN Size - ptr ELSE n
SecondPart(ptr, n) == IF ptr + n > Size THEN Mask(ptr + n) ELSE 0

\* The accesses of one memcpy() of n bytes at ptr, when the first byte is
\* number first of the stream.
Accesses(ptr, first, n) == {<<ptr + o, first + o>> : o \in 0 .. n - 1}

\* A pointer store comes after the accesses of the memcpy() before it, on
\* the machines that keep the program order.
WrongLanded(todo) == TRUE
Landed(todo) == StoresInOrder => todo = {}

\* The condition of the loops in encode().
LateBlockReady  == ReadSpace \div Frame > PcmFrames
BlockReady      == ReadSpace \div Frame >= PcmFrames

-----------------------------------------------------------------------------
Init ==
  /\ buf = [i \in 0 .. Size - 1 |-> Uninitialized]
  /\ writePtr = 0 /\ readPtr = 0
  /\ wLen = 0 /\ wNext = 0 /\ wTodo = {}
  /\ rLen = 0 /\ rNext = 0 /\ rTodo = {}
  /\ rChecked = FALSE
  /\ asked = 0 /\ accepted = 0 /\ taken = 0
  /\ out = {}

(***************************************************************************)
(* The writer.  A call that finds no room returns at once and its data is  *)
(* gone; one that finds too little keeps the beginning of its data only.   *)
(* Every caller ignores the returned count.                                *)
(***************************************************************************)
BeginWrite(frames) ==
  LET n == Least(frames * Frame, WriteSpace)
  IN  /\ wLen = 0 /\ wTodo = {}
      /\ asked + frames * Frame <= MaxAsked
      /\ asked' = asked + frames * Frame
      /\ wLen' = FirstPart(writePtr, n)
      /\ wNext' = SecondPart(writePtr, n)
      /\ wTodo' = Accesses(writePtr, accepted, FirstPart(writePtr, n))
      /\ UNCHANGED <<buf, writePtr, accepted, readerVars>>

\* One byte of a memcpy() reaches memory.
StoreByte ==
  \E a \in wTodo :
    /\ buf' = [buf EXCEPT ![a[1]] = a[2]]
    /\ wTodo' = wTodo \ {a}
    /\ UNCHANGED <<writePtr, wLen, wNext, asked, accepted, readerVars>>

\* The store of write_ptr after a memcpy(), and the start of the next one.
PublishWrite ==
  /\ wLen > 0
  /\ Landed(wTodo)
  /\ writePtr' = Mask(writePtr + wLen)
  /\ accepted' = accepted + wLen
  /\ wLen' = wNext
  /\ wNext' = 0
  /\ wTodo' = wTodo \cup Accesses(writePtr', accepted', wNext)
  /\ UNCHANGED <<buf, asked, readerVars>>

(***************************************************************************)
(* The reader: the loops of Codec::encode(), run by the data timer.        *)
(***************************************************************************)
CheckSpace ==
  /\ rLen = 0 /\ rTodo = {} /\ ~rChecked
  /\ BlockReady
  /\ rChecked' = TRUE
  /\ UNCHANGED <<buf, writerVars, readPtr, rLen, rNext, rTodo, taken, out>>

\* read() computes the space again: the writer may have gone on since.
BeginRead ==
  LET n == Least(PcmFrames * Frame, ReadSpace)
  IN  /\ rChecked
      /\ rChecked' = FALSE
      /\ rLen' = FirstPart(readPtr, n)
      /\ rNext' = SecondPart(readPtr, n)
      /\ rTodo' = Accesses(readPtr, taken, FirstPart(readPtr, n))
      /\ UNCHANGED <<buf, writerVars, readPtr, taken, out>>

LoadByte ==
  \E a \in rTodo :
    /\ out' = out \cup {<<a[2], buf[a[1]]>>}
    /\ rTodo' = rTodo \ {a}
    /\ UNCHANGED <<buf, writerVars, readPtr, rLen, rNext, rChecked, taken>>

PublishRead ==
  /\ rLen > 0
  /\ Landed(rTodo)
  /\ readPtr' = Mask(readPtr + rLen)
  /\ taken' = taken + rLen
  /\ rLen' = rNext
  /\ rNext' = 0
  /\ rTodo' = rTodo \cup Accesses(readPtr', taken', rNext)
  /\ UNCHANGED <<buf, writerVars, rChecked, out>>

-----------------------------------------------------------------------------
Writer == (\E frames \in 1 .. MaxWrite : BeginWrite(frames))
          \/ StoreByte \/ PublishWrite
Reader == CheckSpace \/ BeginRead \/ LoadByte \/ PublishRead

Next == Writer \/ Reader

Spec == Init /\ [][Next]_vars

\* The device may stop delivering at any time, but a call it has made runs
\* to its end; the data timer of the connector keeps calling encode().
FairSpec ==
  Spec /\ WF_vars(StoreByte \/ PublishWrite) /\ WF_vars(Reader)

-----------------------------------------------------------------------------
(* Properties.                                                             *)

Slot == 0 .. Size - 1

TypeOK ==
  /\ buf \in [Slot -> Nat \cup {Uninitialized}]
  /\ writePtr \in Slot /\ readPtr \in Slot
  /\ wLen \in 0 .. Size /\ wNext \in 0 .. Size
  /\ rLen \in 0 .. Size /\ rNext \in 0 .. Size
  /\ wTodo \in SUBSET (Slot \X Nat)
  /\ rTodo \in SUBSET (Slot \X Nat)
  /\ rChecked \in BOOLEAN
  /\ asked \in Nat /\ accepted \in Nat /\ taken \in Nat
  /\ out \in SUBSET (Nat \X (Nat \cup {Uninitialized}))

(***************************************************************************)
(* The codec receives, at every place of its input, the byte the device    *)
(* delivered for that place: never memory not yet written, and never a     *)
(* byte of a later lap that overtook the reader.                           *)
(***************************************************************************)
ReadsWhatWasWritten == \A p \in out : p[1] = p[2]

(***************************************************************************)
(* The bytes stored in the buffer and the bytes about to be stored there   *)
(* never exceed its size less one, so a full buffer cannot be mistaken for *)
(* an empty one; a reader never takes more than there is.                  *)
(***************************************************************************)
NeverOverfull ==
  /\ accepted - taken + wLen + wNext < Size
  /\ rLen + rNext <= accepted - taken

(***************************************************************************)
(* No byte is being stored in a slot whose previous content the reader is  *)
(* entitled to load.                                                       *)
(***************************************************************************)
NoSlotInBothHands ==
  \A a \in wTodo, b \in rTodo : a[1] # b[1]

(***************************************************************************)
(* Audio that was accepted is encoded: the codec gets every accepted byte  *)
(* except what does not fill a block yet.                                  *)
(***************************************************************************)
AcceptedIsEncoded ==
  \A k \in 1 .. MaxAsked :
    (accepted >= k) ~> (taken > k - PcmFrames * Frame)

\* The ring buffer implements the pipe: what was handed over is what the
\* finished parts of the reads have put before the codec.
Fifo == INSTANCE ByteFifo WITH
  Capacity <- Size - 1,
  out <- {p \in out : p[1] < taken}

ImplementsFifo == Fifo!FifoSpec

=============================================================================
