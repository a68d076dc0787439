------------------------------- MODULE Codec -------------------------------
(***************************************************************************)
(* The codecs of glasscoder: how the audio of the first ring buffer becomes *)
(* what a connector is given.  A codec takes whole blocks only, first to    *)
(* change the sample rate, where the device has its own, then to encode.    *)
(* The libraries (external) decide which blocks they refuse and how much    *)
(* they keep before the next packet or page is full.                        *)
(***************************************************************************)
EXTENDS Naturals, Sequences, SequencesExt

CONSTANTS SourceBlock,  \* units of the source that pcmFrames() frames last
          StreamBlock   \* and of the stream, at its lower sample rate

ASSUME CodecAssumption == {SourceBlock, StreamBlock} \subseteq Nat \ {0}

VARIABLES
  codec,         \* the audio format
  ring2,         \* codec_ring2, where it is not codec_ring1
  held,          \* units inside the encoder or in an unfinished Ogg page
  prologueSent   \* {vorbis,opus}_prologue_sent

codecVars == <<codec, ring2, held, prologueSent>>

Prologue == 0   \* the Ogg headers; units count from 1

OggCodecs == {"vorbis", "opus"}
FrameCodecs == {"mp2", "mp3", "aacp"}

\* VorbisCodec() resets the flag; OpusCodec() leaves what the memory holds.
CodecInit ==
  /\ codec \in FrameCodecs \cup OggCodecs \cup {"pcm16"}
  /\ ring2 = <<>> /\ held = <<>>
  /\ prologueSent \in IF codec = "opus" THEN BOOLEAN ELSE {FALSE}

\* FdkCodec::startCodec() has no variable bit rate.
CanStart(vbr) == codec = "aacp" => ~vbr

Blocks(ring, size) ==
  [b \in 1..(Len(ring) \div size) |-> SubSeq(ring, (b - 1) * size + 1, b * size)]

Remainder(ring, size) == SubSeq(ring, (Len(ring) \div size) * size + 1, Len(ring))

Joined(blocks, S) == FlattenSeq([b \in DOMAIN blocks |-> IF b \in S THEN blocks[b] ELSE <<>>])

\* The first loop of encode(): blocks that could not be converted are gone.
Converted(ring, good) == ring2 \o Joined(Blocks(ring, SourceBlock), good)

\* What may become of blocks: the ones the library takes, and after how many
\* of them it is done with all it has; the ones after that it keeps.
Pcm16Encodes(blocks) == {[good |-> DOMAIN blocks, done |-> Len(blocks)]}

VorbisEncodes(blocks) == [good : {DOMAIN blocks}, done : 0..Len(blocks)]

\* Vorbis ends the program at the first block it has no memory for; that block
\* and the ones after it count as kept.
MayGiveUp(blocks, e) == codec = "vorbis" /\ e.done < Len(blocks)

\* The others refuse a block now and then; its audio is gone.
OpusEncodes(blocks) == [good : SUBSET DOMAIN blocks, done : 0..Len(blocks)]

Encodings(blocks) ==
  CASE codec = "pcm16"  -> Pcm16Encodes(blocks)
    [] codec = "vorbis" -> VorbisEncodes(blocks)
    [] OTHER            -> OpusEncodes(blocks)

\* The Ogg codecs send their headers with the first block and never again.
Headers(blocks) ==
  IF codec \in OggCodecs /\ blocks # <<>> /\ ~prologueSent THEN <<Prologue>> ELSE <<>>

PrologueSent(blocks) == prologueSent \/ Headers(blocks) # <<>>

\* What encodeData() hands to the connector, each with a write of its own: the
\* headers; with the first block the library is done with, all it kept before;
\* and the blocks.
Output(blocks, e) ==
  [w \in 1..(e.done + 2) |->
     CASE w = 1 -> Headers(blocks)
       [] w = 2 -> IF e.done = 0 THEN <<>> ELSE held
       [] OTHER -> IF w - 2 \in e.good THEN blocks[w - 2] ELSE <<>>]

\* And what the library keeps.
Kept(blocks, e) ==
  IF e.done = 0 THEN held \o Joined(blocks, e.good) ELSE Joined(blocks, e.good \ 1..e.done)
=============================================================================
