---------------------------- MODULE AudioDevice ----------------------------
(***************************************************************************)
(* The audio devices of glasscoder, which fill the first ring buffer: a     *)
(* file, ALSA, JACK and AudioScience HPI.  Audio is a sequence of units,    *)
(* numbered in the order the source has them; a device hands over a few at  *)
(* a time.  Samples, gains, meters and the remixing of channels are left    *)
(* out, and so is the muting of a file: none of the connectors modelled     *)
(* here leaves the event loop before it unmutes.                            *)
(*                                                                          *)
(* The ring buffer never fills here; Ringbuffer is about that.              *)
(***************************************************************************)
EXTENDS Naturals, Sequences

CONSTANTS MaxUnits,  \* bound: units of audio the source has
          MaxRead    \* bound: units a device hands over at a time

ASSUME AudioAssumption == MaxUnits \in Nat /\ MaxRead \in Nat \ {0}

VARIABLES
  device,    \* the kind of device
  deviceOn,  \* "off", "joining" (in the JACK graph, no ports yet), "on"
  ownRate,   \* deviceSamplerate() is not the sample rate asked for
  captured,  \* units the source has produced so far
  ring1,     \* codec_ring1, the ring buffer of the device
  lost       \* ghost: units that can no longer reach a file

deviceVars == <<device, deviceOn, ownRate>>
audioVars == <<captured, ring1>>

Devices == {"file", "alsa", "jack", "asihpi"}

DeviceInit ==
  /\ device \in Devices
  /\ deviceOn = "off"
  /\ ownRate = FALSE
  /\ captured = 0 /\ ring1 = <<>>
  /\ lost = {}

Units(from, n) == [i \in 1..n |-> from + i]

\* How many units a device may hand over now; at the end of a file fewer than
\* asked for.
Readable == {n \in 1..MaxRead : captured + n <= MaxUnits}

-------------------------------------------------------------------------------
(* start(): what can go wrong is up to the machine; ok tells the caller. *)

FileStart(ok) ==
  /\ device = "file"
  /\ deviceOn' = IF ok THEN "on" ELSE "off"
  /\ ownRate' \in IF ok THEN BOOLEAN ELSE {ownRate}
  /\ UNCHANGED device

\* The thread of AlsaCallback() runs from here on, at the nearest rate.
AlsaStart(ok) ==
  /\ device = "alsa"
  /\ deviceOn' = IF ok THEN "on" ELSE "off"
  /\ ownRate' \in IF ok THEN BOOLEAN ELSE {ownRate}
  /\ UNCHANGED device

\* jack_activate() lets the callback run before there are ports.
JackJoin(ok) ==
  /\ device = "jack" /\ deviceOn = "off"
  /\ deviceOn' = IF ok THEN "joining" ELSE "off"
  /\ ownRate' \in IF ok THEN BOOLEAN ELSE {ownRate}
  /\ UNCHANGED device

JackRegisterPorts ==
  /\ deviceOn = "joining"
  /\ deviceOn' = "on"
  /\ UNCHANGED <<device, ownRate>>

\* The card records at the rate asked for or not at all.
AsiHpiStart(ok) ==
  /\ device = "asihpi"
  /\ deviceOn' = IF ok THEN "on" ELSE "off"
  /\ UNCHANGED <<device, ownRate>>

-------------------------------------------------------------------------------
(* Audio arrives. *)

Deliver(n) ==
  /\ captured' = captured + n
  /\ ring1' = ring1 \o Units(captured, n)
  /\ UNCHANGED <<deviceVars, lost>>

Miss(n) ==
  /\ captured' = captured + n
  /\ lost' = lost \cup (captured + 1)..(captured + n)
  /\ UNCHANGED <<deviceVars, ring1>>

\* readTimerData(), but for the end of the file
FileRead ==
  /\ device = "file" /\ deviceOn = "on"
  /\ \E n \in Readable : Deliver(n)

FileAtEnd == device = "file" /\ deviceOn = "on" /\ captured = MaxUnits

\* AlsaCallback(): an overrun drops what the card holds and starts it again.  A
\* read that fails while the card still runs is the caller's: see Pipeline.
AlsaPeriod ==
  /\ device = "alsa" /\ deviceOn = "on"
  /\ \E n \in Readable : Deliver(n) \/ Miss(n)

\* JackProcess()
JackCallback ==
  /\ device = "jack" /\ deviceOn = "on"
  /\ \E n \in Readable : Deliver(n)

\* readData(): a read that fails leaves the card with what it could not hold.
AsiHpiRead ==
  /\ device = "asihpi" /\ deviceOn = "on"
  /\ \E n \in Readable : Deliver(n) \/ Miss(n)
=============================================================================
