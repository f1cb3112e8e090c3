------------------------------ MODULE HidFrame ------------------------------
(***************************************************************************)
(* The report framing of the OTP applet over USB-HID (src/src/hidframe.rs). *)
(* An APDU, or a response, is cut into chunks of at most MaxChunk bytes.    *)
(* Each chunk travels in one report that carries a "more" or "last" flag    *)
(* and a 4-bit sequence number; a device that is still working answers      *)
(* with "busy" reports that carry no data.                                  *)
(*                                                                          *)
(* A report is abstracted to the fields push() looks at.  `magic` stands    *)
(* for "long enough for a header and opening with 0x21"; a report of some   *)
(* other protocol on the same interface has magic = FALSE.                  *)
(***************************************************************************)
EXTENDS Integers, Sequences

CONSTANTS MaxChunk,   \* payload bytes of one report: 61 in the code
          Byte,       \* the values a byte is drawn from
          RecvMod     \* where ResponseAssembler.received wraps: 256 in the code, a u8

SeqMod == 16          \* the sequence number is one nibble

ASSUME MaxChunkAssumption == MaxChunk \in Nat \ {0}
ASSUME RecvModAssumption == RecvMod \in {SeqMod * k : k \in 1..SeqMod}

Flags == {"more", "last", "busy"}

Report == [magic : BOOLEAN, flags : Flags, seq : 0..SeqMod - 1, chunk : Seq(Byte)]

-----------------------------------------------------------------------------
(* build_send_frames *)

\* Mutant: the division rounds down, and the rest of the APDU is not sent.
NFramesRoundedDown(apdu) == IF Len(apdu) = 0 THEN 1 ELSE Len(apdu) \div MaxChunk

NFrames(apdu) ==
  IF Len(apdu) = 0 THEN 1 ELSE (Len(apdu) + MaxChunk - 1) \div MaxChunk

\* The number of bytes the first i chunks hold.
ChunkEnd(apdu, i) == IF i * MaxChunk < Len(apdu) THEN i * MaxChunk ELSE Len(apdu)

Chunk(apdu, i) == SubSeq(apdu, ChunkEnd(apdu, i - 1) + 1, ChunkEnd(apdu, i))

BuildSendFrames(apdu) ==
  [i \in 1..NFrames(apdu) |->
     [magic |-> TRUE,
      flags |-> IF i = NFrames(apdu) THEN "last" ELSE "more",
      seq   |-> (i - 1) % SeqMod,
      chunk |-> Chunk(apdu, i)]]

BusyReport  == [magic |-> TRUE,  flags |-> "busy", seq |-> 0, chunk |-> <<>>]
AlienReport == [magic |-> FALSE, flags |-> "last", seq |-> 0, chunk |-> <<>>]

-----------------------------------------------------------------------------
(* ResponseAssembler *)

Assembler == [buf : Seq(Byte), received : 0..RecvMod - 1, busy_retries : Nat]

NewAssembler == [buf |-> <<>>, received |-> 0, busy_retries |-> 0]

IsBusy(r) == r.magic /\ r.flags = "busy"
IsData(r) == r.magic /\ r.flags # "busy"
\* Mutant: push() does not look at the sequence number.
AnySequence(asm, r) == TRUE

InSequence(asm, r) == r.seq = asm.received % SeqMod
Fits(r) == Len(r.chunk) <= MaxChunk

\* What push() returns for a report, in the order of its early returns.
PushStep(asm, r) ==
  CASE ~r.magic                                       -> "BadMagic"
    [] IsBusy(r)                                      -> "Busy"
    [] IsData(r) /\ ~InSequence(asm, r)               -> "OutOfSequence"
    [] IsData(r) /\ InSequence(asm, r) /\ ~Fits(r)    -> "ChunkTooLong"
    [] IsData(r) /\ InSequence(asm, r) /\ Fits(r)     ->
         IF r.flags = "more" THEN "NeedMore" ELSE "Done"

\* Mutant: a data report replaces what was collected before it.
PushStateReplaces(asm, r) ==
  IF PushStep(asm, r) \in {"NeedMore", "Done"}
  THEN [buf |-> r.chunk, received |-> (asm.received + 1) % RecvMod, busy_retries |-> 0]
  ELSE asm

\* Mutant: a data report is counted without wrapping.
PushStateUnwrapped(asm, r) ==
  CASE PushStep(asm, r) = "Busy" -> [asm EXCEPT !.busy_retries = @ + 1]
    [] PushStep(asm, r) \in {"NeedMore", "Done"} ->
         [buf |-> asm.buf \o r.chunk, received |-> asm.received + 1, busy_retries |-> 0]
    [] OTHER -> asm

\* Mutant: a data report leaves the busy count as it was.
PushStateKeepsRetries(asm, r) ==
  CASE PushStep(asm, r) = "Busy" -> [asm EXCEPT !.busy_retries = @ + 1]
    [] PushStep(asm, r) \in {"NeedMore", "Done"} ->
         [asm EXCEPT !.buf = @ \o r.chunk, !.received = (@ + 1) % RecvMod]
    [] OTHER -> asm

\* The assembler after push(): a data report resets the busy count before its
\* sequence number is looked at, and is counted before its length is.
PushState(asm, r) ==
  LET step    == PushStep(asm, r)
      counted == [asm EXCEPT !.busy_retries = 0,
                             !.received = (@ + 1) % RecvMod]
  IN CASE step = "BadMagic"      -> asm
       [] step = "Busy"          -> [asm EXCEPT !.busy_retries = @ + 1]
       [] step = "OutOfSequence" -> [asm EXCEPT !.busy_retries = 0]
       [] step = "ChunkTooLong"  -> counted
       [] OTHER                  -> [counted EXCEPT !.buf = @ \o r.chunk]

\* into_response: a response is data followed by a two-byte status word.
HasStatusWord(buf) == Len(buf) >= 2

=============================================================================
