------------------------- MODULE HidTransmitProofs --------------------------
(***************************************************************************)
(* Proofs about HidTransmit for every report size, every command and        *)
(* response, busy reports at any point, and any number of lost reports      *)
(* below the sequence space; the counter wraps at any multiple of 16 up to  *)
(* the code's 256.                                                          *)
(***************************************************************************)
EXTENDS HidTransmit, SequenceTheorems, TLAPS

-----------------------------------------------------------------------------
(* The framing of HidFrame, for every chunk size. *)

(* div_ceil: a chunk count that covers the length, and no chunk to spare. *)
LEMMA DivCeil ==
  ASSUME NEW n \in Nat \ {0}, NEW k \in Nat \ {0}
  PROVE  LET q == (n + k - 1) \div k
         IN /\ q \in Nat \ {0}
            /\ q * k >= n
            /\ (q - 1) * k < n
BY SMT

(* build_send_frames emits at least one report, its chunks cover the APDU, and *)
(* only the last may be short.                                                *)
LEMMA NFramesProperties ==
  ASSUME NEW m \in Seq(Byte)
  PROVE  /\ NFrames(m) \in Nat \ {0}
         /\ NFrames(m) * MaxChunk >= Len(m)
         /\ Len(m) # 0 => (NFrames(m) - 1) * MaxChunk < Len(m)
<1>1. CASE Len(m) = 0
  BY <1>1, MaxChunkAssumption, SMT DEF NFrames
<1>2. CASE Len(m) # 0
  <2>1. Len(m) \in Nat \ {0}
    BY <1>2, LenProperties
  <2> QED  BY <1>2, <2>1, DivCeil, MaxChunkAssumption DEF NFrames
<1> QED  BY <1>1, <1>2

(* The chunk boundaries of a message start at 0, end at its length, and are at *)
(* most one report's payload apart.                                           *)
LEMMA ChunkEndProperties ==
  ASSUME NEW m \in Seq(Byte), NEW i \in Nat
  PROVE  /\ ChunkEnd(m, i) \in 0..Len(m)
         /\ ChunkEnd(m, i + 1) \in ChunkEnd(m, i)..Len(m)
         /\ ChunkEnd(m, i + 1) - ChunkEnd(m, i) <= MaxChunk
         /\ ChunkEnd(m, 0) = 0
         /\ ChunkEnd(m, NFrames(m)) = Len(m)
<1>1. /\ i * MaxChunk \in Nat
      /\ (i + 1) * MaxChunk = i * MaxChunk + MaxChunk
  BY MaxChunkAssumption, SMT
<1>2. Len(m) \in Nat
  BY LenProperties
<1>3. ChunkEnd(m, i) \in 0..Len(m) /\ ChunkEnd(m, i + 1) \in ChunkEnd(m, i)..Len(m)
  BY <1>1, <1>2, MaxChunkAssumption DEF ChunkEnd
<1>4. ChunkEnd(m, i + 1) - ChunkEnd(m, i) <= MaxChunk
  BY <1>1, <1>2, MaxChunkAssumption DEF ChunkEnd
<1>5. ChunkEnd(m, 0) = 0
  BY <1>2, MaxChunkAssumption, SMT DEF ChunkEnd
<1>6. ChunkEnd(m, NFrames(m)) = Len(m)
  <2> DEFINE e == NFrames(m) * MaxChunk
  <2>1. e \in Nat /\ e >= Len(m)
    BY NFramesProperties, MaxChunkAssumption, SMT
  <2> QED  BY <2>1, <1>2 DEF ChunkEnd
<1> QED  BY <1>3, <1>4, <1>5, <1>6

(* Chunk i extends what the first i - 1 chunks hold to what the first i hold. *)
LEMMA ChunkExtends ==
  ASSUME NEW m \in Seq(Byte), NEW i \in Nat
  PROVE  /\ Chunk(m, i + 1) \in Seq(Byte)
         /\ Len(Chunk(m, i + 1)) <= MaxChunk
         /\ SubSeq(m, 1, ChunkEnd(m, i)) \o Chunk(m, i + 1)
              = SubSeq(m, 1, ChunkEnd(m, i + 1))
<1> DEFINE a == ChunkEnd(m, i)
           b == ChunkEnd(m, i + 1)
<1>1. a \in 0..Len(m) /\ b \in a..Len(m) /\ b - a <= MaxChunk /\ Len(m) \in Nat
  BY ChunkEndProperties, LenProperties
<1>2. Chunk(m, i + 1) = SubSeq(m, a + 1, b)
  <2>1. (i + 1) - 1 = i
    OBVIOUS
  <2> QED  BY <2>1, Zenon DEF Chunk
<1> HIDE DEF a, b
<1>3. SubSeq(m, a + 1, b) \in Seq(Byte) /\ Len(SubSeq(m, a + 1, b)) <= MaxChunk
  BY <1>1, MaxChunkAssumption, SMT
<1>4. SubSeq(m, 1, a) \o SubSeq(m, a + 1, b) = SubSeq(m, 1, b)
  BY <1>1, ConcatAdjacentSubSeq
<1> QED  BY <1>2, <1>3, <1>4 DEF a, b

(* The reports of a message are well formed, and only the last says "last". *)
LEMMA FrameProperties ==
  ASSUME NEW m \in Seq(Byte), NEW i \in 0..NFrames(m) - 1
  PROVE  LET r == BuildSendFrames(m)[i + 1]
         IN /\ r.magic = TRUE
            /\ r.flags = IF i + 1 = NFrames(m) THEN "last" ELSE "more"
            /\ r.seq = i % SeqMod
            /\ r.chunk = Chunk(m, i + 1)
<1>1. i + 1 \in 1..NFrames(m) /\ (i + 1) - 1 = i
  BY NFramesProperties
<1> QED  BY <1>1 DEF BuildSendFrames

(* With fewer than SeqMod reports lost, the sequence number and the wrapping  *)
(* u8 counter agree only if none was lost.                                    *)
LEMMA SequenceDetectsLoss ==
  ASSUME NEW left \in Nat, NEW gone \in 0..SeqMod - 1, gone <= left,
         left % SeqMod = ((left - gone) % RecvMod) % SeqMod
  PROVE  gone = 0
<1>1. RecvMod \in {16, 32, 48, 64, 80, 96, 112, 128, 144, 160, 176, 192, 208, 224, 240, 256}
  BY RecvModAssumption, SMT DEF SeqMod
<1> QED  BY <1>1, SMT DEF SeqMod

(* The u8 counter wraps like the count it stands for. *)
LEMMA CounterWraps ==
  ASSUME NEW n \in Nat
  PROVE  /\ n % RecvMod \in 0..RecvMod - 1
         /\ ((n % RecvMod) + 1) % RecvMod = (n + 1) % RecvMod
<1>1. RecvMod \in {16, 32, 48, 64, 80, 96, 112, 128, 144, 160, 176, 192, 208, 224, 240, 256}
  BY RecvModAssumption, SMT DEF SeqMod
<1> QED  BY <1>1, SMT

-----------------------------------------------------------------------------
(* The exchange. *)

\* The device holds the chunks written so far, executes only a whole command,
\* and answers only what it executed.
DeviceInv ==
  /\ devBuf = SubSeq(apdu, 1, ChunkEnd(apdu, sent))
  /\ devWhole <=> sent = NFrames(apdu)
  /\ pc = "write" => sent < NFrames(apdu)
  /\ executed => devWhole
  /\ emitted > 0 => executed

\* Until transmit fails, the assembler has accepted every report that left the
\* queue and was not lost, and holds as many chunks of the response, from the
\* first on.
AssemblerInv ==
  /\ lost <= taken /\ taken <= emitted
  /\ pc # "err" => /\ asm.received = (taken - lost) % RecvMod
                   /\ asm.buf = SubSeq(resp, 1, ChunkEnd(resp, taken - lost))

\* transmit succeeds on the last report only, and then nothing was lost.
OkInv == pc = "ok" => lost = 0 /\ taken = NFrames(resp)

\* Until transmit fails, the assembler counts the busy reports in a row; the
\* prompt is shown when the third has come, and remembered.
PromptInv ==
  /\ pc # "err" => asm.busy_retries = busyRow
  /\ busyRow >= 3 => touchDue
  /\ prompted = (detect /\ touchDue)
  /\ prompts = IF prompted THEN 1 ELSE 0

IInv == TypeOK /\ DeviceInv /\ AssemblerInv /\ OkInv /\ PromptInv

-----------------------------------------------------------------------------
(* What TransmitAssumption and TypeOK say of the two messages. *)
LEMMA Messages ==
  ASSUME TypeOK
  PROVE  /\ apdu \in Seq(Byte) /\ resp \in Seq(Byte)
         /\ NFrames(apdu) \in Nat \ {0} /\ NFrames(resp) \in Nat \ {0}
<1>1. apdu \in Seq(Byte) /\ resp \in Seq(Byte)
  BY TransmitAssumption DEF TypeOK
<1> QED  BY <1>1, NFramesProperties

LEMMA InitInv == Init => IInv
<1> SUFFICES ASSUME Init PROVE IInv
  OBVIOUS
<1>0. apdu \in Seq(Byte) /\ resp \in Seq(Byte)
  BY TransmitAssumption DEF Init
<1>1. NFrames(apdu) \in Nat \ {0} /\ NFrames(resp) \in Nat \ {0}
  BY <1>0, NFramesProperties
<1>2. <<>> \in Seq(Byte)
  BY EmptySeq
<1>3. TypeOK
  <2>1. asm \in Assembler
    <3>1. 0 \in 0..RecvMod - 1
      BY RecvModAssumption, SMT DEF SeqMod
    <3> QED  BY <1>2, <3>1 DEF Init, Assembler, NewAssembler
  <2>2. /\ sent \in 0..NFrames(apdu)
        /\ busyRow \in 0..MaxBusy
        /\ emitted \in 0..NFrames(resp) /\ taken \in 0..NFrames(resp) /\ lost \in 0..MaxLost
    BY <1>1, TransmitAssumption DEF Init
  <2>3. devBuf \in Seq(Byte)
    BY <1>2 DEF Init
  <2> QED  BY <2>1, <2>2, <2>3 DEF Init, TypeOK, Errors
<1>4. \A m \in Seq(Byte) : SubSeq(m, 1, ChunkEnd(m, 0)) = <<>>
  <2> SUFFICES ASSUME NEW m \in Seq(Byte) PROVE SubSeq(m, 1, ChunkEnd(m, 0)) = <<>>
    OBVIOUS
  <2>1. ChunkEnd(m, 0) = 0
    BY ChunkEndProperties
  <2> QED  BY <2>1, SubSeqEmpty
<1>5. DeviceInv
  <2>1. devBuf = SubSeq(apdu, 1, ChunkEnd(apdu, sent))
    BY <1>0, <1>4 DEF Init
  <2> QED  BY <1>1, <2>1 DEF Init, DeviceInv
<1>6. AssemblerInv
  <2>1. taken - lost = 0 /\ 0 % RecvMod = 0
    <3>1. RecvMod \in {16, 32, 48, 64, 80, 96, 112, 128, 144, 160, 176, 192, 208, 224, 240, 256}
      BY RecvModAssumption, SMT DEF SeqMod
    <3> QED  BY <3>1, SMT DEF Init
  <2>2. asm.buf = SubSeq(resp, 1, ChunkEnd(resp, 0))
    BY <1>0, <1>4 DEF Init, NewAssembler
  <2> QED  BY <2>1, <2>2 DEF Init, AssemblerInv, NewAssembler
<1>7. OkInv /\ PromptInv
  <2>1. /\ pc = "write" /\ prompted = FALSE /\ prompts = 0 /\ touchDue = FALSE
        /\ busyRow = 0 /\ asm.busy_retries = 0
    BY DEF Init, NewAssembler
  <2>2. ~(busyRow >= 3)
    BY <2>1
  <2>3. prompted = (detect /\ touchDue)
    BY <2>1
  <2> QED  BY <2>1, <2>2, <2>3 DEF OkInv, PromptInv
<1> QED  BY <1>3, <1>5, <1>6, <1>7 DEF IInv

-----------------------------------------------------------------------------
(* The steps of the host that do not read a report. *)

LEMMA WriteReportInv == IInv /\ WriteReport => IInv'
<1> SUFFICES ASSUME IInv, WriteReport PROVE IInv'
  OBVIOUS
<1> USE DEF IInv
<1>0. /\ apdu \in Seq(Byte) /\ resp \in Seq(Byte)
      /\ NFrames(apdu) \in Nat \ {0} /\ sent \in Nat /\ sent \in 0..NFrames(apdu) - 1
  BY Messages DEF TypeOK, WriteReport
<1>1. LET r == BuildSendFrames(apdu)[sent + 1]
      IN r.chunk = Chunk(apdu, sent + 1) /\ (r.flags = "last" <=> sent + 1 = NFrames(apdu))
  BY <1>0, FrameProperties
<1>2. /\ devBuf' = devBuf \o Chunk(apdu, sent + 1)
      /\ devWhole' <=> sent + 1 = NFrames(apdu)
  BY <1>1 DEF WriteReport
<1>3. /\ devBuf' = SubSeq(apdu, 1, ChunkEnd(apdu, sent + 1))
      /\ devBuf' \in Seq(Byte)
  <2>1. devBuf' = SubSeq(apdu, 1, ChunkEnd(apdu, sent + 1))
    BY <1>0, <1>2, ChunkExtends, Zenon DEF DeviceInv
  <2>2. Chunk(apdu, sent + 1) \in Seq(Byte)
    BY <1>0, ChunkExtends
  <2>3. devBuf' \in Seq(Byte)
    BY <1>2, <2>2, ConcatProperties DEF TypeOK
  <2> QED  BY <2>1, <2>3
<1>4. TypeOK'
  BY <1>0, <1>2, <1>3 DEF TypeOK, WriteReport, queueVars
<1>5. DeviceInv'
  <2>1. ~devWhole /\ ~executed
    BY <1>0 DEF DeviceInv
  <2>2. UNCHANGED <<apdu, executed, emitted>> /\ sent' = sent + 1
    BY DEF WriteReport
  <2>3. devWhole' <=> sent' = NFrames(apdu')
    BY <1>2, <2>2
  <2>4. pc' = "write" => sent' < NFrames(apdu')
    BY <1>0, <2>2 DEF WriteReport
  <2>5. ~(emitted > 0)
    BY <2>1 DEF DeviceInv
  <2> QED  BY <1>3, <2>1, <2>2, <2>3, <2>4, <2>5 DEF DeviceInv
<1>6. AssemblerInv' /\ OkInv' /\ PromptInv'
  BY DEF AssemblerInv, OkInv, PromptInv, WriteReport, queueVars
<1> QED  BY <1>4, <1>5, <1>6

LEMMA FailInv ==
  ASSUME IInv, NEW e \in Errors, Fail(e),
         UNCHANGED <<detect, sent, asm, prompted, prompts, expired, devVars, queueVars>>
  PROVE  IInv'
BY DEF IInv, TypeOK, DeviceInv, AssemblerInv, OkInv, PromptInv, Fail, devVars, queueVars

LEMMA HostLoopInv ==
  ASSUME IInv, Expire \/ WriteFails \/ CheckDeadline \/ ReadNothing \/ ReadFails
  PROVE  IInv'
<1>1. CASE WriteFails \/ ReadFails \/ (CheckDeadline /\ expired)
  BY <1>1, FailInv DEF WriteFails, ReadFails, CheckDeadline, Errors
<1>2. CASE Expire
  BY <1>2 DEF IInv, TypeOK, DeviceInv, AssemblerInv, OkInv, PromptInv, Expire, devVars, queueVars
<1>3. CASE ReadNothing \/ (CheckDeadline /\ ~expired)
  <2>1. /\ pc \in {"top", "read"} /\ pc' \in {"top", "read"}
        /\ UNCHANGED <<error, detect, sent, asm, prompted, prompts, expired, devVars, queueVars>>
    BY <1>3 DEF ReadNothing, CheckDeadline
  <2>2. TypeOK'
    BY <2>1 DEF IInv, TypeOK, devVars, queueVars
  <2>3. DeviceInv' /\ AssemblerInv' /\ OkInv' /\ PromptInv'
    BY <2>1 DEF IInv, DeviceInv, AssemblerInv, OkInv, PromptInv, devVars, queueVars
  <2> QED  BY <2>2, <2>3 DEF IInv
<1> QED  BY <1>1, <1>2, <1>3

-----------------------------------------------------------------------------
(* The steps of the host that read a report. *)

LEMMA ReadAlienInv == IInv /\ ReadAlien => IInv'
<1> SUFFICES ASSUME IInv, ReadAlien PROVE IInv'
  OBVIOUS
<1>1. PushStep(asm, AlienReport) = "BadMagic" /\ PushState(asm, AlienReport) = asm
  BY DEF PushStep, PushState, AlienReport, IsBusy, IsData
<1>2. Fail("Frame") /\ UNCHANGED <<detect, sent, asm, prompted, prompts, expired,
                                   devVars, queueVars>>
  BY <1>1 DEF ReadAlien, Offer
<1> QED  BY <1>2, FailInv DEF Errors

(* A busy report changes the count of busy reports alone.                      *)
LEMMA BusyAssembler ==
  ASSUME NEW a \in Assembler
  PROVE  LET b == [a EXCEPT !.busy_retries = @ + 1]
         IN /\ b \in Assembler
            /\ b.busy_retries = a.busy_retries + 1
            /\ b.received = a.received /\ b.buf = a.buf
BY DEF Assembler

LEMMA ReadBusyInv == IInv /\ ReadBusy => IInv'
<1> SUFFICES ASSUME IInv, ReadBusy PROVE IInv'
  OBVIOUS
<1> USE DEF IInv
<1>1. /\ PushStep(asm, BusyReport) = "Busy"
      /\ PushState(asm, BusyReport) = [asm EXCEPT !.busy_retries = @ + 1]
  BY DEF PushStep, PushState, BusyReport, IsBusy, IsData
<1>2. /\ asm' = [asm EXCEPT !.busy_retries = @ + 1]
      /\ pc = "read" /\ pc' = "top" /\ error' = error
      /\ busyRow < MaxBusy /\ busyRow' = busyRow + 1
      /\ touchDue' = (touchDue \/ busyRow + 1 >= 3)
      /\ UNCHANGED <<detect, sent, expired, devVars, taken, lost>>
      /\ IF MustPrompt(asm'.busy_retries)
         THEN prompted' = TRUE /\ prompts' = prompts + 1
         ELSE UNCHANGED <<prompted, prompts>>
  BY <1>1 DEF ReadBusy, Offer
<1>3. /\ asm' \in Assembler
      /\ asm'.busy_retries = asm.busy_retries + 1
      /\ asm'.received = asm.received /\ asm'.buf = asm.buf
  <2>1. asm \in Assembler
    BY DEF TypeOK
  <2> QED  BY <1>2, <2>1, BusyAssembler
<1>4. PromptInv'
  <2>1. busyRow \in Nat /\ prompted \in BOOLEAN /\ detect \in BOOLEAN /\ touchDue \in BOOLEAN
    BY TransmitAssumption DEF TypeOK
  <2>2. /\ asm'.busy_retries = busyRow'
        /\ asm'.busy_retries >= 3 <=> busyRow + 1 >= 3
    BY <1>2, <1>3, <2>1 DEF PromptInv
  <2>3. CASE MustPrompt(asm'.busy_retries)
    <3>1. detect /\ ~prompted /\ asm'.busy_retries >= 3
      BY <2>3 DEF MustPrompt
    <3>2. prompts' = 1 /\ prompted' = TRUE /\ detect' = detect
      BY <1>2, <2>3, <3>1 DEF PromptInv
    <3>3. touchDue' = TRUE
      BY <1>2, <2>1, <2>2, <3>1
    <3> QED  BY <2>2, <3>1, <3>2, <3>3 DEF PromptInv
  <2>4. CASE ~MustPrompt(asm'.busy_retries)
    <3>1. prompts' = prompts /\ prompted' = prompted /\ detect' = detect
      BY <1>2, <2>4
    <3>2. ~detect \/ prompted \/ ~(busyRow + 1 >= 3)
      BY <2>2, <2>4 DEF MustPrompt
    <3>3. prompted = (detect /\ touchDue) /\ prompts = IF prompted THEN 1 ELSE 0
      BY DEF PromptInv
    <3>4. prompted' = (detect' /\ touchDue')
      BY <1>2, <2>1, <3>1, <3>2, <3>3
    <3>5. prompts' = IF prompted' THEN 1 ELSE 0
      BY <3>1, <3>3
    <3>6. busyRow' >= 3 => touchDue'
      BY <1>2
    <3> QED  BY <2>2, <3>4, <3>5, <3>6 DEF PromptInv
  <2> QED  BY <2>3, <2>4
<1>5. TypeOK'
  <2>1. busyRow' \in 0..MaxBusy /\ touchDue' \in BOOLEAN
    <3>1. busyRow \in 0..MaxBusy /\ touchDue \in BOOLEAN
      BY DEF TypeOK
    <3> QED  BY <1>2, <3>1, TransmitAssumption
  <2>2. prompted' \in BOOLEAN /\ prompts' \in Nat
    <3>1. prompted \in BOOLEAN /\ prompts \in Nat
      BY DEF TypeOK
    <3>2. CASE MustPrompt(asm'.busy_retries)
      BY <1>2, <3>1, <3>2
    <3>3. CASE ~MustPrompt(asm'.busy_retries)
      BY <1>2, <3>1, <3>3
    <3> QED  BY <3>2, <3>3
  <2> QED  BY <1>2, <1>3, <2>1, <2>2 DEF TypeOK, devVars
<1>6. DeviceInv' /\ AssemblerInv' /\ OkInv'
  BY <1>2, <1>3 DEF DeviceInv, AssemblerInv, OkInv, devVars
<1> QED  BY <1>4, <1>5, <1>6

(* A report of the response is refused, or it extends what the assembler holds *)
(* by the next chunk; the last one is accepted only if none was lost.          *)
LEMMA ReadFrameInv == IInv /\ ReadFrame => IInv'
<1> SUFFICES ASSUME IInv, ReadFrame PROVE IInv'
  OBVIOUS
<1> USE DEF IInv
<1> DEFINE r == BuildSendFrames(resp)[taken + 1]
<1>0. /\ resp \in Seq(Byte) /\ NFrames(resp) \in Nat \ {0}
      /\ taken \in Nat /\ taken \in 0..NFrames(resp) - 1
      /\ lost \in 0..SeqMod - 1 /\ lost <= taken
      /\ pc = "read" /\ taken' = taken + 1 /\ taken < emitted
      /\ emitted \in 0..NFrames(resp)
      /\ taken' \in 0..NFrames(resp) /\ busyRow' \in 0..MaxBusy
  BY Messages, TransmitAssumption DEF TypeOK, AssemblerInv, ReadFrame, SeqMod
<1>1. /\ r.magic = TRUE
      /\ r.flags = IF taken + 1 = NFrames(resp) THEN "last" ELSE "more"
      /\ r.seq = taken % SeqMod
      /\ r.chunk = Chunk(resp, taken + 1)
  BY <1>0, FrameProperties
<1>2. /\ Chunk(resp, taken + 1) \in Seq(Byte)
      /\ Len(Chunk(resp, taken + 1)) <= MaxChunk
  BY <1>0, ChunkExtends
<1>3. /\ IsData(r) /\ ~IsBusy(r) /\ Fits(r)
  BY <1>1, <1>2 DEF IsData, IsBusy, Fits
<1>4. /\ asm' = PushState(asm, r)
      /\ UNCHANGED <<detect, sent, expired, devVars, touchDue, lost>> /\ busyRow' = 0
      /\ asm \in Assembler
  BY DEF ReadFrame, Offer, TypeOK
<1> HIDE DEF r
<1>5. CASE ~InSequence(asm, r)
  <2>1. PushStep(asm, r) = "OutOfSequence"
    BY <1>1, <1>3, <1>5 DEF PushStep
  <2>2. Fail("Frame") /\ UNCHANGED <<prompted, prompts>>
    BY <2>1 DEF ReadFrame, Offer, r
  <2>3. asm' = [asm EXCEPT !.busy_retries = 0]
    BY <1>4, <2>1 DEF PushState
  <2>4. asm' \in Assembler /\ asm'.busy_retries = 0
    BY <1>4, <2>3 DEF Assembler
  <2>5. TypeOK'
    BY <1>0, <1>4, <2>2, <2>4 DEF TypeOK, Fail, devVars, Errors
  <2>6. DeviceInv' /\ AssemblerInv' /\ OkInv'
    BY <1>0, <1>4, <2>2 DEF DeviceInv, AssemblerInv, OkInv, Fail, devVars
  <2>7. PromptInv'
    BY <1>4, <2>2, <2>4 DEF PromptInv, TypeOK
  <2> QED  BY <2>5, <2>6, <2>7
<1>6. CASE InSequence(asm, r)
  <2>1. taken % SeqMod = ((taken - lost) % RecvMod) % SeqMod
    BY <1>0, <1>1, <1>6 DEF InSequence, AssemblerInv
  <2>2. lost = 0
    BY <1>0, <2>1, SequenceDetectsLoss
  <2>3. PushStep(asm, r) = IF taken + 1 = NFrames(resp) THEN "Done" ELSE "NeedMore"
    BY <1>1, <1>3, <1>6 DEF PushStep
  <2>4. asm' = [[asm EXCEPT !.busy_retries = 0, !.received = (@ + 1) % RecvMod]
                  EXCEPT !.buf = @ \o r.chunk]
    BY <1>4, <2>3 DEF PushState
  <2>5. /\ asm'.busy_retries = 0
        /\ asm'.received = (asm.received + 1) % RecvMod
        /\ asm'.buf = asm.buf \o Chunk(resp, taken + 1)
    BY <1>1, <1>4, <2>4 DEF Assembler
  <2>6. /\ asm.received = taken % RecvMod
        /\ asm.buf = SubSeq(resp, 1, ChunkEnd(resp, taken))
    BY <1>0, <2>2 DEF AssemblerInv
  <2>7. /\ asm'.received = taken' % RecvMod
        /\ asm'.received \in 0..RecvMod - 1
    BY <1>0, <2>5, <2>6, CounterWraps
  <2>8. asm'.buf = SubSeq(resp, 1, ChunkEnd(resp, taken + 1))
    BY <1>0, <2>5, <2>6, ChunkExtends, Zenon
  <2>9. asm' \in Assembler
    <3>1. asm'.buf \in Seq(Byte)
      BY <1>2, <1>4, <2>5, ConcatProperties DEF Assembler
    <3>2. asm' = [buf |-> asm'.buf, received |-> asm'.received, busy_retries |-> asm'.busy_retries]
      BY <1>4, <2>4 DEF Assembler
    <3>3. asm'.busy_retries \in Nat
      BY <2>5
    <3> QED  BY <2>7, <3>1, <3>2, <3>3 DEF Assembler
  <2>10. /\ UNCHANGED <<prompted, prompts>>
         /\ pc' \in {"top", "ok", "err"} /\ error' \in Errors
         /\ pc' = "ok" => taken + 1 = NFrames(resp)
    BY <2>3 DEF ReadFrame, Offer, Fail, Errors, TypeOK, r
  <2>11. TypeOK'
    BY <1>0, <1>4, <2>9, <2>10 DEF TypeOK, devVars
  <2>12. DeviceInv' /\ OkInv'
    BY <1>0, <1>4, <2>2, <2>10 DEF DeviceInv, OkInv, devVars
  <2>13. AssemblerInv'
    <3>1. /\ lost' = 0 /\ resp' = resp /\ taken' - lost' = taken'
          /\ lost' <= taken' /\ taken' <= emitted'
      BY <1>0, <1>4, <2>2 DEF devVars
    <3> QED  BY <1>0, <2>7, <2>8, <3>1 DEF AssemblerInv
  <2>14. PromptInv'
    BY <1>4, <2>5, <2>10 DEF PromptInv, TypeOK
  <2> QED  BY <2>11, <2>12, <2>13, <2>14
<1> QED  BY <1>5, <1>6

-----------------------------------------------------------------------------
(* The steps of the device and of the kernel's queue. *)

LEMMA DeviceStepInv == IInv /\ Device => IInv'
<1> SUFFICES ASSUME IInv, Device PROVE IInv'
  OBVIOUS
<1> USE DEF IInv, TypeOK, DeviceInv, AssemblerInv, OkInv, PromptInv, hostVars, queueVars
<1>1. CASE DeviceExecute
  BY <1>1 DEF DeviceExecute
<1>2. CASE DeviceEmit
  BY <1>2, Messages DEF DeviceEmit
<1> QED  BY <1>1, <1>2 DEF Device

LEMMA LoseReportInv == IInv /\ LoseReport => IInv'
<1> SUFFICES ASSUME IInv, LoseReport PROVE IInv'
  OBVIOUS
<1> USE DEF IInv
<1>0. NFrames(resp) \in Nat \ {0}
  BY Messages
<1>1. taken \in Nat /\ lost \in Nat /\ emitted \in 0..NFrames(resp) /\ taken < emitted
      /\ taken' \in 0..NFrames(resp) /\ lost' \in 0..MaxLost
  BY <1>0, TransmitAssumption DEF TypeOK, LoseReport
<1>2. /\ taken' - lost' = taken - lost /\ pc # "ok"
      /\ lost' <= taken' /\ taken' <= emitted
  BY <1>0, <1>1 DEF LoseReport, AssemblerInv, OkInv
<1>3. TypeOK'
  BY <1>1, TransmitAssumption DEF TypeOK, LoseReport, hostVars, devVars
<1>4. DeviceInv' /\ AssemblerInv' /\ OkInv' /\ PromptInv'
  BY <1>2 DEF DeviceInv, AssemblerInv, OkInv, PromptInv, LoseReport, hostVars, devVars
<1> QED  BY <1>3, <1>4

LEMMA NextInv == IInv /\ [Next]_vars => IInv'
<1> SUFFICES ASSUME IInv, [Next]_vars PROVE IInv'
  OBVIOUS
<1>1. CASE Host \/ Expire
  BY <1>1, WriteReportInv, HostLoopInv, ReadBusyInv, ReadFrameInv, ReadAlienInv DEF Host
<1>2. CASE Device \/ LoseReport
  BY <1>2, DeviceStepInv, LoseReportInv
<1>3. CASE UNCHANGED vars
  BY <1>3 DEF IInv, TypeOK, DeviceInv, AssemblerInv, OkInv, PromptInv,
              vars, hostVars, devVars, queueVars
<1> QED  BY <1>1, <1>2, <1>3 DEF Next, Returned

-----------------------------------------------------------------------------
(* The theorems. *)

THEOREM IndInv == Spec => []IInv
<1>1. Init => IInv
  BY InitInv
<1>2. IInv /\ [Next]_vars => IInv'
  BY NextInv
<1> QED  BY <1>1, <1>2, PTL DEF Spec

(* Every reachable state is well typed; the assembler's counter stays a u8.  *)
(* (ResponseAssembler and the read loop of HidTransport::transmit.)          *)
THEOREM TypeCorrect == Spec => []TypeOK
<1>1. IInv => TypeOK
  BY DEF IInv
<1> QED  BY <1>1, IndInv, PTL

(* The device never takes a command for whole that is not the one the host   *)
(* wrote, whatever its length (build_send_frames).                           *)
THEOREM CommandDelivered == Spec => []CommandIsWhole
<1>1. IInv => CommandIsWhole
  <2> SUFFICES ASSUME IInv, devWhole PROVE devBuf = apdu
    BY DEF CommandIsWhole
  <2>1. apdu \in Seq(Byte)
    BY Messages DEF IInv
  <2>2. devBuf = SubSeq(apdu, 1, Len(apdu))
    BY <2>1, ChunkEndProperties DEF IInv, DeviceInv
  <2> QED  BY <2>1, <2>2, SubSeqFull
<1> QED  BY <1>1, IndInv, PTL

(* What transmit returns as Ok is, byte for byte, the device's answer to a   *)
(* command it executed, as long as fewer than 16 reports are lost: the 4-bit *)
(* sequence check of push() turns every such loss into an error.             *)
THEOREM AnswerDelivered == Spec => []AnswerIsWhole
<1>1. IInv => AnswerIsWhole
  <2> SUFFICES ASSUME IInv, pc = "ok" PROVE executed /\ asm.buf = resp
    BY DEF AnswerIsWhole
  <2>1. resp \in Seq(Byte) /\ NFrames(resp) \in Nat \ {0}
    BY Messages DEF IInv
  <2>2. lost = 0 /\ taken = NFrames(resp)
    BY DEF IInv, OkInv
  <2>3. executed
    BY <2>1, <2>2 DEF IInv, DeviceInv, AssemblerInv, TypeOK
  <2>4. asm.buf = SubSeq(resp, 1, Len(resp))
    <3>1. taken - lost = NFrames(resp)
      BY <2>1, <2>2
    <3>2. ChunkEnd(resp, NFrames(resp)) = Len(resp)
      BY <2>1, ChunkEndProperties
    <3> QED  BY <3>1, <3>2 DEF IInv, AssemblerInv
  <2> QED  BY <2>1, <2>3, <2>4, SubSeqFull
<1> QED  BY <1>1, IndInv, PTL

(* The touch prompt of transmit appears exactly once if it is due, that is    *)
(* after three busy reports in a row, and otherwise not at all.               *)
THEOREM PromptedOnce == Spec => []PromptOnce
<1>1. IInv => PromptOnce
  BY DEF IInv, PromptInv, PromptOnce, TypeOK
<1> QED  BY <1>1, IndInv, PTL

-----------------------------------------------------------------------------
(* transmit implements Exchange. *)

LEMMA InitRefines == Init => E!Init
BY DEF Init, E!Init, E!Pending, Outcome

(* A step of the host leaves the device's execution alone, and returns at most *)
(* once, from "pending".                                                       *)
LEMMA HostRefines ==
  ASSUME TypeOK, AnswerIsWhole', Host \/ Expire
  PROVE  [E!Next]_E!vars
<1>1. /\ pc \in {"write", "top", "read"}
      /\ UNCHANGED <<resp, executed>>
  BY DEF Host, WriteReport, WriteFails, Expire, CheckDeadline, ReadNothing, ReadFails,
         ReadBusy, ReadFrame, ReadAlien, devVars
<1>2. pc' \in {"write", "top", "read", "ok", "err"}
  <2>1. \A r : Offer(r) => pc' \in {"top", "ok", "err"}
    <3> SUFFICES ASSUME NEW r, Offer(r) PROVE pc' \in {"top", "ok", "err"}
      OBVIOUS
    <3>1. PushStep(asm, r) \in {"Busy", "NeedMore", "Done", "BadMagic", "OutOfSequence", "ChunkTooLong"}
      BY DEF PushStep, IsBusy, IsData
    <3> QED  BY <3>1 DEF Offer, Fail
  <2> QED  BY <1>1, <2>1
       DEF Host, WriteReport, WriteFails, Expire, CheckDeadline, ReadNothing, ReadFails,
           ReadBusy, ReadFrame, ReadAlien, Fail
<1>3. Outcome = E!Pending
  BY <1>1 DEF Outcome, E!Pending
<1>4. CASE pc' = "ok"
  <2>1. executed' /\ asm'.buf = resp'
    BY <1>4 DEF AnswerIsWhole
  <2>2. Outcome' = E!Ok(resp)
    BY <1>1, <1>4, <2>1 DEF Outcome, E!Ok
  <2> QED  BY <1>1, <1>3, <2>1, <2>2 DEF E!Next, E!Answer
<1>5. CASE pc' = "err"
  <2>1. Outcome' = E!Failed
    BY <1>5 DEF Outcome, E!Failed
  <2> QED  BY <1>1, <1>3, <2>1 DEF E!Next, E!Fail
<1>6. CASE pc' \in {"write", "top", "read"}
  <2>1. Outcome' = E!Pending
    BY <1>6 DEF Outcome, E!Pending
  <2> QED  BY <1>1, <1>3, <2>1 DEF E!vars
<1> QED  BY <1>2, <1>4, <1>5, <1>6

(* A step of transmit executes the command, returns, or is not visible. *)
LEMMA StepRefines == TypeOK /\ AnswerIsWhole' /\ [Next]_vars => [E!Next]_E!vars
<1> SUFFICES ASSUME TypeOK, AnswerIsWhole', [Next]_vars PROVE [E!Next]_E!vars
  OBVIOUS
<1>1. CASE Host \/ Expire
  BY <1>1, HostRefines
<1>2. CASE DeviceExecute
  <2>1. Outcome' = Outcome
    BY <1>2 DEF DeviceExecute, hostVars, Outcome
  <2> QED  BY <1>2, <2>1 DEF DeviceExecute, E!Next, E!Execute
<1>3. CASE DeviceEmit \/ LoseReport \/ UNCHANGED vars
  <2>1. Outcome' = Outcome /\ resp' = resp /\ executed' = executed
    BY <1>3 DEF DeviceEmit, LoseReport, vars, hostVars, devVars, queueVars, Outcome
  <2> QED  BY <2>1 DEF E!vars
<1> QED  BY <1>1, <1>2, <1>3 DEF Next, Device, Returned

(* transmit implements Exchange: whatever the device and the queue do, its    *)
(* caller sees at most one execution, and an Ok only with the whole answer to *)
(* a command the device executed.                                             *)
THEOREM Refinement == Spec => ImplementsExchange
<1>1. Init => E!Init
  BY InitRefines
<1>2. TypeOK /\ AnswerIsWhole' /\ [Next]_vars => [E!Next]_E!vars
  BY StepRefines
<1> QED  BY <1>1, <1>2, TypeCorrect, AnswerDelivered, PTL DEF Spec, ImplementsExchange, E!Spec

=============================================================================
