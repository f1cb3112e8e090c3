---------------------------- MODULE HidTransmit -----------------------------
(***************************************************************************)
(* One HidTransport::transmit (src/src/transport.rs): the host writes the   *)
(* reports of a command, then reads reports until the response is complete, *)
(* a report is refused, the read fails, or the deadline has passed.         *)
(*                                                                          *)
(* The device and the kernel's report queue are external.  The device       *)
(* executes a command it has whole and then emits the response's reports in *)
(* order.  Reports queue in the kernel: those of the response are numbered, *)
(* so the queue is the interval taken+1..emitted, and a report that the     *)
(* kernel drops (its ring is full) is one the host never reads.  A "busy"   *)
(* report may come at any point, between two reports of the response too,   *)
(* and so may a report of another protocol on the same interface (the FIDO  *)
(* application shares it).                                                  *)
(***************************************************************************)
EXTENDS HidFrame

CONSTANTS Apdus,        \* the commands the host may send
          Resps,        \* the responses the device may give
          MaxLost,      \* reports the kernel may drop in one exchange
          MaxBusy,      \* bound: busy reports in a row
          BlockingRead  \* TRUE: hidraw, read() blocks; FALSE: hidapi, 250 ms

ASSUME TransmitAssumption ==
  /\ Apdus \subseteq Seq(Byte) \ {<<>>}
  /\ Resps \subseteq Seq(Byte)
  /\ MaxLost \in Nat /\ MaxLost < SeqMod
  /\ MaxBusy \in Nat
  /\ BlockingRead \in BOOLEAN

VARIABLES
  \* host
  pc,        \* "write", "top" of the read loop, "read", "ok" or "err"
  error,     \* why transmit returned Err
  detect,    \* detect_button_wait, the second argument of transmit
  sent,      \* command reports written
  asm,       \* the ResponseAssembler
  prompted,  \* the button prompt has been shown
  prompts,   \* how often it was shown (history)
  expired,   \* the deadline has passed
  \* device
  apdu, resp,
  devBuf,    \* the command bytes the device holds
  devWhole,  \* it has seen the report flagged "last"
  executed,
  emitted,   \* response reports emitted
  \* kernel queue
  busyRow,   \* busy reports read since the last report of the response (history)
  touchDue,  \* three of them came in a row (history)
  taken,     \* response reports that left the queue, read or lost
  lost       \* ... of which lost

hostVars  == <<pc, error, detect, sent, asm, prompted, prompts, expired>>
devVars   == <<apdu, resp, devBuf, devWhole, executed, emitted>>
queueVars == <<busyRow, touchDue, taken, lost>>
vars      == <<hostVars, devVars, queueVars>>

Errors == {"none", "Transport", "Frame", "ButtonPressRequired", "EmptyResponse"}

Init ==
  /\ pc = "write" /\ error = "none"
  /\ detect \in BOOLEAN
  /\ sent = 0
  /\ asm = NewAssembler
  /\ prompted = FALSE /\ prompts = 0 /\ expired = FALSE
  /\ apdu \in Apdus /\ resp \in Resps
  /\ devBuf = <<>> /\ devWhole = FALSE /\ executed = FALSE
  /\ busyRow = 0 /\ touchDue = FALSE
  /\ emitted = 0 /\ taken = 0 /\ lost = 0

-----------------------------------------------------------------------------
(* The host *)

Fail(e) == pc' = "err" /\ error' = e

\* The write loop; the device takes each report as it is written.
WriteReport ==
  /\ pc = "write" /\ sent < NFrames(apdu)
  /\ sent' = sent + 1
  /\ LET r == BuildSendFrames(apdu)[sent + 1]
     IN devBuf' = devBuf \o r.chunk /\ devWhole' = (r.flags = "last")
  /\ pc' = IF sent + 1 = NFrames(apdu) THEN "top" ELSE "write"
  /\ UNCHANGED <<error, detect, asm, prompted, prompts, expired,
                 apdu, resp, executed, emitted, queueVars>>

WriteFails ==
  /\ pc = "write"
  /\ Fail("Transport")
  /\ UNCHANGED <<detect, sent, asm, prompted, prompts, expired, devVars, queueVars>>

\* The deadline is fixed once the command is written.
Expire ==
  /\ pc \in {"top", "read"} /\ ~expired
  /\ expired' = TRUE
  /\ UNCHANGED <<pc, error, detect, sent, asm, prompted, prompts, devVars, queueVars>>

\* Mutant: the deadline is never looked at.
IgnoreDeadline ==
  /\ pc = "top" /\ pc' = "read"
  /\ UNCHANGED <<error, detect, sent, asm, prompted, prompts, expired, devVars, queueVars>>

\* The top of the loop: the deadline is looked at only here.
CheckDeadline ==
  /\ pc = "top"
  /\ IF expired THEN Fail("ButtonPressRequired") ELSE pc' = "read" /\ error' = error
  /\ UNCHANGED <<detect, sent, asm, prompted, prompts, expired, devVars, queueVars>>

\* hidapi only: 250 ms without a report, n == 0.
ReadNothing ==
  /\ pc = "read" /\ ~BlockingRead
  /\ pc' = "top"
  /\ UNCHANGED <<error, detect, sent, asm, prompted, prompts, expired, devVars, queueVars>>

ReadFails ==
  /\ pc = "read"
  /\ Fail("Transport")
  /\ UNCHANGED <<detect, sent, asm, prompted, prompts, expired, devVars, queueVars>>

\* The button prompt is due.
MustPrompt(retries) == detect /\ ~prompted /\ retries >= 3

\* What transmit does with the report it has read.
Offer(r) ==
  LET step == PushStep(asm, r)
  IN /\ asm' = PushState(asm, r)
     /\ IF step = "Busy" /\ MustPrompt(asm'.busy_retries)
        THEN prompted' = TRUE /\ prompts' = prompts + 1
        ELSE UNCHANGED <<prompted, prompts>>
     /\ CASE step \in {"Busy", "NeedMore"} -> pc' = "top" /\ error' = error
          [] step = "Done" /\ HasStatusWord(asm'.buf) -> pc' = "ok" /\ error' = error
          [] step = "Done" /\ ~HasStatusWord(asm'.buf) -> Fail("EmptyResponse")
          [] step \in {"BadMagic", "OutOfSequence", "ChunkTooLong"} -> Fail("Frame")
     /\ UNCHANGED <<detect, sent, expired>>

ReadBusy ==
  /\ pc = "read" /\ busyRow < MaxBusy
  /\ Offer(BusyReport)
  /\ busyRow' = busyRow + 1
  /\ touchDue' = (touchDue \/ busyRow + 1 >= 3)
  /\ UNCHANGED <<devVars, taken, lost>>

ReadFrame ==
  /\ pc = "read" /\ taken < emitted
  /\ Offer(BuildSendFrames(resp)[taken + 1])
  /\ taken' = taken + 1 /\ busyRow' = 0
  /\ UNCHANGED <<devVars, touchDue, lost>>

ReadAlien ==
  /\ pc = "read"
  /\ Offer(AlienReport)
  /\ UNCHANGED <<devVars, queueVars>>

Host == \/ WriteReport \/ WriteFails \/ CheckDeadline
        \/ ReadNothing \/ ReadFails \/ ReadBusy \/ ReadFrame \/ ReadAlien

-----------------------------------------------------------------------------
(* The device and the kernel (external) *)

DeviceExecute ==
  /\ devWhole /\ ~executed
  /\ executed' = TRUE
  /\ UNCHANGED <<hostVars, apdu, resp, devBuf, devWhole, emitted, queueVars>>

DeviceEmit ==
  /\ executed /\ emitted < NFrames(resp)
  /\ emitted' = emitted + 1
  /\ UNCHANGED <<hostVars, apdu, resp, devBuf, devWhole, executed, queueVars>>

LoseReport ==
  /\ taken < emitted /\ lost < MaxLost
  /\ taken' = taken + 1 /\ lost' = lost + 1
  /\ UNCHANGED <<hostVars, devVars, busyRow, touchDue>>

Device == DeviceExecute \/ DeviceEmit

Returned == pc \in {"ok", "err"} /\ UNCHANGED vars

Next == Host \/ Expire \/ Device \/ LoseReport \/ Returned

\* The host runs, and time passes.  Nothing is assumed of the device.
HostFairness ==
  /\ WF_vars(WriteReport) /\ WF_vars(CheckDeadline) /\ WF_vars(ReadNothing)
  /\ WF_vars(ReadFrame) /\ WF_vars(Expire)

Spec == Init /\ [][Next]_vars /\ HostFairness

-----------------------------------------------------------------------------
(* Properties *)

\* The variables range over what the code's types allow; in particular the
\* assembler's counter stays a u8, however many reports a response takes
\* (received.wrapping_add in push: a plain addition overflows at the 256th).
TypeOK ==
  /\ pc \in {"write", "top", "read", "ok", "err"} /\ error \in Errors
  /\ detect \in BOOLEAN
  /\ apdu \in Apdus /\ resp \in Resps
  /\ sent \in 0..NFrames(apdu)
  /\ asm \in Assembler
  /\ prompted \in BOOLEAN /\ prompts \in Nat /\ expired \in BOOLEAN
  /\ devBuf \in Seq(Byte) /\ devWhole \in BOOLEAN /\ executed \in BOOLEAN
  /\ busyRow \in 0..MaxBusy /\ touchDue \in BOOLEAN
  /\ emitted \in 0..NFrames(resp) /\ taken \in 0..NFrames(resp) /\ lost \in 0..MaxLost

\* A device that has seen the report flagged "last" holds the whole command:
\* build_send_frames cuts an APDU so that its reports, in order, restore it.
CommandIsWhole == devWhole => devBuf = apdu

\* transmit never returns Ok with a damaged response: as long as fewer than 16
\* reports are lost, what it returns is what the device answered, and the
\* device did execute the command.  (The 4-bit sequence number and the wrapping
\* u8 counter of ResponseAssembler::push are what this rests on.)
AnswerIsWhole == pc = "ok" => executed /\ asm.buf = resp

\* The "touch your key" prompt of a command that asked for it is shown exactly
\* once, as soon as three busy reports have come in a row; a report of the
\* response between them starts the count anew (Step::Busy in transmit, and the
\* resets of busy_retries in push).
PromptOnce == prompts = IF detect /\ touchDue THEN 1 ELSE 0

\* transmit honours its timeout: it returns, whatever the device does.
Returns == <>(pc \in {"ok", "err"})

-----------------------------------------------------------------------------
(* transmit implements the exchange its callers rely on. *)

Outcome == CASE pc = "ok"  -> [tag |-> "ok", answer |-> asm.buf]
             [] pc = "err" -> [tag |-> "failed"]
             [] OTHER      -> [tag |-> "pending"]

E == INSTANCE Exchange WITH Answers <- Resps, reply <- resp, outcome <- Outcome

\* One transmit is one exchange: at most one execution, and an Ok only with the
\* device's own whole answer.
ImplementsExchange == E!Spec

=============================================================================
