----------------------------- MODULE RawTransmit ----------------------------
(***************************************************************************)
(* One PcScTransport::raw_transmit (src/src/transport.rs): the host sends   *)
(* the command, then GET RESPONSE while the card says 61 XX (more bytes),   *)
(* or the command with another Le when it says 6C XX, until it has a        *)
(* final status word.  Each step is one pcsc transmit: the card's answer    *)
(* and what the loop makes of it.                                           *)
(*                                                                          *)
(* The card is external.  It executes a command it can cut up, gives its    *)
(* reply in pieces of a size it chooses, and may refuse Le, before it       *)
(* executes and never on GET RESPONSE, whose Le is what 61 XX said.  A      *)
(* command whose length does not add up gets 6700.                          *)
(***************************************************************************)
EXTENDS Apdu

CONSTANTS
  CardChunk,    \* the most bytes in one piece of a reply
  MaxChunks,    \* 64 in the code
  MaxBytes,     \* 65536 in the code
  MaxRefusals   \* bound: how often the card refuses Le; the code sets none

ASSUME RawTransmitAssumption ==
  /\ CardChunk \in Nat /\ MaxRefusals \in Nat
  /\ MaxChunks \in Nat /\ MaxBytes \in Nat

Commands == {c \in Seq(Byte) : Len(c) >= 4 /\ ~IsGetResponse(c)}
Replies  == [data : Seq(Byte), sw : Nat]

WRONG_LENGTH == 26368   \* 6700

VARIABLES
  \* host
  pc,        \* "loop", "ok" or "err"
  command, to_send, acc, chunks,
  sw,        \* the status word returned
  \* card
  reply,     \* what it replies to this command
  executions, \* how often it executed the command
  card,      \* "replying" if it has executed what it was sent and not answered
  given,     \* bytes of the reply given
  refusals,
  link       \* "failed" if it did

hostVars == <<pc, command, to_send, acc, chunks, sw>>
cardVars == <<reply, executions, card, given, refusals, link>>
vars     == <<hostVars, cardVars>>

Init ==
  /\ pc = "loop" /\ command \in Commands /\ to_send = command
  /\ acc = <<>> /\ chunks = 0 /\ sw = 0
  /\ reply \in Replies /\ executions = 0 /\ card = "idle" /\ given = 0
  /\ refusals = 0 /\ link = "sound"

-----------------------------------------------------------------------------
(* The loop, after one answer: its data, and the first byte of its status     *)

\* Mutants: no limit on the pieces; limits that stop one too early.
WithinBytes(bytes, n) == bytes <= MaxBytes
WithinLimitsStrict(bytes, n) == bytes < MaxBytes /\ n < MaxChunks

WithinLimits(bytes, n) == bytes <= MaxBytes /\ n <= MaxChunks

\* Mutant: the count is held in too few bits and wraps below the limit.
CountedNarrow(n) == (n + 1) % MaxChunks
Counted(n) == n + 1

\* Mutants: a piece replaces what was read; the command is sent again.
JoinedLast(data) == data
Joined(data) == acc \o data
NextPieceAgain(le) == command
NextPiece(le) == GetResponse(le)

Receive(data) == acc' = Joined(data) /\ chunks' = Counted(chunks)
TooMuch == pc' = "err" /\ UNCHANGED <<to_send, sw>>

\* A final status word.
Finish(data, status) ==
  /\ Receive(data)
  /\ IF WithinLimits(Len(acc'), chunks')
     THEN pc' = "ok" /\ sw' = status /\ UNCHANGED to_send
     ELSE TooMuch
  /\ UNCHANGED command

\* 61 XX
Continue(data, le) ==
  /\ Receive(data)
  /\ IF WithinLimits(Len(acc'), chunks')
     THEN to_send' = NextPiece(le) /\ UNCHANGED <<pc, sw>>
     ELSE TooMuch
  /\ UNCHANGED command

\* 6C XX, which carries no data
Reissue(le) ==
  /\ IF WithinLimits(Len(acc), chunks + 1)
     THEN /\ to_send' = Append(command, le)
          /\ acc' = <<>> /\ chunks' = 0 /\ UNCHANGED <<pc, sw>>
     ELSE Receive(<<>>) /\ TooMuch
  /\ UNCHANGED command

\* resp.len() < 2, or an error of pcsc
Fail == pc' = "err" /\ UNCHANGED <<command, to_send, acc, chunks, sw>>

-----------------------------------------------------------------------------
(* One exchange with the card *)

Least(a, b) == IF a < b THEN a ELSE b

IsCommand == ~IsGetResponse(to_send) /\ IsApdu(to_send)

Executes ==
  /\ pc = "loop" /\ IsCommand /\ card = "idle"
  /\ executions' = executions + 1 /\ card' = "replying" /\ given' = 0
  /\ UNCHANGED <<hostVars, reply, refusals, link>>

\* A piece of n bytes of the reply; GET RESPONSE asks for the next one.
Gives(n) ==
  LET data == SubSeq(reply.data, given + 1, given + n)
      left == Len(reply.data) - (given + n)
  IN /\ pc = "loop" /\ card = "replying"
     /\ given' = given + n
     /\ IF left > 0 THEN Continue(data, left % 256) ELSE Finish(data, reply.sw)
     /\ card' = IF pc' = "loop" /\ IsGetResponse(to_send') THEN "replying" ELSE "idle"
     /\ UNCHANGED <<reply, executions, refusals, link>>

Answers == \E n \in 0..Least(CardChunk, Len(reply.data) - given) : Gives(n)

RefusesLe ==
  /\ pc = "loop" /\ IsCommand /\ card = "idle"
  /\ refusals < MaxRefusals /\ refusals' = refusals + 1
  /\ Reissue(Len(reply.data) % 256)
  /\ UNCHANGED <<reply, executions, card, given, link>>

RefusesLength ==
  /\ pc = "loop" /\ ~IsGetResponse(to_send) /\ ~IsApdu(to_send)
  /\ Finish(<<>>, WRONG_LENGTH)
  /\ UNCHANGED cardVars

\* The command, or an answer, is lost.
LinkFails ==
  /\ pc = "loop" /\ Fail /\ link' = "failed"
  /\ UNCHANGED <<reply, executions, card, given, refusals>>

Transmit == Executes \/ Answers \/ RefusesLe \/ RefusesLength

Returned == pc # "loop" /\ UNCHANGED vars

Next == Transmit \/ LinkFails \/ Returned

\* A pcsc transmit returns.
Spec == Init /\ [][Next]_vars /\ WF_vars(Transmit)

-----------------------------------------------------------------------------
(* Properties *)

\* The variables range over what the code's types allow; the reply given so
\* far is no longer than the reply.
TypeOK ==
  /\ pc \in {"loop", "ok", "err"}
  /\ command \in Commands /\ to_send \in Seq(Byte)
  /\ acc \in Seq(Byte) /\ chunks \in 0..MaxChunks + 1 /\ sw \in Nat
  /\ reply \in Replies /\ executions \in 0..1 /\ card \in {"idle", "replying"} /\ given \in 0..Len(reply.data)
  /\ refusals \in 0..MaxRefusals /\ link \in {"sound", "failed"}

\* raw_transmit returns the reply whole, in order and once, however the card
\* cuts it and after any refusal of Le; or the card's complaint about the length.
ReplyIsWhole ==
  pc = "ok" => \/ executions = 1 /\ acc = reply.data /\ sw = reply.sw
               \/ executions = 0 /\ acc = <<>> /\ sw = WRONG_LENGTH

\* Over a sound link only a reply beyond the limits fails: 64 pieces and 64 KiB
\* are themselves within them ("61xx continuation exceeded reassembly limits").
FailsBeyondLimits ==
  pc = "err" /\ link = "sound" => Len(reply.data) > MaxBytes \/ chunks > MaxChunks

\* raw_transmit returns: a card that says 61 XX for ever runs into the limit of
\* pieces.  (For a card that says 6C XX for ever the code has no limit.)
Returns == <>(pc # "loop")

-----------------------------------------------------------------------------
(* raw_transmit implements the exchange its callers rely on. *)

\* A complaint about the length is an error to every caller (OtpError::check).
Outcome == CASE pc = "ok" /\ executions = 1 -> [tag |-> "ok", answer |-> [data |-> acc, sw |-> sw]]
             [] pc = "ok" /\ executions # 1 -> [tag |-> "failed"]
             [] pc = "err" -> [tag |-> "failed"]
             [] OTHER -> [tag |-> "pending"]

E == INSTANCE Exchange WITH Answers <- Replies, executed <- executions = 1, outcome <- Outcome

\* One raw_transmit is one exchange, although it sends several commands: the
\* card executes at most once, and an Ok holds its whole reply.
ImplementsExchange == E!Spec

=============================================================================
