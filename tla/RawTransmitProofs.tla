-------------------------- MODULE RawTransmitProofs -------------------------
(***************************************************************************)
(* Proofs about raw_transmit, for every command, every reply, every size of *)
(* the pieces and every limit.                                              *)
(*                                                                          *)
(* ReplyIsWhole is not inductive: that what was read is the reply's start   *)
(* holds only together with what was sent last.  While the loop runs, the   *)
(* card owes an answer exactly when it has executed the command, GET        *)
(* RESPONSE is sent only then, and acc is the part of the reply given.      *)
(***************************************************************************)
EXTENDS RawTransmit, SequenceTheorems, TLAPS

\* While the loop runs: what was sent, what the card owes, what was read.
InLoop ==
  /\ card = "replying" <=> executions = 1
  /\ IsGetResponse(to_send) => card = "replying"
  /\ card = "replying" /\ ~IsGetResponse(to_send) => IsApdu(to_send)
  /\ acc = IF card = "replying" THEN SubSeq(reply.data, 1, given) ELSE <<>>
  /\ chunks <= MaxChunks

IInv == TypeOK /\ (pc = "loop" => InLoop) /\ ReplyIsWhole /\ FailsBeyondLimits

-----------------------------------------------------------------------------
(* The commands the loop sends *)

LEMMA GetResponseProperties ==
  ASSUME NEW le \in Byte
  PROVE  GetResponse(le) \in Seq(Byte) /\ IsGetResponse(GetResponse(le))
BY DEF GetResponse, Byte, IsGetResponse, GET_RESPONSE_INS

(* Another Le leaves the instruction byte as it was. *)
LEMMA ReissuedProperties ==
  ASSUME NEW c \in Commands, NEW le \in Byte
  PROVE  Append(c, le) \in Seq(Byte) /\ ~IsGetResponse(Append(c, le))
<1>1. c \in Seq(Byte) /\ Len(c) >= 4 /\ ~IsGetResponse(c)
  BY DEF Commands
<1>2. Append(c, le)[2] = c[2]
  BY <1>1, SMT
<1> QED  BY <1>1, <1>2 DEF IsGetResponse

LEMMA LeIsByte == \A n \in Nat : n % 256 \in Byte
BY SMT DEF Byte

(* The reply's start, and the piece that follows it. *)
LEMMA PieceProperties ==
  ASSUME NEW s \in Seq(Byte), NEW m \in 0..Len(s), NEW n \in 0..Len(s) - m
  PROVE  /\ SubSeq(s, m + 1, m + n) \in Seq(Byte)
         /\ SubSeq(s, 1, m) \o SubSeq(s, m + 1, m + n) = SubSeq(s, 1, m + n)
         /\ SubSeq(s, 1, m + n) \in Seq(Byte)
         /\ Len(SubSeq(s, 1, m + n)) = m + n
<1>1. Len(s) \in Nat /\ m \in Nat /\ n \in Nat /\ m + n <= Len(s)
  BY LenProperties
<1>2. SubSeq(s, 1, m) \o SubSeq(s, m + 1, m + n) = SubSeq(s, 1, m + n)
  BY <1>1, ConcatAdjacentSubSeq
<1>3. \A i \in 1..Len(s) : s[i] \in Byte
  OBVIOUS
<1>4. /\ SubSeq(s, m + 1, m + n) \in Seq(Byte)
      /\ SubSeq(s, 1, m + n) \in Seq(Byte)
      /\ Len(SubSeq(s, 1, m + n)) = m + n
  BY <1>1, <1>3, SMT
<1> QED  BY <1>2, <1>4

-----------------------------------------------------------------------------
LEMMA InitInv == Init => IInv
<1> SUFFICES ASSUME Init PROVE IInv
  OBVIOUS
<1>1. command \in Seq(Byte) /\ reply.data \in Seq(Byte)
  BY DEF Init, Commands, Replies
<1>2. TypeOK
  <2>1. Len(reply.data) \in Nat /\ <<>> \in Seq(Byte)
    BY <1>1, LenProperties
  <2>2. pc \in {"loop", "ok", "err"} /\ command \in Commands /\ to_send \in Seq(Byte)
    BY <1>1 DEF Init
  <2>3. acc \in Seq(Byte) /\ chunks \in 0..MaxChunks + 1 /\ sw \in Nat
    BY <2>1, RawTransmitAssumption DEF Init
  <2>4. /\ reply \in Replies /\ executions \in 0..1 /\ card \in {"idle", "replying"}
        /\ given \in 0..Len(reply.data)
    BY <2>1 DEF Init
  <2>5. refusals \in 0..MaxRefusals /\ link \in {"sound", "failed"}
    BY RawTransmitAssumption DEF Init
  <2> QED  BY <2>2, <2>3, <2>4, <2>5 DEF TypeOK
<1>3. InLoop
  BY RawTransmitAssumption DEF Init, InLoop, Commands
<1> QED  BY <1>2, <1>3 DEF Init, IInv, ReplyIsWhole, FailsBeyondLimits

(* An answer of the card to a command it has executed. *)
LEMMA GivesInv ==
  ASSUME IInv, NEW n \in 0..Least(CardChunk, Len(reply.data) - given), Gives(n)
  PROVE  IInv'
<1> DEFINE data == SubSeq(reply.data, given + 1, given + n)
           left == Len(reply.data) - (given + n)
<1>1. /\ pc = "loop" /\ card = "replying" /\ executions = 1
      /\ reply \in Replies /\ reply.data \in Seq(Byte) /\ reply.sw \in Nat
      /\ Len(reply.data) \in Nat /\ given \in 0..Len(reply.data)
      /\ n \in 0..Len(reply.data) - given
      /\ chunks \in 0..MaxChunks
      /\ MaxChunks \in Nat /\ MaxBytes \in Nat
  <2>1. n \in 0..Len(reply.data) - given
    BY RawTransmitAssumption, LenProperties DEF IInv, TypeOK, Replies, Least
  <2> QED  BY <2>1, RawTransmitAssumption, LenProperties DEF IInv, InLoop, TypeOK, Gives, Replies
<1>2. /\ acc \o data = SubSeq(reply.data, 1, given + n)
      /\ acc \o data \in Seq(Byte)
      /\ Len(acc \o data) = given + n
  <2>1. acc = SubSeq(reply.data, 1, given)
    BY <1>1 DEF IInv, InLoop
  <2> QED  BY <1>1, <2>1, PieceProperties
<1>3. /\ given' = given + n /\ given' \in 0..Len(reply.data)
      /\ card' = IF pc' = "loop" /\ IsGetResponse(to_send') THEN "replying" ELSE "idle"
      /\ UNCHANGED <<command, reply, executions, refusals, link>>
      /\ acc' = acc \o data /\ chunks' = chunks + 1
  <2>1. /\ given' = given + n
        /\ card' = IF pc' = "loop" /\ IsGetResponse(to_send') THEN "replying" ELSE "idle"
        /\ UNCHANGED <<reply, executions, refusals, link>>
        /\ Continue(data, left % 256) \/ Finish(data, reply.sw)
    BY DEF Gives
  <2>2. acc' = acc \o data /\ chunks' = chunks + 1 /\ command' = command
    BY <2>1 DEF Continue, Finish, Receive, Joined, Counted
  <2> QED  BY <1>1, <2>1, <2>2
<1>4. left \in Nat /\ left % 256 \in Byte
  <2>1. left \in Nat
    BY <1>1
  <2> QED  BY <2>1, LeIsByte
<1>5. CASE ~WithinLimits(Len(acc'), chunks')
  <2>1. pc' = "err" /\ UNCHANGED <<to_send, sw>>
    BY <1>5 DEF Gives, Continue, Finish, TooMuch
  <2>2. Len(reply'.data) > MaxBytes \/ chunks' > MaxChunks
    BY <1>1, <1>2, <1>3, <1>5 DEF WithinLimits
  <2>3. TypeOK'
    BY <1>1, <1>2, <1>3, <2>1 DEF IInv, TypeOK
  <2> QED  BY <2>1, <2>2, <2>3 DEF IInv, ReplyIsWhole, FailsBeyondLimits
<1>6. CASE WithinLimits(Len(acc'), chunks') /\ left > 0
  <2>1. pc' = "loop" /\ to_send' = GetResponse(left % 256) /\ sw' = sw
    BY <1>1, <1>6 DEF Gives, Continue, NextPiece
  <2>2. to_send' \in Seq(Byte) /\ IsGetResponse(to_send') /\ card' = "replying"
    BY <1>3, <1>4, <2>1, GetResponseProperties
  <2>3. TypeOK'
    <3>1. command' \in Commands /\ executions' \in 0..1
      BY <1>1, <1>3 DEF IInv, TypeOK
    <3>2. refusals' \in 0..MaxRefusals /\ link' \in {"sound", "failed"} /\ sw' \in Nat
      BY <1>3, <2>1 DEF IInv, TypeOK
    <3>3. reply' \in Replies /\ given' \in 0..Len(reply'.data)
      BY <1>1, <1>3
    <3>4. acc' \in Seq(Byte) /\ chunks' \in 0..MaxChunks + 1
      BY <1>1, <1>2, <1>3
    <3> QED  BY <2>1, <2>2, <3>1, <3>2, <3>3, <3>4 DEF TypeOK
  <2>4. InLoop'
    BY <1>1, <1>2, <1>3, <1>6, <2>2 DEF InLoop, WithinLimits
  <2> QED  BY <2>1, <2>3, <2>4 DEF IInv, ReplyIsWhole, FailsBeyondLimits
<1>7. CASE WithinLimits(Len(acc'), chunks') /\ ~(left > 0)
  <2>1. pc' = "ok" /\ sw' = reply.sw /\ to_send' = to_send
    BY <1>1, <1>7 DEF Gives, Finish
  <2>2. acc' = reply.data
    <3>1. given + n = Len(reply.data)
      BY <1>1, <1>7
    <3> QED  BY <1>1, <1>2, <1>3, <3>1, SubSeqFull
  <2>3. TypeOK'
    BY <1>1, <1>2, <1>3, <2>1 DEF IInv, TypeOK
  <2> QED  BY <1>1, <1>3, <2>1, <2>2, <2>3 DEF IInv, ReplyIsWhole, FailsBeyondLimits
<1> QED  BY <1>5, <1>6, <1>7

LEMMA StepInv == IInv /\ [Next]_vars => IInv'
<1> SUFFICES ASSUME IInv, [Next]_vars PROVE IInv'
  OBVIOUS
<1> USE RawTransmitAssumption
<1>1. CASE Executes
  <2>1. InLoop /\ executions = 0 /\ acc = <<>>
    BY <1>1 DEF IInv, InLoop, TypeOK, Executes
  <2>2. SubSeq(reply.data, 1, 0) = <<>>
    BY SubSeqEmpty
  <2>3. TypeOK'
    BY <1>1, <2>1, LenProperties DEF IInv, TypeOK, Executes, hostVars, Replies
  <2>4. InLoop'
    BY <1>1, <2>1, <2>2 DEF InLoop, Executes, hostVars, IsCommand
  <2> QED  BY <1>1, <2>3, <2>4 DEF IInv, ReplyIsWhole, FailsBeyondLimits, Executes, hostVars
<1>2. CASE Answers
  BY <1>2, GivesInv DEF Answers
<1>3. CASE RefusesLe
  <2> DEFINE le == Len(reply.data) % 256
  <2>1. InLoop /\ executions = 0 /\ acc = <<>> /\ pc = "loop" /\ card = "idle" /\ chunks \in 0..MaxChunks
    BY <1>3 DEF IInv, InLoop, TypeOK, RefusesLe
  <2>2. le \in Byte /\ command \in Commands
    BY LeIsByte, LenProperties DEF IInv, TypeOK, Replies
  <2>3. Append(command, le) \in Seq(Byte) /\ ~IsGetResponse(Append(command, le))
    BY <2>2, ReissuedProperties
  <2>4. refusals' \in 0..MaxRefusals
    BY <1>3 DEF RefusesLe, IInv, TypeOK
  <2>5. CASE WithinLimits(Len(acc), chunks + 1)
    <3>1. /\ to_send' = Append(command, le) /\ acc' = <<>> /\ chunks' = 0 /\ pc' = pc /\ sw' = sw
          /\ UNCHANGED <<command, reply, executions, card, given, link>>
      BY <1>3, <2>5 DEF RefusesLe, Reissue
    <3>2. TypeOK'
      <4>1. /\ command' \in Commands /\ executions' \in 0..1 /\ card' \in {"idle", "replying"}
            /\ link' \in {"sound", "failed"} /\ sw' \in Nat
        BY <3>1 DEF IInv, TypeOK
      <4>2. reply' \in Replies /\ given' \in 0..Len(reply'.data)
        BY <3>1 DEF IInv, TypeOK
      <4>3. pc' = "loop" /\ to_send' \in Seq(Byte) /\ acc' \in Seq(Byte)
        <5>1. <<>> \in Seq(Byte)
          OBVIOUS
        <5>2. pc' = "loop"
          BY <2>1, <3>1
        <5> QED  BY <2>3, <3>1, <5>1, <5>2
      <4>4. chunks' \in 0..MaxChunks + 1
        BY <3>1
      <4> QED  BY <2>4, <4>1, <4>2, <4>3, <4>4 DEF TypeOK
    <3>3. InLoop'
      <4>1. card' = "idle" /\ executions' = 0 /\ acc' = <<>> /\ chunks' <= MaxChunks
        BY <2>1, <3>1
      <4>2. ~IsGetResponse(to_send')
        BY <2>3, <3>1
      <4> QED  BY <4>1, <4>2 DEF InLoop
    <3> QED  BY <2>1, <3>1, <3>2, <3>3 DEF IInv, ReplyIsWhole, FailsBeyondLimits
  <2>6. CASE ~WithinLimits(Len(acc), chunks + 1)
    <3>1. /\ pc' = "err" /\ UNCHANGED <<to_send, sw>>
          /\ acc' = acc \o <<>> /\ chunks' = chunks + 1
          /\ UNCHANGED <<command, reply, executions, card, given, link>>
      BY <1>3, <2>6 DEF RefusesLe, Reissue, TooMuch, Receive, Joined, Counted
    <3>2. acc' = <<>> /\ chunks' > MaxChunks
      BY <2>1, <2>6, <3>1 DEF WithinLimits
    <3>3. TypeOK'
      BY <2>1, <2>4, <3>1, <3>2 DEF IInv, TypeOK
    <3> QED  BY <3>1, <3>2, <3>3 DEF IInv, ReplyIsWhole, FailsBeyondLimits
  <2> QED  BY <2>5, <2>6
<1>4. CASE RefusesLength
  <2>1. InLoop /\ executions = 0 /\ acc = <<>> /\ pc = "loop" /\ card = "idle" /\ chunks \in 0..MaxChunks
    BY <1>4 DEF IInv, InLoop, TypeOK, RefusesLength
  <2>2. /\ acc' = <<>> /\ chunks' = chunks + 1
        /\ UNCHANGED <<command, to_send, reply, executions, card, given, refusals, link>>
        /\ \/ pc' = "ok" /\ sw' = WRONG_LENGTH
           \/ pc' = "err" /\ sw' = sw /\ chunks' > MaxChunks
    BY <1>4, <2>1 DEF RefusesLength, Finish, Receive, Joined, Counted, TooMuch, WithinLimits, cardVars
  <2>3. TypeOK'
    BY <2>1, <2>2 DEF IInv, TypeOK, WRONG_LENGTH
  <2> QED  BY <2>1, <2>2, <2>3 DEF IInv, ReplyIsWhole, FailsBeyondLimits
<1>5. CASE LinkFails
  <2>1. TypeOK'
    BY <1>5 DEF IInv, TypeOK, LinkFails, Fail
  <2> QED  BY <1>5, <2>1 DEF IInv, ReplyIsWhole, FailsBeyondLimits, LinkFails, Fail
<1>6. CASE UNCHANGED vars
  <2>1. TypeOK'
    BY <1>6 DEF IInv, TypeOK, vars, hostVars, cardVars
  <2>2. pc' = "loop" => InLoop'
    BY <1>6 DEF IInv, InLoop, vars, hostVars, cardVars
  <2> QED  BY <1>6, <2>1, <2>2 DEF IInv, ReplyIsWhole, FailsBeyondLimits, vars, hostVars, cardVars
<1> QED  BY <1>1, <1>2, <1>3, <1>4, <1>5, <1>6 DEF Next, Transmit, Returned

-----------------------------------------------------------------------------
(* The theorems. *)

(* The inductive invariant holds in every reachable state. *)
THEOREM IndInv == Spec => []IInv
BY InitInv, StepInv, PTL DEF Spec

(* Every reachable state of raw_transmit is well typed: the count of pieces   *)
(* stays within one of its limit.                                             *)
THEOREM TypeCorrect == Spec => []TypeOK
<1>1. IInv => TypeOK
  BY DEF IInv
<1> QED  BY <1>1, IndInv, PTL

(* What raw_transmit returns as Ok is the reply, whole, in order and once,    *)
(* however the card cuts it and however often it refuses Le first.            *)
THEOREM ReplyWhole == Spec => []ReplyIsWhole
<1>1. IInv => ReplyIsWhole
  BY DEF IInv
<1> QED  BY <1>1, IndInv, PTL

(* Over a sound link raw_transmit fails only on a reply beyond its limits.    *)
THEOREM FailsOnlyBeyondLimits == Spec => []FailsBeyondLimits
<1>1. IInv => FailsBeyondLimits
  BY DEF IInv
<1> QED  BY <1>1, IndInv, PTL

-----------------------------------------------------------------------------
(* raw_transmit implements Exchange. *)

LEMMA InitRefines == Init => E!Init
BY DEF Init, E!Init, E!Pending, Outcome

(* What a step can do to the state the caller sees. *)
LEMMA Visible ==
  ASSUME [Next]_vars
  PROVE  /\ reply' = reply
         /\ \/ pc = "loop" /\ executions' = executions
            \/ Executes
            \/ UNCHANGED vars
<1>1. CASE Executes
  BY <1>1 DEF Executes
<1>2. CASE Answers
  BY <1>2 DEF Answers, Gives
<1>3. CASE RefusesLe \/ RefusesLength \/ LinkFails
  BY <1>3 DEF RefusesLe, RefusesLength, LinkFails, cardVars
<1>4. CASE UNCHANGED vars
  BY <1>4 DEF vars, cardVars
<1> QED  BY <1>1, <1>2, <1>3, <1>4 DEF Next, Transmit, Returned

(* A step of raw_transmit executes the command, returns, or is not visible. *)
LEMMA StepRefines == IInv /\ IInv' /\ [Next]_vars => [E!Next]_E!vars
<1> SUFFICES ASSUME IInv, IInv', [Next]_vars PROVE [E!Next]_E!vars
  OBVIOUS
<1>1. reply' = reply /\ reply \in Replies
  BY Visible DEF IInv, TypeOK
<1>2. CASE Executes
  <2>1. executions = 0 /\ executions' = 1
    BY <1>2 DEF Executes, IInv, InLoop, TypeOK
  <2>2. pc = "loop" /\ pc' = "loop"
    BY <1>2 DEF Executes, hostVars
  <2>3. Outcome' = Outcome
    BY <2>2 DEF Outcome
  <2> QED  BY <1>1, <2>1, <2>3 DEF E!Next, E!Execute
<1>3. CASE UNCHANGED vars
  <2>1. Outcome' = Outcome
    BY <1>3 DEF vars, hostVars, cardVars, Outcome
  <2> QED  BY <1>1, <1>3, <2>1 DEF E!vars, vars, cardVars
<1>4. CASE pc = "loop" /\ executions' = executions
  <2>1. Outcome = E!Pending
    BY <1>4 DEF Outcome, E!Pending
  <2>2. CASE pc' = "ok" /\ executions' = 1
    <3>1. acc' = reply.data /\ sw' = reply.sw
      BY <1>1, <2>2 DEF IInv, ReplyIsWhole
    <3>2. reply = [data |-> reply.data, sw |-> reply.sw]
      BY <1>1 DEF Replies
    <3>3. Outcome' = E!Ok(reply)
      BY <2>2, <3>1, <3>2 DEF Outcome, E!Ok
    <3> QED  BY <1>1, <1>4, <2>1, <2>2, <3>3 DEF E!Next, E!Answer
  <2>3. CASE pc' = "err" \/ (pc' = "ok" /\ executions' # 1)
    <3>1. Outcome' = E!Failed
      BY <2>3 DEF Outcome, E!Failed
    <3> QED  BY <1>1, <1>4, <2>1, <3>1 DEF E!Next, E!Fail
  <2>4. CASE pc' = "loop"
    <3>1. Outcome' = E!Pending
      BY <2>4 DEF Outcome, E!Pending
    <3> QED  BY <1>1, <1>4, <2>1, <3>1 DEF E!vars
  <2> QED  BY <2>2, <2>3, <2>4 DEF IInv, TypeOK
<1> QED  BY <1>2, <1>3, <1>4, Visible

(* raw_transmit implements Exchange: however many commands it sends, the card *)
(* executes one at most once, and an Ok holds its whole reply.                *)
THEOREM Refinement == Spec => ImplementsExchange
<1>1. Init => E!Init
  BY InitRefines
<1>2. IInv /\ IInv' /\ [Next]_vars => [E!Next]_E!vars
  BY StepRefines
<1> QED  BY <1>1, <1>2, IndInv, PTL DEF Spec, ImplementsExchange, E!Spec

=============================================================================
