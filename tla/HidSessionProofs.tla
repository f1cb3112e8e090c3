-------------------------- MODULE HidSessionProofs --------------------------
(***************************************************************************)
(* Proofs about sessions over USB-HID, for any number of sessions: types,   *)
(* and what a session that has the device for itself takes for its answers. *)
(***************************************************************************)
EXTENDS HidSession, SequenceTheorems, TLAPS

-----------------------------------------------------------------------------
(* The invariant.  A session that is alone is at one command at a time, and   *)
(* what is on its way to it answers that command.  Only `enum` may also meet  *)
(* the late answer to a READ_SERIAL, and it does not take it.  `info` does:   *)
(* it is excepted, as in AloneReportsItsOwn.                                  *)

Current(t) == [by |-> t, step |-> pc[t]]

\* Nothing is on its way.
Quiet(t) == commands = <<>> /\ queue[t] = <<>> /\ ~partial[t]

\* The answer is at the handle, all of it or its second report.
Arrived(t, status) ==
  LET reports == Reports([to |-> Current(t), status |-> status])
  IN /\ commands = <<>>
     /\ \/ queue[t] = reports /\ ~partial[t]
        \/ Len(reports) = 2 /\ queue[t] = Tail(reports) /\ partial[t]
     /\ pc[t] = "write_seed" /\ status = "ok" => t \in done

OneAnswer(t) ==
  \/ Quiet(t)
  \/ waiting[t] /\ queue[t] = <<>> /\ ~partial[t] /\ commands = <<Current(t)>>
  \/ waiting[t] /\ \E status \in Statuses(Current(t)) : Arrived(t, status)

\* What `enum` may find: answers to READ_SERIAL, which know no "not found".
LateSerial(t) ==
  /\ \A i \in 1..Len(commands) : commands[i].by = t /\ commands[i].step \in {"serial", "enum"}
  /\ \A i \in 1..Len(queue[t]) :
       LET a == queue[t][i].answer
       IN /\ a.to.by = t /\ a.to.step \in {"serial", "enum"}
          /\ a.to.step = "serial" => a.status # "not_found"

AloneAt(t) ==
  /\ ~crossed[t]
  /\ pc[t] \in Steps \ {"enum"} => OneAnswer(t)
  /\ pc[t] = "enum" => LateSerial(t)
  /\ pc[t] = "ok" /\ op[t] \in Writes => t \in done

\* The commands of each operation, and a session that has sent none.
Path(t) ==
  /\ pc[t] = "new" => ~crossed[t]
  /\ op[t] \in Writes => pc[t] \notin {"serial", "enum", "config", "read_one"}
  /\ op[t] # "info" => pc[t] # "config"

Inv(t) == Path(t) /\ (alone[t] /\ op[t] # "info" => AloneAt(t))

AInv == TypeOK /\ \A t \in Sessions : Inv(t)

-----------------------------------------------------------------------------
(* The operators of the model *)

LEMMA FollowingIs ==
  ASSUME TypeOK, NEW t \in Sessions, IsOpen(t)
  PROVE  /\ Following(t) \in (Steps \ {"probe"}) \cup {"ok"}
         /\ pc[t] = "probe" => Following(t) \in {"serial", "read_one", "pubkey", "write_seed"}
         /\ pc[t] = "serial" => Following(t) = IF op[t] = "info" THEN "config" ELSE "enum"
         /\ pc[t] = "pubkey" => Following(t) = "write_seed"
         /\ pc[t] \notin {"probe", "serial", "pubkey"} => Following(t) = "ok"
         /\ op[t] \in Writes => Following(t) \in {"pubkey", "write_seed", "ok"} \cup
              (IF pc[t] = "serial" THEN {"enum"} ELSE {})
<1>1. op[t] \in AllOps /\ pc[t] \in Steps
  BY HidSessionAssumption DEF TypeOK, IsOpen
<1>2. CASE pc[t] = "probe"
  <2>1. CASE op[t] \in {"load", "info"}
    BY <1>2, <2>1 DEF Following, Steps, Writes
  <2>2. CASE op[t] = "read"
    BY <1>2, <2>2 DEF Following, Steps, Writes
  <2>3. CASE op[t] \in {"write", "delete"}
    BY <1>2, <2>3 DEF Following, Steps
  <2>4. CASE op[t] = "erase"
    BY <1>2, <2>4 DEF Following, Steps
  <2> QED  BY <1>1, <2>1, <2>2, <2>3, <2>4 DEF AllOps, Writes
<1>3. CASE pc[t] = "serial"
  BY <1>3 DEF Following, Steps, Writes
<1>4. CASE pc[t] = "pubkey"
  BY <1>4 DEF Following, Steps
<1>5. CASE pc[t] \notin {"probe", "serial", "pubkey"}
  BY <1>5 DEF Following, Steps
<1> QED  BY <1>2, <1>3, <1>4, <1>5

LEMMA StatusesAre ==
  ASSUME NEW c
  PROVE  /\ Statuses(c) \subseteq {"ok", "not_found", "error"}
         /\ c.step = "serial" => "not_found" \notin Statuses(c)
<1>1. CASE c.step \in {"enum", "read_one"}
  BY <1>1 DEF Statuses
<1>2. CASE c.step \notin {"enum", "read_one"}
  <2>1. Statuses(c) \in {{"ok", "not_found", "error"}, {"ok", "error"}}
    BY <1>2 DEF Statuses
  <2>2. c.step = "serial" => Statuses(c) = {"ok", "error"}
    BY DEF Statuses
  <2> QED  BY <2>1, <2>2
<1> QED  BY <1>1, <1>2

\* An answer is one report, or two.
Part(a, part) == [answer |-> a, part |-> part]
InTwo(a) == a.status = "ok" /\ a.to.step \in {"probe", "pubkey", "enum"}

LEMMA ReportsAre ==
  ASSUME NEW a \in Answer
  PROVE  /\ InTwo(a) => /\ Reports(a) = <<Part(a, "first"), Part(a, "second")>>
                        /\ Tail(Reports(a)) = <<Part(a, "second")>> /\ Len(Reports(a)) = 2
         /\ ~InTwo(a) => /\ Reports(a) = <<Part(a, "only")>>
                         /\ Tail(Reports(a)) = <<>> /\ Len(Reports(a)) = 1
         /\ Reports(a) \in Seq(Report) /\ Tail(Reports(a)) \in Seq(Report)
         /\ \A i \in 1..Len(Reports(a)) : Reports(a)[i].answer = a
<1>1. \A part \in {"only", "first", "second"} : Part(a, part) \in Report
  BY DEF Part, Report
<1>2. CASE InTwo(a)
  <2>1. Reports(a) = <<Part(a, "first"), Part(a, "second")>>
    BY <1>2 DEF Reports, InTwo, Part
  <2>2. Tail(Reports(a)) = <<Part(a, "second")>> /\ Len(Reports(a)) = 2
    BY <2>1
  <2> QED  BY <1>1, <1>2, <2>1, <2>2 DEF Part
<1>3. CASE ~InTwo(a)
  <2>1. Reports(a) = <<Part(a, "only")>>
    BY <1>3 DEF Reports, InTwo, Part
  <2>2. Tail(Reports(a)) = <<>> /\ Len(Reports(a)) = 1
    BY <2>1
  <2> QED  BY <1>1, <1>3, <2>1, <2>2 DEF Part
<1> QED  BY <1>2, <1>3

-----------------------------------------------------------------------------
(* What a step of session t does. *)

\* The other sessions keep what they have.
OthersKept(t) ==
  /\ UNCHANGED op
  /\ \A u \in Sessions \ {t} :
       /\ pc'[u] = pc[u] /\ waiting'[u] = waiting[u] /\ partial'[u] = partial[u]
       /\ queue'[u] = queue[u] /\ crossed'[u] = crossed[u] /\ alone'[u] = alone[u]

LEMMA OthersInv ==
  ASSUME NEW t \in Sessions, OthersKept(t), UNCHANGED <<commands, done>>,
         \A u \in Sessions : Inv(u), Inv(t)'
  PROVE  \A u \in Sessions : Inv(u)'
<1> SUFFICES ASSUME NEW u \in Sessions \ {t} PROVE Inv(u)'
  OBVIOUS
<1>1. /\ pc'[u] = pc[u] /\ waiting'[u] = waiting[u] /\ partial'[u] = partial[u]
      /\ queue'[u] = queue[u] /\ crossed'[u] = crossed[u] /\ alone'[u] = alone[u]
      /\ op' = op /\ commands' = commands /\ done' = done
  BY DEF OthersKept
<1>2. Current(u)' = Current(u) /\ Statuses(Current(u))' = Statuses(Current(u))
  BY <1>1 DEF Current, Statuses
<1>3. OneAnswer(u)' <=> OneAnswer(u)
  BY <1>1, <1>2 DEF OneAnswer, Quiet, Arrived
<1>4. LateSerial(u)' <=> LateSerial(u)
  BY <1>1 DEF LateSerial
<1> QED  BY <1>1, <1>3, <1>4 DEF Inv, Path, AloneAt

\* It goes to another command, or returns.
LEMMA GotoIs ==
  ASSUME TypeOK, NEW t \in Sessions, NEW step \in Steps \cup {"ok", "err"},
         NEW reports \in Seq(Report), Goto(t, step, reports),
         crossed' \in [Sessions -> BOOLEAN], \A u \in Sessions \ {t} : crossed'[u] = crossed[u],
         alone' \in [Sessions -> BOOLEAN], \A u \in Sessions \ {t} : alone'[u] = alone[u],
         UNCHANGED <<blocking, op, deviceVars>>
  PROVE  /\ TypeOK' /\ OthersKept(t) /\ UNCHANGED <<commands, done>>
         /\ pc'[t] = step /\ ~waiting'[t] /\ ~partial'[t]
         /\ step \in Steps => queue'[t] = reports
<1>1. <<>> \in Seq(Report)
  OBVIOUS
<1>2. /\ pc' \in [Sessions -> Steps \cup {"new", "ok", "err"}] /\ pc'[t] = step
      /\ waiting' \in [Sessions -> BOOLEAN] /\ ~waiting'[t]
      /\ partial' \in [Sessions -> BOOLEAN] /\ ~partial'[t]
      /\ queue' \in [Sessions -> Seq(Report)]
      /\ step \in Steps => queue'[t] = reports
  BY <1>1 DEF Goto, TypeOK
<1>3. OthersKept(t)
  BY DEF Goto, TypeOK, OthersKept
<1>4. \A u \in Sessions : waiting'[u] => IsOpen(u)'
  BY <1>2, <1>3 DEF TypeOK, OthersKept, IsOpen
<1> QED  BY <1>2, <1>3, <1>4 DEF TypeOK, deviceVars

\* It got an error.  READ_SERIAL leaves its answer to `enum`; the others are not
\* tolerated, or not of the operations that are excepted.
LEMMA FailedInv ==
  ASSUME TypeOK, NEW t \in Sessions, IsOpen(t), \A u \in Sessions : Inv(u),
         NEW reports \in Seq(Report), Failed(t, reports),
         \A i \in 1..Len(reports) : \E k \in 1..Len(queue[t]) : reports[i] = queue[t][k],
         UNCHANGED <<blocking, op, alone, deviceVars>>
  PROVE  TypeOK' /\ \A u \in Sessions : Inv(u)'
<1> DEFINE step == IF Tolerates(t) THEN Following(t) ELSE "err"
<1>1. step \in Steps \cup {"ok", "err"}
  BY FollowingIs
<1>2. Goto(t, step, reports) /\ crossed' = crossed /\ alone' = alone
  BY DEF Failed
<1>3. step = IF pc[t] = "serial" THEN IF op[t] = "info" THEN "config" ELSE "enum"
             ELSE IF pc[t] = "config" THEN "ok" ELSE "err"
  BY FollowingIs DEF Tolerates
<1> HIDE DEF step
<1>4. /\ TypeOK' /\ OthersKept(t) /\ UNCHANGED <<commands, done>>
      /\ pc'[t] = step /\ ~waiting'[t] /\ ~partial'[t]
      /\ step \in Steps => queue'[t] = reports
  BY <1>1, <1>2, GotoIs DEF TypeOK
<1>5. op' = op /\ alone' = alone /\ crossed' = crossed /\ commands' = commands
  BY <1>2, <1>4 DEF OthersKept
<1>6. Path(t)'
  BY <1>3, <1>4, <1>5 DEF Path, Inv, Writes
<1>7. ASSUME alone[t], op[t] # "info" PROVE AloneAt(t)'
  <2>1. AloneAt(t) /\ Path(t)
    BY <1>7 DEF Inv
  <2>2. CASE pc[t] = "serial"
    <3>1. step = "enum" /\ OneAnswer(t)
      BY <1>3, <1>7, <2>1, <2>2 DEF AloneAt, Steps
    <3>2. \A i \in 1..Len(commands) : commands[i].by = t /\ commands[i].step = "serial"
      <4>1. commands = <<>> \/ commands = <<Current(t)>>
        BY <3>1 DEF OneAnswer, Quiet, Arrived
      <4>2. Current(t).by = t /\ Current(t).step = "serial"
        BY <2>2 DEF Current
      <4> QED  BY <4>1, <4>2
    <3>3. \A k \in 1..Len(queue[t]) :
            LET a == queue[t][k].answer
            IN a.to.by = t /\ a.to.step = "serial" /\ a.status # "not_found"
      <4>1. CASE queue[t] = <<>>
        BY <4>1
      <4>2. ASSUME NEW status \in Statuses(Current(t)), Arrived(t, status)
            PROVE  \A k \in 1..Len(queue[t]) :
                     LET a == queue[t][k].answer
                     IN a.to.by = t /\ a.to.step = "serial" /\ a.status # "not_found"
        <5> DEFINE a == [to |-> Current(t), status |-> status]
        <5>1. Current(t).step = "serial" /\ Current(t).by = t /\ Current(t) \in Command
          BY <2>2 DEF Current, Command, Steps
        <5>2. status # "not_found" /\ a \in Answer
          BY <4>2, <5>1, StatusesAre DEF Answer
        <5>3. queue[t] \in {Reports(a), Tail(Reports(a))} /\ ~InTwo(a)
          BY <4>2, <5>1 DEF Arrived, InTwo
        <5>4. queue[t] = <<Part(a, "only")>> \/ queue[t] = <<>>
          BY <5>2, <5>3, ReportsAre
        <5> QED  BY <5>1, <5>2, <5>4 DEF Part
      <4> QED  BY <3>1, <4>1, <4>2 DEF OneAnswer, Quiet
    <3>4. LateSerial(t)'
      <4>1. queue'[t] = reports
        BY <1>4, <3>1 DEF Steps
      <4>2. \A i \in 1..Len(reports) :
              LET a == reports[i].answer
              IN a.to.by = t /\ a.to.step = "serial" /\ a.status # "not_found"
        BY <3>3
      <4> QED  BY <1>5, <3>2, <4>1, <4>2 DEF LateSerial
    <3> QED  BY <1>4, <1>5, <2>1, <3>1, <3>4 DEF AloneAt
  <2>3. CASE pc[t] # "serial"
    <3>1. step = "err"
      BY <1>3, <1>7, <2>1, <2>3 DEF Path
    <3> QED  BY <1>4, <1>5, <2>1, <3>1 DEF AloneAt, Steps
  <2> QED  BY <2>2, <2>3
<1>8. Inv(t)'
  BY <1>5, <1>6, <1>7 DEF Inv
<1> QED  BY <1>4, <1>8, OthersInv

\* It took an answer.
LEMMA AcceptedInv ==
  ASSUME TypeOK, NEW t \in Sessions, IsOpen(t), \A u \in Sessions : Inv(u),
         NEW a \in Answer, NEW reports \in Seq(Report), Accepts(t, a),
         Goto(t, Following(t), reports),
         crossed' = [crossed EXCEPT ![t] = @ \/ (alone[t] /\ a.to # [by |-> t, step |-> pc[t]])],
         UNCHANGED <<blocking, op, alone, deviceVars>>,
         alone[t] /\ op[t] # "info" =>
           /\ pc[t] # "enum" => /\ commands = <<>> /\ reports = <<>> /\ a.to = Current(t)
                                /\ pc[t] = "write_seed" /\ a.status = "ok" => t \in done
           /\ pc[t] = "enum" => /\ a.to.by = t /\ a.to.step \in {"serial", "enum"}
                                /\ a.to.step = "serial" => a.status # "not_found"
  PROVE  TypeOK' /\ \A u \in Sessions : Inv(u)'
<1> DEFINE step == Following(t)
<1>1. step \in Steps \cup {"ok"}
  BY FollowingIs
<1>2. /\ crossed' \in [Sessions -> BOOLEAN]
      /\ \A u \in Sessions \ {t} : crossed'[u] = crossed[u]
  BY DEF TypeOK
<1>2a. crossed'[t] => crossed[t] \/ a.to # Current(t)
  BY DEF TypeOK, Current
<1>3. /\ TypeOK' /\ OthersKept(t) /\ UNCHANGED <<commands, done>>
      /\ pc'[t] = step /\ ~waiting'[t] /\ ~partial'[t]
      /\ step \in Steps => queue'[t] = reports
  <2>1. step \in Steps \cup {"ok", "err"} /\ Goto(t, step, reports)
    BY <1>1
  <2>2. /\ alone' \in [Sessions -> BOOLEAN] /\ \A u \in Sessions \ {t} : alone'[u] = alone[u]
        /\ UNCHANGED <<blocking, op, deviceVars>>
    BY DEF TypeOK
  <2> HIDE DEF step
  <2> QED  BY <1>2, <2>1, <2>2, GotoIs
<1>4. /\ step \in Steps => pc[t] \in {"probe", "serial", "pubkey"}
      /\ step = "enum" => pc[t] = "serial"
      /\ step = "config" => op[t] = "info"
      /\ op[t] \in Writes /\ pc[t] # "serial" => step \in {"pubkey", "write_seed", "ok"}
      /\ step = "ok" => pc[t] \notin {"probe", "serial", "pubkey"}
  BY FollowingIs DEF Steps
<1> HIDE DEF step
<1>5. op' = op /\ alone' = alone /\ Path(t)
  BY <1>3 DEF OthersKept, Inv
<1>6. Path(t)'
  <2>1. step # "new"
    BY <1>1 DEF Steps
  <2> QED  BY <1>3, <1>4, <1>5, <2>1 DEF Path, Writes
<1>7. ASSUME alone[t], op[t] # "info" PROVE AloneAt(t)'
  <2>1. ~crossed[t]
    BY <1>7 DEF Inv, AloneAt
  <2>2. a.to = Current(t)
    <3>1. CASE pc[t] = "enum"
      <4>1. a.to.step = "enum" /\ a.to.by = t
        BY <1>7, <3>1 DEF Accepts
      <4>2. a.to \in Command
        BY DEF Answer
      <4> QED  BY <3>1, <4>1, <4>2 DEF Command, Current
    <3> QED  BY <1>7, <3>1
  <2>3. ~crossed'[t]
    BY <1>2a, <2>1, <2>2
  <2>4. CASE step \in Steps
    <3>1. Quiet(t)'
      BY <1>3, <1>4, <1>7, <2>4 DEF Quiet
    <3>2. LateSerial(t)'
      BY <1>3, <1>4, <1>7, <2>4 DEF LateSerial
    <3> QED  BY <1>3, <2>3, <2>4, <3>1, <3>2 DEF AloneAt, OneAnswer, Steps
  <2>5. CASE step = "ok"
    <3>1. ASSUME op[t] \in Writes PROVE t \in done'
      <4>1. pc[t] = "write_seed"
        BY <1>4, <1>5, <2>5, <3>1 DEF Path, IsOpen, Steps
      <4>2. a.status = "ok"
        BY <4>1 DEF Accepts
      <4> QED  BY <1>3, <1>7, <4>1, <4>2
    <3> QED  BY <1>3, <1>5, <2>3, <2>5, <3>1 DEF AloneAt, Steps
  <2> QED  BY <1>1, <2>4, <2>5 DEF step
<1>8. Inv(t)'
  BY <1>5, <1>6, <1>7 DEF Inv
<1> QED  BY <1>3, <1>8, OthersInv

-----------------------------------------------------------------------------
(* The steps of a session *)

\* The first report at the handle of a session that is alone.
LEMMA HeadAlone ==
  ASSUME TypeOK, NEW t \in Sessions, IsOpen(t), pc[t] # "enum", OneAnswer(t), queue[t] # <<>>
  PROVE  LET r == Head(queue[t])
         IN /\ commands = <<>> /\ r.answer.to = Current(t)
            /\ pc[t] = "write_seed" /\ r.answer.status = "ok" => t \in done
            /\ r.part # "first" => Tail(queue[t]) = <<>>
            /\ r.part = "first" =>
                 \E status \in Statuses(Current(t)) :
                   LET reports == Reports([to |-> Current(t), status |-> status])
                   IN /\ Len(reports) = 2 /\ Tail(queue[t]) = Tail(reports)
                      /\ pc[t] = "write_seed" /\ status = "ok" => t \in done
<1>1. PICK status \in Statuses(Current(t)) : Arrived(t, status)
  BY DEF OneAnswer, Quiet
<1> DEFINE a == [to |-> Current(t), status |-> status]
<1>2. a \in Answer /\ a.to = Current(t) /\ a.status = status
  <2>1. Current(t) \in Command
    BY DEF Current, Command, IsOpen
  <2> QED  BY <2>1, StatusesAre DEF Answer
<1>3. /\ commands = <<>> /\ (pc[t] = "write_seed" /\ status = "ok" => t \in done)
      /\ queue[t] = Reports(a) \/ (Len(Reports(a)) = 2 /\ queue[t] = Tail(Reports(a)))
  BY <1>1 DEF Arrived
<1> HIDE DEF a
<1>4. CASE queue[t] = Reports(a) /\ InTwo(a)
  <2>1. queue[t] = <<Part(a, "first"), Part(a, "second")>> /\ Len(Reports(a)) = 2
    BY <1>2, <1>4, ReportsAre
  <2>2. Head(queue[t]) = Part(a, "first") /\ Tail(queue[t]) = Tail(Reports(a))
    BY <1>4, <2>1
  <2> QED  BY <1>2, <1>3, <2>1, <2>2 DEF Part, a
<1>5. ASSUME NEW part \in {"only", "second"}, queue[t] = <<Part(a, part)>>
      PROVE  /\ commands = <<>> /\ Head(queue[t]).answer.to = Current(t)
             /\ pc[t] = "write_seed" /\ Head(queue[t]).answer.status = "ok" => t \in done
             /\ Head(queue[t]).part # "first" /\ Tail(queue[t]) = <<>>
  <2>1. Head(queue[t]) = Part(a, part) /\ Tail(queue[t]) = <<>>
    BY <1>5
  <2>2. Part(a, part).answer = a /\ Part(a, part).part # "first"
    BY <1>5 DEF Part
  <2> QED  BY <1>2, <1>3, <2>1, <2>2
<1>6. \/ queue[t] = Reports(a) /\ InTwo(a)
      \/ queue[t] = <<Part(a, "only")>>
      \/ queue[t] = <<Part(a, "second")>>
  BY <1>2, <1>3, ReportsAre
<1> QED  BY <1>4, <1>5, <1>6

LEMMA ReadInv ==
  ASSUME TypeOK, NEW t \in Sessions, \A u \in Sessions : Inv(u), Read(t)
  PROVE  TypeOK' /\ \A u \in Sessions : Inv(u)'
<1> DEFINE r == Head(queue[t])
           rest == Tail(queue[t])
           inSequence == (r.part = "second") = partial[t]
<1>1. /\ waiting[t] /\ IsOpen(t) /\ queue[t] \in Seq(Report) /\ queue[t] # <<>>
      /\ UNCHANGED <<blocking, op, alone, deviceVars>>
  BY DEF Read, TypeOK
<1>2. /\ r \in Report /\ rest \in Seq(Report) /\ r = queue[t][1] /\ Len(queue[t]) >= 1
      /\ \A i \in 1..Len(rest) : \E k \in 1..Len(queue[t]) : rest[i] = queue[t][k]
  <2>1. /\ r \in Report /\ rest \in Seq(Report) /\ Len(rest) = Len(queue[t]) - 1
        /\ \A i \in 1..Len(rest) : rest[i] = queue[t][i + 1]
    BY <1>1, HeadTailProperties
  <2>2. Len(queue[t]) \in Nat /\ Len(queue[t]) # 0 /\ r = queue[t][1]
    BY <1>1
  <2>3. \A i \in 1..Len(rest) : i + 1 \in 1..Len(queue[t])
    BY <2>1, <2>2
  <2> QED  BY <2>1, <2>2, <2>3
<1>3. r.answer \in Answer
  BY <1>2 DEF Report
<1> HIDE DEF r, rest
<1>4. ASSUME Failed(t, rest) PROVE TypeOK' /\ \A u \in Sessions : Inv(u)'
  BY <1>1, <1>2, <1>4, FailedInv
<1>5. CASE r.part # "first" /\ Answered(t, r.answer, rest)
  <2>1. CASE Failed(t, rest)
    BY <1>4, <2>1
  <2>2. CASE /\ Accepts(t, r.answer) /\ Goto(t, Following(t), rest)
             /\ crossed' = [crossed EXCEPT ![t] =
                              @ \/ (alone[t] /\ r.answer.to # [by |-> t, step |-> pc[t]])]
    <3>1. ASSUME alone[t], op[t] # "info", pc[t] # "enum"
          PROVE  /\ commands = <<>> /\ rest = <<>> /\ r.answer.to = Current(t)
                 /\ pc[t] = "write_seed" /\ r.answer.status = "ok" => t \in done
      <4>1. OneAnswer(t)
        BY <1>1, <3>1 DEF Inv, AloneAt, IsOpen
      <4> QED  BY <1>1, <1>5, <3>1, <4>1, HeadAlone DEF r, rest
    <3>2. ASSUME alone[t], op[t] # "info", pc[t] = "enum"
          PROVE  /\ r.answer.to.by = t /\ r.answer.to.step \in {"serial", "enum"}
                 /\ r.answer.to.step = "serial" => r.answer.status # "not_found"
      <4>1. LateSerial(t)
        BY <3>2 DEF Inv, AloneAt
      <4>2. 1 \in 1..Len(queue[t])
        BY <1>1
      <4> QED  BY <1>2, <4>1, <4>2 DEF LateSerial
    <3> QED  BY <1>1, <1>2, <1>3, <2>2, <3>1, <3>2, AcceptedInv
  <2> QED  BY <1>5, <2>1, <2>2 DEF Answered
<1>6. CASE /\ r.part = "first" /\ inSequence /\ partial' = [partial EXCEPT ![t] = TRUE]
           /\ queue' = [queue EXCEPT ![t] = rest]
           /\ UNCHANGED <<pc, waiting, crossed>>
  <2>1. /\ TypeOK' /\ OthersKept(t) /\ UNCHANGED <<commands, done, op, alone, crossed, pc, waiting>>
        /\ partial'[t] /\ queue'[t] = rest
    <3>1. partial' \in [Sessions -> BOOLEAN] /\ queue' \in [Sessions -> Seq(Report)]
      BY <1>2, <1>6 DEF TypeOK
    <3> QED  BY <1>1, <1>6, <3>1 DEF TypeOK, OthersKept, IsOpen, deviceVars
  <2>2. ASSUME alone[t], op[t] # "info" PROVE AloneAt(t)'
    <3>1. AloneAt(t)
      BY <2>2 DEF Inv
    <3>2. CASE pc[t] # "enum"
      <4>1. OneAnswer(t)
        BY <1>1, <3>1, <3>2 DEF AloneAt, IsOpen
      <4>2. PICK status \in Statuses(Current(t)) :
              LET reports == Reports([to |-> Current(t), status |-> status])
              IN /\ Len(reports) = 2 /\ rest = Tail(reports)
                 /\ pc[t] = "write_seed" /\ status = "ok" => t \in done
        BY <1>1, <1>6, <3>2, <4>1, HeadAlone DEF r, rest
      <4>3. commands = <<>>
        BY <1>1, <3>2, <4>1, HeadAlone
      <4>4. Current(t)' = Current(t) /\ Statuses(Current(t))' = Statuses(Current(t))
        BY <2>1 DEF Current, Statuses
      <4>5. OneAnswer(t)'
        BY <1>1, <2>1, <4>2, <4>3, <4>4 DEF OneAnswer, Arrived
      <4> QED  BY <2>1, <3>1, <3>2, <4>5 DEF AloneAt
    <3>3. CASE pc[t] = "enum"
      <4>1. LateSerial(t)
        BY <3>1, <3>3 DEF AloneAt
      <4>2. \A i \in 1..Len(rest) :
              LET b == rest[i].answer
              IN /\ b.to.by = t /\ b.to.step \in {"serial", "enum"}
                 /\ b.to.step = "serial" => b.status # "not_found"
        BY <1>2, <4>1 DEF LateSerial
      <4>3. LateSerial(t)'
        BY <2>1, <4>1, <4>2 DEF LateSerial
      <4> QED  BY <2>1, <3>1, <3>3, <4>3 DEF AloneAt
    <3> QED  BY <3>2, <3>3
  <2>3. Inv(t)'
    BY <2>1, <2>2 DEF Inv, Path
  <2> QED  BY <2>1, <2>3, OthersInv
<1> QED  BY <1>4, <1>5, <1>6 DEF Read, r, rest

LEMMA SendInv ==
  ASSUME TypeOK, NEW t \in Sessions, \A u \in Sessions : Inv(u), Send(t)
  PROVE  TypeOK' /\ \A u \in Sessions : Inv(u)'
<1>1. IsOpen(t) /\ ~waiting[t] /\ UNCHANGED <<blocking, op, plugged, done>>
  BY DEF Send
<1>2. CASE ~plugged
  <2>1. Failed(t, queue[t]) /\ UNCHANGED <<alone, deviceVars>> /\ queue[t] \in Seq(Report)
    BY <1>1, <1>2 DEF Send, deviceVars, TypeOK
  <2> QED  BY <1>1, <2>1, FailedInv
<1>3. CASE plugged
  <2>1. /\ commands' = Append(commands, Current(t))
        /\ waiting' = [waiting EXCEPT ![t] = TRUE]
        /\ alone'   = [u \in Sessions |-> alone[u] /\ u = t]
        /\ crossed' = [u \in Sessions |-> crossed[u] /\ u = t]
        /\ UNCHANGED <<pc, partial, queue>>
    BY <1>3 DEF Send, Current
  <2>2. Current(t) \in Command
    BY <1>1 DEF Current, Command, IsOpen
  <2>3. TypeOK'
    <3>1. commands' \in Seq(Command)
      BY <2>1, <2>2 DEF TypeOK
    <3> QED  BY <1>1, <2>1, <3>1 DEF TypeOK, IsOpen
  <2>4. ASSUME NEW u \in Sessions PROVE Inv(u)'
    <3>1. Path(u)'
      BY <1>1, <2>1 DEF Inv, Path
    <3>2. ASSUME alone'[u], op'[u] # "info" PROVE AloneAt(u)'
      <4>1. /\ u = t /\ alone[t] /\ op[t] # "info" /\ AloneAt(t) /\ waiting'[t] /\ ~crossed'[t]
            /\ pc' = pc /\ queue' = queue /\ partial' = partial
        BY <1>1, <2>1, <3>2 DEF Inv, AloneAt, TypeOK
      <4>2. CASE pc[t] # "enum"
        <5>1. Quiet(t)
          BY <1>1, <4>1, <4>2 DEF AloneAt, OneAnswer, IsOpen
        <5>2. commands' = <<Current(t)>> /\ Current(t)' = Current(t)
          BY <2>1, <4>1, <5>1 DEF Quiet, Current
        <5>3. OneAnswer(t)'
          BY <4>1, <5>1, <5>2 DEF OneAnswer, Quiet
        <5> QED  BY <1>1, <4>1, <4>2, <5>3 DEF AloneAt, IsOpen, Steps
      <4>3. CASE pc[t] = "enum"
        <5>1. LateSerial(t)
          BY <4>1, <4>3 DEF AloneAt
        <5>2. /\ Len(commands') = Len(commands) + 1 /\ Len(commands) \in Nat
              /\ commands'[Len(commands) + 1] = Current(t)
              /\ \A i \in 1..Len(commands) : commands'[i] = commands[i]
          BY <2>1, <2>2, AppendProperties DEF TypeOK
        <5>3. \A i \in 1..Len(commands') : i \in 1..Len(commands) \/ i = Len(commands) + 1
          BY <5>2
        <5>4. LateSerial(t)'
          BY <4>1, <4>3, <5>1, <5>2, <5>3 DEF LateSerial, Current
        <5> QED  BY <4>1, <4>3, <5>4 DEF AloneAt
      <4> QED  BY <4>1, <4>2, <4>3
    <3> QED  BY <3>1, <3>2 DEF Inv
  <2> QED  BY <2>3, <2>4
<1> QED  BY <1>2, <1>3

\* A new handle starts empty, and the device has nothing to do for others.
LEMMA OpenInv ==
  ASSUME TypeOK, NEW t \in Sessions, \A u \in Sessions : Inv(u), Open(t)
  PROVE  TypeOK' /\ \A u \in Sessions : Inv(u)'
<1> DEFINE step == IF plugged THEN "probe" ELSE "err"
<1>1. /\ step \in Steps \cup {"ok", "err"} /\ <<>> \in Seq(Report) /\ Goto(t, step, <<>>)
      /\ UNCHANGED <<blocking, op, deviceVars, crossed>> /\ pc[t] = "new"
      /\ step \in {"probe", "err"}
  BY DEF Open, Steps
<1>2. /\ alone' \in [Sessions -> BOOLEAN] /\ \A u \in Sessions \ {t} : alone'[u] = alone[u]
      /\ alone'[t] = (commands = <<>>)
  BY DEF Open, TypeOK
<1>3. /\ TypeOK' /\ OthersKept(t) /\ UNCHANGED <<commands, done>>
      /\ pc'[t] = step /\ ~waiting'[t] /\ ~partial'[t]
      /\ step \in Steps => queue'[t] = <<>>
  <2>1. crossed' \in [Sessions -> BOOLEAN] /\ \A u \in Sessions \ {t} : crossed'[u] = crossed[u]
    BY <1>1 DEF TypeOK
  <2> HIDE DEF step
  <2> QED  BY <1>1, <1>2, <2>1, GotoIs
<1> HIDE DEF step
<1>4. Inv(t)'
  <2>0. ~crossed'[t]
    BY <1>1 DEF Inv, Path
  <2>1. Path(t)'
    BY <1>1, <1>3, <2>0 DEF Path
  <2>2. ASSUME alone'[t] PROVE AloneAt(t)'
    <3>1. CASE step = "probe"
      <4>1. Quiet(t)'
        BY <1>2, <1>3, <2>2, <3>1 DEF Quiet, Steps
      <4> QED  BY <1>3, <2>0, <3>1, <4>1 DEF AloneAt, OneAnswer
    <3>2. CASE step = "err"
      BY <1>3, <2>0, <3>2 DEF AloneAt, Steps
    <3> QED  BY <1>1, <3>1, <3>2
  <2> QED  BY <2>1, <2>2 DEF Inv
<1> QED  BY <1>3, <1>4, OthersInv

\* A timeout or a read that fails leaves the handle's reports where they are.
LEMMA TimeoutInv ==
  ASSUME TypeOK, NEW t \in Sessions, \A u \in Sessions : Inv(u), ReadFails(t) \/ Timeout(t)
  PROVE  TypeOK' /\ \A u \in Sessions : Inv(u)'
<1>1. Failed(t, queue[t]) /\ IsOpen(t) /\ UNCHANGED <<blocking, op, alone, deviceVars>>
  BY DEF ReadFails, Timeout, TypeOK
<1>2. queue[t] \in Seq(Report)
  BY DEF TypeOK
<1> QED  BY <1>1, <1>2, FailedInv

LEMMA GiveUpInv ==
  ASSUME TypeOK, NEW t \in Sessions, \A u \in Sessions : Inv(u), GiveUp(t)
  PROVE  TypeOK' /\ \A u \in Sessions : Inv(u)'
<1>1. /\ Goto(t, "err", <<>>) /\ pc[t] = "probe" /\ <<>> \in Seq(Report)
      /\ UNCHANGED <<blocking, op, crossed, alone, deviceVars>>
  BY DEF GiveUp
<1>2. /\ crossed' \in [Sessions -> BOOLEAN] /\ alone' \in [Sessions -> BOOLEAN]
      /\ \A u \in Sessions \ {t} : crossed'[u] = crossed[u] /\ alone'[u] = alone[u]
      /\ alone'[t] = alone[t] /\ crossed'[t] = crossed[t] /\ op' = op
  BY <1>1 DEF TypeOK
<1>3. /\ TypeOK' /\ OthersKept(t) /\ UNCHANGED <<commands, done>> /\ pc'[t] = "err"
  BY <1>1, <1>2, GotoIs
<1>4. Inv(t)'
  <2>1. alone[t] /\ op[t] # "info" => ~crossed[t]
    BY DEF Inv, AloneAt
  <2> QED  BY <1>2, <1>3, <2>1 DEF Inv, Path, AloneAt, Steps
<1> QED  BY <1>3, <1>4, OthersInv

-----------------------------------------------------------------------------
(* The device *)

\* What Execute appends to the queue of a session.
Copied(t, late, reports) ==
  CASE t \in late -> Tail(reports)
    [] IsOpen(t) /\ t \notin late -> reports
    [] OTHER -> <<>>

LEMMA ExecuteInv ==
  ASSUME TypeOK, \A u \in Sessions : Inv(u), Execute
  PROVE  TypeOK' /\ \A u \in Sessions : Inv(u)'
<1> DEFINE c == Head(commands)
<1>1. /\ c \in Command /\ c = commands[1] /\ Len(commands) \in Nat /\ Len(commands) >= 1
      /\ Tail(commands) \in Seq(Command) /\ Len(Tail(commands)) = Len(commands) - 1
      /\ \A i \in 1..Len(Tail(commands)) : Tail(commands)[i] = commands[i + 1]
  <2>1. commands \in Seq(Command) /\ commands # <<>>
    BY DEF Execute, TypeOK
  <2>2. Len(commands) \in Nat /\ Len(commands) # 0
    BY <2>1
  <2> QED  BY <2>1, <2>2, HeadTailProperties
<1> HIDE DEF c
<1>2. PICK status \in Statuses(c), late \in SUBSET {t \in Sessions : pc[t] = "probe" /\ ~waiting[t]} :
        LET reports == Reports([to |-> c, status |-> status])
        IN /\ queue' = [t \in Sessions |-> queue[t] \o Copied(t, late, reports)]
           /\ done' = IF c.step = "write_seed" /\ status = "ok" THEN done \cup {c.by} ELSE done
  BY DEF Execute, Copied, c
<1>3. /\ commands' = Tail(commands)
      /\ UNCHANGED <<blocking, op, pc, waiting, partial, crossed, alone, plugged>>
  BY DEF Execute
<1> DEFINE a == [to |-> c, status |-> status]
           reports == Reports(a)
<1>4. a \in Answer /\ a.to = c /\ a.status = status
  BY <1>1, StatusesAre DEF Answer
<1>5. /\ reports \in Seq(Report) /\ Tail(reports) \in Seq(Report) /\ <<>> \in Seq(Report)
      /\ \A i \in 1..Len(reports) : reports[i].answer = a
  BY <1>4, ReportsAre
<1> HIDE DEF a
<1>6. \A t \in Sessions : /\ Copied(t, late, reports) \in Seq(Report)
                          /\ queue'[t] = queue[t] \o Copied(t, late, reports)
  BY <1>2, <1>5 DEF Copied, a
<1>7. TypeOK'
  <2>1. queue' \in [Sessions -> Seq(Report)]
    <3>1. \A t \in Sessions : queue[t] \o Copied(t, late, reports) \in Seq(Report)
      BY <1>6, ConcatProperties DEF TypeOK
    <3> QED  BY <1>2, <3>1 DEF a
  <2>2. done' \subseteq Sessions
    BY <1>1, <1>2 DEF TypeOK, Command
  <2> QED  BY <1>1, <1>3, <2>1, <2>2 DEF TypeOK, IsOpen
<1>8. ASSUME NEW t \in Sessions, alone[t], op[t] # "info" PROVE AloneAt(t)'
  <2>1. AloneAt(t)
    BY <1>8 DEF Inv
  <2>2. CASE pc[t] \in Steps \ {"enum"}
    <3>1. /\ waiting[t] /\ queue[t] = <<>> /\ ~partial[t] /\ commands = <<Current(t)>>
      <4>1. commands # <<>> /\ OneAnswer(t)
        BY <1>1, <2>1, <2>2 DEF AloneAt
      <4>2. ~Quiet(t) /\ \A s : ~Arrived(t, s)
        BY <4>1 DEF Quiet, Arrived
      <4> QED  BY <4>1, <4>2 DEF OneAnswer
    <3>2. c = Current(t) /\ commands' = <<>> /\ t \notin late /\ IsOpen(t)
      BY <1>1, <1>2, <1>3, <2>2, <3>1 DEF IsOpen
    <3>3. queue'[t] = reports
      <4>1. Copied(t, late, reports) = reports
        BY <3>2 DEF Copied
      <4>2. queue'[t] = <<>> \o reports
        BY <1>6, <3>1, <4>1
      <4> QED  BY <1>5, <4>2, ConcatEmptySeq
    <3>4. Current(t)' = Current(t) /\ Statuses(Current(t))' = Statuses(Current(t))
      BY <1>3 DEF Current, Statuses
    <3>5. pc[t] = "write_seed" /\ status = "ok" => t \in done'
      BY <1>2, <3>2 DEF Current
    <3>6. Arrived(t, status)'
      BY <1>3, <3>1, <3>2, <3>3, <3>4, <3>5 DEF Arrived, a
    <3>7. OneAnswer(t)'
      BY <1>2, <1>3, <3>1, <3>2, <3>4, <3>6 DEF OneAnswer
    <3> QED  BY <1>3, <2>1, <2>2, <3>7 DEF AloneAt, Steps
  <2>3. CASE pc[t] = "enum"
    <3>1. LateSerial(t)
      BY <2>1, <2>3 DEF AloneAt
    <3>2. c.by = t /\ c.step \in {"serial", "enum"}
      BY <1>1, <3>1 DEF LateSerial
    <3>3. c.step = "serial" => status # "not_found"
      BY <1>2, StatusesAre
    <3>4. t \notin late /\ Copied(t, late, reports) = reports
      BY <1>2, <2>3 DEF Copied, IsOpen, Steps
    <3>5. \A i \in 1..Len(queue'[t]) :
            LET b == queue'[t][i].answer
            IN /\ b.to.by = t /\ b.to.step \in {"serial", "enum"}
               /\ b.to.step = "serial" => b.status # "not_found"
      <4>1. queue[t] \in Seq(Report) /\ queue'[t] = queue[t] \o reports
        BY <1>6, <3>4 DEF TypeOK
      <4>2. /\ Len(queue[t]) \in Nat /\ Len(reports) \in Nat
            /\ Len(queue'[t]) = Len(queue[t]) + Len(reports)
            /\ \A i \in 1..Len(queue'[t]) :
                 queue'[t][i] = IF i <= Len(queue[t]) THEN queue[t][i]
                                ELSE reports[i - Len(queue[t])]
        BY <1>5, <4>1, ConcatProperties
      <4> SUFFICES ASSUME NEW i \in 1..Len(queue'[t])
                   PROVE  LET b == queue'[t][i].answer
                          IN /\ b.to.by = t /\ b.to.step \in {"serial", "enum"}
                             /\ b.to.step = "serial" => b.status # "not_found"
        OBVIOUS
      <4>3. CASE i \in 1..Len(queue[t])
        BY <3>1, <4>2, <4>3 DEF LateSerial
      <4>4. CASE i \notin 1..Len(queue[t])
        <5>1. i - Len(queue[t]) \in 1..Len(reports) /\ queue'[t][i] = reports[i - Len(queue[t])]
          BY <4>2, <4>4
        <5>2. queue'[t][i].answer = a
          BY <1>5, <5>1
        <5> QED  BY <1>4, <3>2, <3>3, <5>2
      <4> QED  BY <4>3, <4>4
    <3>6. \A i \in 1..Len(commands') :
            commands'[i].by = t /\ commands'[i].step \in {"serial", "enum"}
      BY <1>1, <1>3, <3>1 DEF LateSerial
    <3>7. LateSerial(t)'
      BY <3>5, <3>6 DEF LateSerial
    <3> QED  BY <1>3, <2>1, <2>3, <3>7 DEF AloneAt
  <2>4. CASE pc[t] \notin Steps
    <3>1. t \in done => t \in done'
      BY <1>2
    <3> QED  BY <1>3, <2>1, <2>4, <3>1 DEF AloneAt, Steps
  <2> QED  BY <2>2, <2>3, <2>4
<1>9. \A t \in Sessions : Inv(t)'
  BY <1>3, <1>8 DEF Inv, Path
<1> QED  BY <1>7, <1>9

\* What was written and not executed is gone; what was answered stays.
LEMMA UnplugInv ==
  ASSUME TypeOK, \A u \in Sessions : Inv(u), Unplug
  PROVE  TypeOK' /\ \A u \in Sessions : Inv(u)'
<1>1. /\ commands' = <<>> /\ plugged' = FALSE /\ done' = done
      /\ UNCHANGED <<blocking, op, pc, waiting, partial, queue, alone, crossed>>
  BY DEF Unplug, sessionVars
<1>2. TypeOK'
  <2>1. commands' \in Seq(Command)
    BY <1>1
  <2> QED  BY <1>1, <2>1 DEF TypeOK, IsOpen
<1>3. ASSUME NEW t \in Sessions, AloneAt(t) PROVE AloneAt(t)'
  <2>1. Current(t)' = Current(t) /\ Statuses(Current(t))' = Statuses(Current(t))
    BY <1>1 DEF Current, Statuses
  <2>2. ASSUME OneAnswer(t) PROVE OneAnswer(t)'
    <3>1. ASSUME NEW status, Arrived(t, status) PROVE Arrived(t, status)'
      BY <1>1, <2>1, <3>1 DEF Arrived
    <3> QED  BY <1>1, <2>1, <2>2, <3>1 DEF OneAnswer, Quiet
  <2>3. LateSerial(t) => LateSerial(t)'
    BY <1>1 DEF LateSerial
  <2> QED  BY <1>1, <1>3, <2>2, <2>3 DEF AloneAt
<1> QED  BY <1>1, <1>2, <1>3 DEF Inv, Path

-----------------------------------------------------------------------------
(* Every state *)

LEMMA InitInv == ASSUME Init PROVE AInv
<1>1. TypeOK
  BY DEF Init, TypeOK, IsOpen, Steps
<1>2. \A t \in Sessions : Inv(t)
  BY DEF Init, Inv, Path, AloneAt
<1> QED  BY <1>1, <1>2 DEF AInv

LEMMA NextInv == ASSUME AInv, [Next]_vars PROVE AInv'
<1>1. TypeOK /\ \A t \in Sessions : Inv(t)
  BY DEF AInv
<1>2. ASSUME NEW t \in Sessions, Open(t) PROVE AInv'
  BY <1>1, <1>2, OpenInv DEF AInv
<1>3. ASSUME NEW t \in Sessions, Send(t) PROVE AInv'
  BY <1>1, <1>3, SendInv DEF AInv
<1>4. ASSUME NEW t \in Sessions, Read(t) PROVE AInv'
  BY <1>1, <1>4, ReadInv DEF AInv
<1>5. ASSUME NEW t \in Sessions, ReadFails(t) \/ Timeout(t) PROVE AInv'
  BY <1>1, <1>5, TimeoutInv DEF AInv
<1>6. ASSUME NEW t \in Sessions, GiveUp(t) PROVE AInv'
  BY <1>1, <1>6, GiveUpInv DEF AInv
<1>7. CASE Execute
  BY <1>1, <1>7, ExecuteInv DEF AInv
<1>8. CASE Unplug
  BY <1>1, <1>8, UnplugInv DEF AInv
<1>9. CASE UNCHANGED vars
  <2>1. /\ UNCHANGED <<blocking, op, pc, waiting, partial, queue, alone, crossed>>
        /\ UNCHANGED <<plugged, commands, done>>
    BY <1>9 DEF vars, sessionVars, deviceVars
  <2>2. TypeOK'
    BY <1>1, <2>1 DEF TypeOK, IsOpen
  <2>3. ASSUME NEW t \in Sessions PROVE Inv(t)'
    BY <1>1, <2>1 DEF Inv, Path, AloneAt, OneAnswer, Quiet, Arrived, LateSerial, Current, Statuses
  <2> QED  BY <2>2, <2>3 DEF AInv
<1> QED  BY <1>2, <1>3, <1>4, <1>5, <1>6, <1>7, <1>8, <1>9 DEF Next, Done

\* The inductive invariant holds in every state the sessions reach.
THEOREM IndInv == Spec => []AInv
<1>1. Init => AInv
  BY InitInv
<1>2. AInv /\ [Next]_vars => AInv'
  BY NextInv
<1> QED  BY <1>1, <1>2, PTL DEF Spec

\* Sessions and the device are in states the code and the device can be in; only
\* an open session waits for an answer.
THEOREM TypeCorrect == Spec => []TypeOK
<1>1. AInv => TypeOK
  BY DEF AInv
<1> QED  BY <1>1, IndInv, PTL

\* However many sessions there are, one that has the device for itself reports
\* only what the device did for it, though reports do not name their commands.
THEOREM ReportsItsOwn == Spec => []AloneReportsItsOwn
<1>1. AInv => AloneReportsItsOwn
  BY DEF AInv, Inv, AloneAt, AloneReportsItsOwn
<1> QED  BY <1>1, IndInv, PTL

=============================================================================
