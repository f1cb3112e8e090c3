----------------------------- MODULE HidSession -----------------------------
(***************************************************************************)
(* Sessions over USB-HID (src/src/transport.rs): the commands an operation  *)
(* sends once HidTransport is open, and what it takes for their answers.    *)
(* HidTransmit models one transmit report by report; here a command is one  *)
(* step, an answer is one or two reports, and what matters is whose answer  *)
(* a session reads.                                                         *)
(*                                                                          *)
(* Nothing in a report names the command it answers, or the session that    *)
(* sent it.  The kernel (external) copies each report to every open handle, *)
(* and a handle starts with an empty queue.  The device (external) executes *)
(* commands in the order they were written, whenever it likes: the answer   *)
(* to a command whose transmit timed out still comes.                       *)
(*                                                                          *)
(* Every job of the window, the hotkey and the command line open a handle   *)
(* of their own, so two sessions may be open at once.                       *)
(***************************************************************************)
EXTENDS Naturals, Sequences

CONSTANTS Sessions,  \* one operation each
          Ops        \* subset of AllOps

Writes == {"write", "delete", "erase"}
AllOps == Writes \cup {"load", "info", "read"}

ASSUME HidSessionAssumption == Ops \subseteq AllOps

\* An enumeration has one page here; PcscSession has them all.
Steps == {"probe", "serial", "enum", "config", "read_one", "pubkey", "write_seed"}

VARIABLES
  blocking,  \* TRUE: hidraw, a read blocks; FALSE: hidapi, 250 ms
  \* sessions
  op,
  pc,        \* "new", the command a session is at, "ok" or "err"
  waiting,   \* its command is written, transmit reads reports
  partial,   \* the assembler holds the first of two reports
  queue,     \* the reports waiting at its handle
  alone,     \* when it opened, the device had nothing to do, and no other
             \* session has sent a command since (history)
  crossed,   \* while alone, it took the answer to another command (history)
  \* the device
  plugged,
  commands,  \* written, not executed
  done       \* sessions whose WRITE_SEED was executed and succeeded

sessionVars == <<op, pc, waiting, partial, queue, alone, crossed>>
deviceVars  == <<plugged, commands, done>>
vars        == <<blocking, sessionVars, deviceVars>>

Command == [by : Sessions, step : Steps]
Answer  == [to : Command, status : {"ok", "not_found", "error"}]
Report  == [answer : Answer, part : {"only", "first", "second"}]

IsOpen(t) == pc[t] \in Steps

Init ==
  /\ blocking \in BOOLEAN /\ plugged = TRUE
  /\ op \in [Sessions -> Ops]
  /\ pc = [t \in Sessions |-> "new"]
  /\ waiting = [t \in Sessions |-> FALSE] /\ partial = [t \in Sessions |-> FALSE]
  /\ queue = [t \in Sessions |-> <<>>]
  /\ alone = [t \in Sessions |-> FALSE] /\ crossed = [t \in Sessions |-> FALSE]
  /\ commands = <<>> /\ done = {}

-----------------------------------------------------------------------------
(* The control of a session *)

\* What follows the command a session is at.
Following(t) ==
  CASE pc[t] = "probe"  -> (CASE op[t] \in {"load", "info"}    -> "serial"
                              [] op[t] = "read"                -> "read_one"
                              [] op[t] \in {"write", "delete"} -> "pubkey"
                              [] op[t] = "erase"               -> "write_seed")
    [] pc[t] = "serial" -> (IF op[t] = "info" THEN "config" ELSE "enum")
    [] pc[t] = "pubkey" -> "write_seed"
    [] OTHER            -> "ok"

\* Mutant: the session is still taken to be reading.
GotoStillWaiting(t, step, reports) ==
  /\ pc' = [pc EXCEPT ![t] = step]
  /\ partial' = [partial EXCEPT ![t] = FALSE]
  /\ queue' = [queue EXCEPT ![t] = IF step \in Steps THEN reports ELSE <<>>]
  /\ UNCHANGED waiting

\* The session goes to another command, with `reports` left at its handle, or
\* returns, and its handle is closed.
Goto(t, step, reports) ==
  /\ pc' = [pc EXCEPT ![t] = step]
  /\ waiting' = [waiting EXCEPT ![t] = FALSE]
  /\ partial' = [partial EXCEPT ![t] = FALSE]
  /\ queue' = [queue EXCEPT ![t] = IF step \in Steps THEN reports ELSE <<>>]

\* Mutant: a session whose probe failed is used all the same.
ToleratesUnprobed(t) == pc[t] \in {"serial", "config", "probe"}

\* The callers of read_serial go on without a serial number, and cmd_info
\* without the device's configuration.
Tolerates(t) == pc[t] \in {"serial", "config"}

\* transmit, or the parser of the answer, returned an error.
Failed(t, reports) ==
  /\ Goto(t, IF Tolerates(t) THEN Following(t) ELSE "err", reports)
  /\ UNCHANGED crossed

\* What the caller of each command accepts.  probe_hid and the writers look at
\* the status word only, enumerate takes "not found" for an empty key, and
\* names are not compared with those asked for: a page may be read as a single
\* entry, and a single entry as a page.  parse_serial and seal know their own
\* answers.
Accepts(t, a) ==
  LET from(steps) == a.status = "ok" /\ a.to.step \in steps
  IN CASE pc[t] \in {"probe", "write_seed"} -> a.status = "ok"
       [] pc[t] = "serial"   -> from({"serial"})
       [] pc[t] = "enum"     -> a.status = "not_found" \/ from({"enum", "read_one"})
       [] pc[t] = "read_one" -> from({"read_one", "enum"})
       [] pc[t] = "pubkey"   -> from({"probe", "pubkey"})
       [] pc[t] = "config"   -> from(Steps \ {"write_seed"})

\* A page is not always one entry, nor is an entry always a page (with the touch
\* flag, or of a HOTP entry, parse_enum_page refuses its bytes).
MayRefuse(t, a) == a.status = "ok" /\ {pc[t], a.to.step} = {"read_one", "enum"}

Answered(t, a, reports) ==
  \/ /\ Accepts(t, a)
     /\ Goto(t, Following(t), reports)
     /\ crossed' = [crossed EXCEPT ![t] = @ \/ (alone[t] /\ a.to # [by |-> t, step |-> pc[t]])]
  \/ /\ Accepts(t, a) => MayRefuse(t, a)
     /\ Failed(t, reports)

-----------------------------------------------------------------------------
(* The steps of a session *)

\* HidTransport::open_first and open_path: a new handle.
Open(t) ==
  /\ pc[t] = "new"
  /\ Goto(t, IF plugged THEN "probe" ELSE "err", <<>>)
  /\ alone' = [alone EXCEPT ![t] = commands = <<>>]
  /\ UNCHANGED <<blocking, op, crossed, deviceVars>>

\* transmit writes the command.
Send(t) ==
  /\ IsOpen(t) /\ ~waiting[t]
  /\ IF plugged
     THEN /\ commands' = Append(commands, [by |-> t, step |-> pc[t]])
          /\ waiting' = [waiting EXCEPT ![t] = TRUE]
          /\ alone'   = [u \in Sessions |-> alone[u] /\ u = t]
          /\ crossed' = [u \in Sessions |-> crossed[u] /\ u = t]
          /\ UNCHANGED <<pc, partial, queue>>
     ELSE Failed(t, queue[t]) /\ UNCHANGED <<commands, alone>>
  /\ UNCHANGED <<blocking, op, plugged, done>>

\* transmit offers the next report to its assembler, which refuses one that is
\* out of sequence.
Read(t) ==
  /\ waiting[t] /\ queue[t] # <<>>
  /\ LET r    == Head(queue[t])
         rest == Tail(queue[t])
         inSequence == (r.part = "second") = partial[t]
     IN \/ ~inSequence /\ Failed(t, rest)
        \/ inSequence /\ r.part # "first" /\ Answered(t, r.answer, rest)
        \/ /\ inSequence /\ r.part = "first"
           /\ partial' = [partial EXCEPT ![t] = TRUE]
           /\ queue' = [queue EXCEPT ![t] = rest]
           /\ UNCHANGED <<pc, waiting, crossed>>
  /\ UNCHANGED <<blocking, op, alone, deviceVars>>

ReadFails(t) ==
  /\ waiting[t] /\ ~plugged
  /\ Failed(t, queue[t])
  /\ UNCHANGED <<blocking, op, alone, deviceVars>>

\* Mutant: the deadline is looked at only after a report of an answer.
WakesForReports(t) == partial[t]

\* The loop of transmit comes to look at the deadline: on hidapi every 250 ms,
\* on hidraw when a report has come, of an answer or "busy" with a command.
Wakes(t) == ~blocking \/ commands # <<>> \/ partial[t]

Timeout(t) ==
  /\ waiting[t] /\ Wakes(t)
  /\ Failed(t, queue[t])
  /\ UNCHANGED <<blocking, op, alone, deviceVars>>

\* Mutant: the probe runs in the caller's thread.
NeverGiveUp(t) == FALSE /\ UNCHANGED vars

\* probe_hid_owned on hidraw: the probe runs in a thread of its own, and after
\* 3.5 s its caller goes on without it.  (The thread is left with the handle; it
\* sends nothing more, and what it reads is dropped.)
GiveUp(t) ==
  /\ blocking /\ waiting[t] /\ pc[t] = "probe"
  /\ Goto(t, "err", <<>>)
  /\ UNCHANGED <<blocking, op, crossed, alone, deviceVars>>

-----------------------------------------------------------------------------
(* The device (external) *)

\* What does not fit in one report: a public key, a page.
Reports(a) ==
  IF a.status = "ok" /\ a.to.step \in {"probe", "pubkey", "enum"}
  THEN <<[answer |-> a, part |-> "first"], [answer |-> a, part |-> "second"]>>
  ELSE <<[answer |-> a, part |-> "only"]>>

Statuses(c) ==
  CASE c.step \in {"enum", "read_one"} -> {"ok", "not_found", "error"}
    [] c.step = "write_seed" /\ op[c.by] = "delete" -> {"ok", "not_found", "error"}
    [] OTHER -> {"ok", "error"}

\* The first command is executed and answered.  A handle that was opened while
\* the answer was on its way has missed its first report.
Execute ==
  /\ plugged /\ commands # <<>>
  /\ \E status \in Statuses(Head(commands)),
        late \in SUBSET {t \in Sessions : pc[t] = "probe" /\ ~waiting[t]} :
       LET c       == Head(commands)
           reports == Reports([to |-> c, status |-> status])
       IN /\ queue' = [t \in Sessions |-> queue[t] \o CASE t \in late -> Tail(reports)
                                                      [] IsOpen(t) /\ t \notin late -> reports
                                                      [] OTHER -> <<>>]
          /\ done' = IF c.step = "write_seed" /\ status = "ok" THEN done \cup {c.by} ELSE done
  /\ commands' = Tail(commands)
  /\ UNCHANGED <<blocking, op, pc, waiting, partial, crossed, alone, plugged>>

Unplug ==
  /\ plugged /\ plugged' = FALSE
  /\ commands' = <<>>
  /\ UNCHANGED <<blocking, sessionVars, done>>

Done == (\A t \in Sessions : pc[t] \in {"ok", "err"}) /\ UNCHANGED vars

Next ==
  \/ \E t \in Sessions : Open(t) \/ Send(t) \/ Read(t) \/ ReadFails(t) \/ Timeout(t) \/ GiveUp(t)
  \/ Execute \/ Unplug \/ Done

\* Threads run and time passes; nothing is assumed of the device, so on hidraw
\* the deadline may never be looked at.
Fairness ==
  \A t \in Sessions :
    WF_vars(Open(t)) /\ WF_vars(Send(t)) /\ WF_vars(Read(t)) /\ WF_vars(GiveUp(t))
    /\ WF_vars(~blocking /\ Timeout(t)) /\ WF_vars(ReadFails(t))

Spec == Init /\ [][Next]_vars /\ Fairness

-----------------------------------------------------------------------------
(* Properties *)

\* Sessions and the device are in states the code and the device can be in.
TypeOK ==
  /\ blocking \in BOOLEAN /\ plugged \in BOOLEAN
  /\ op \in [Sessions -> Ops] /\ pc \in [Sessions -> Steps \cup {"new", "ok", "err"}]
  /\ waiting \in [Sessions -> BOOLEAN] /\ partial \in [Sessions -> BOOLEAN]
  /\ queue \in [Sessions -> Seq(Report)]
  /\ alone \in [Sessions -> BOOLEAN] /\ crossed \in [Sessions -> BOOLEAN]
  /\ commands \in Seq(Command)
  /\ done \subseteq Sessions
  /\ \A t \in Sessions : waiting[t] => IsOpen(t)

\* A session that has the device for itself reports only what the device did for
\* it, although reports do not say what they answer: what it returns is made of
\* the answers to its own commands, and a write it reports is on the key.  This
\* holds after a timeout of its own too (the late answer to READ_SERIAL stays in
\* its queue), but not of `info`, whose DeviceInfo::parse takes that answer.
AloneReportsItsOwn ==
  \A t \in Sessions : alone[t] /\ pc[t] = "ok" /\ op[t] # "info" =>
    ~crossed[t] /\ (op[t] \in Writes => t \in done)

\* The doc of erase_all: "Requires a confirming button press over HID".  The
\* device executes an erase when its button is pressed.
EraseIsConfirmed == \A t \in Sessions : pc[t] = "ok" /\ op[t] = "erase" => t \in done

\* The doc of probe_hid_owned: "a probe that hangs on a blocking read cannot
\* stall the caller".  Whatever the device does, a session is opened or not.
OpenReturns == \A t \in Sessions : <>(pc[t] \notin {"new", "probe"})

\* Over hidapi every operation returns, whatever the device and the other
\* sessions do, and whoever's answers it reads.
SessionReturns == ~blocking => \A t \in Sessions : <>(pc[t] \in {"ok", "err"})

=============================================================================
