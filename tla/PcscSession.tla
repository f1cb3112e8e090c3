---------------------------- MODULE PcscSession -----------------------------
(***************************************************************************)
(* Sessions over PC/SC (src/src/transport.rs): how a session finds a key in *)
(* the readers, and the commands each operation sends, one exchange with a  *)
(* card per step.  Every job of the window, the hotkey and the command line *)
(* opens a session of its own with ShareMode::Shared and no transaction, so *)
(* the exchanges of two sessions interleave on a card that has one selected *)
(* applet and one enumeration cursor (ENUM_CODES_CONTINUE carries only a    *)
(* timestamp).                                                              *)
(*                                                                          *)
(* The cards are external.  A reader is empty, or holds a card that refuses *)
(* the OTP applet ("other"), a Token2 key ("token2"), or a Token2 key that  *)
(* does not answer READ_SERIAL ("mute").  SELECT resets the cursor.         *)
(***************************************************************************)
EXTENDS Naturals, Sequences, SequencesExt, FiniteSets

CONSTANTS
  Sessions,     \* concurrent sessions, one operation each
  NReaders,     \* readers, tried in order
  Kinds,        \* what a reader may hold
  Profiles,
  Ifaces,       \* subset of {"Auto", "Nfc", "Named"}
  Ops,          \* subset of AllOps
  PageSize,     \* entries in one page of an enumeration
  Capacity,     \* entries a key can store
  MaxFaults,    \* bound: exchanges that fail although the card is there
  DropResets    \* whether dropping the connection resets the card

AllOps == {"load", "list", "info", "read", "write", "delete", "erase", "readers"}
Readers == 1..NReaders

ASSUME PcscAssumption ==
  /\ NReaders \in Nat \ {0} /\ PageSize \in Nat \ {0}
  /\ Capacity \in Nat /\ MaxFaults \in Nat /\ DropResets \in BOOLEAN
  /\ Kinds \subseteq {"empty", "other", "token2", "mute"}
  /\ Ifaces \subseteq {"Auto", "Nfc", "Named"} /\ Ops \subseteq AllOps

VARIABLES
  \* sessions
  pc,       \* the exchange a session does next; "off" if it is not there
  reader,   \* the reader it is connected to
  serial,   \* the serial number it holds: that of a reader's card, or 0
  op, arg, iface,
  list,     \* the entries enumerated so far
  found,    \* the readers discover() says hold a key
  broken,   \* its connection was reset by another session
  \* cards
  kind, applet, cursor, entries,
  faults

sessionVars == <<pc, reader, serial, op, arg, iface, list, found, broken>>
cardVars    == <<kind, applet, cursor, entries>>
vars        == <<sessionVars, cardVars, faults>>

ProbeSteps  == {"probe_otp", "probe_fido", "probe_serial", "probe_again"}
SerialSteps == {"serial_fido", "serial_read", "serial_restore"}
\* The steps that send a command only the OTP applet understands.
OtpSteps    == {"enum", "continue", "config", "read_one", "pubkey", "write_seed", "erase_seed"}
Steps       == ProbeSteps \cup {"legacy_otp"} \cup SerialSteps \cup OtpSteps \cup {"off", "ok", "err"}

Stored == {s \in SeqOf(Profiles, Capacity) : IsInjective(s)}
HasOtp(r) == kind[r] \in {"token2", "mute"}

Init ==
  /\ op \in [Sessions -> Ops] /\ arg \in [Sessions -> Profiles]
  /\ iface \in [Sessions -> Ifaces]
  /\ \A t \in Sessions : op[t] = "readers" => iface[t] # "Named"
  /\ pc \in [Sessions -> {"off", "probe_otp"}]
  /\ \E named \in Readers : reader = [t \in Sessions |-> IF iface[t] = "Named" THEN named ELSE 1]
  /\ serial = [t \in Sessions |-> 0] /\ list = [t \in Sessions |-> <<>>]
  /\ found = [t \in Sessions |-> {}]
  /\ broken = [t \in Sessions |-> FALSE]
  /\ kind \in [Readers -> Kinds]
  /\ applet \in [Readers -> {"none", "FIDO"}]  \* whatever was used last
  /\ cursor = [r \in Readers |-> 0]
  /\ entries \in [Readers -> Stored]
  /\ faults = 0

-----------------------------------------------------------------------------
(* The card *)

Select(r, a) ==
  /\ applet' = [applet EXCEPT ![r] = a]
  /\ cursor' = [cursor EXCEPT ![r] = 0]
  /\ UNCHANGED <<kind, entries>>

\* The cursor counts the entries already sent; a page follows it.
PageEnd(r, from) == IF from + PageSize < Len(entries[r]) THEN from + PageSize
                                                         ELSE Len(entries[r])
Page(r, from) == SubSeq(entries[r], from + 1, PageEnd(r, from))
MorePages(r, from) == PageEnd(r, from) < Len(entries[r])

\* WRITE_SEED: what a sealed write, a sealed delete and the bodyless erase do.
Refused(t) ==
  \/ op[t] = "write" /\ ~Contains(entries[reader[t]], arg[t])
       /\ Len(entries[reader[t]]) >= Capacity
  \/ op[t] = "delete" /\ ~Contains(entries[reader[t]], arg[t])

Without(stored, p) == RemoveAt(stored, CHOOSE i \in DOMAIN stored : stored[i] = p)

WriteSeed(t, stored) ==
  CASE op[t] = "write"  -> IF Contains(stored, arg[t]) THEN stored ELSE Append(stored, arg[t])
    [] op[t] = "delete" -> Without(stored, arg[t])
    [] op[t] = "erase"  -> <<>>

-----------------------------------------------------------------------------
(* The control of a session *)

Goto(t, step) == pc' = [pc EXCEPT ![t] = step]

AtStep(t, step) == pc[t] = step /\ ~broken[t]

\* What is left alone by a step that moves within one reader.
Keep == UNCHANGED <<reader, op, arg, iface, found, broken>>

AfterSerial(t) == IF op[t] = "info" THEN "config" ELSE "enum"

\* The operation's first command on a session that has, or lacks, a serial.
FirstStep(t, known) ==
  CASE op[t] \in {"load", "info"}    -> IF known THEN AfterSerial(t) ELSE "serial_fido"
    [] op[t] = "list"                -> "enum"
    [] op[t] = "read"                -> "read_one"
    [] op[t] \in {"write", "delete"} -> "pubkey"
    [] op[t] = "erase"               -> "erase_seed"

\* open_named looks at one reader; a scan goes on to the next one.  After the
\* last, detect() starts the legacy scan, detect_pcsc_token2 gives up, and
\* discover() is done.
LastReader(t) == iface[t] = "Named" \/ reader[t] = NReaders
\* Mutants: no legacy scan; a legacy scan over Nfc too.
LegacyNever(t) == FALSE
LegacyOverNfc(t) == LastReader(t) /\ op[t] # "readers" /\ pc[t] # "legacy_otp"
LegacyFollows(t) == /\ LastReader(t) /\ iface[t] = "Auto" /\ op[t] # "readers"
                    /\ pc[t] # "legacy_otp"

\* The connection to this reader is closed, and its card is left as it is.
NextReader(t) ==
  /\ \/ /\ ~LastReader(t)
        /\ reader' = [reader EXCEPT ![t] = @ + 1]
        /\ Goto(t, IF pc[t] = "legacy_otp" THEN "legacy_otp" ELSE "probe_otp")
     \/ /\ LegacyFollows(t)
        /\ reader' = [reader EXCEPT ![t] = 1]
        /\ Goto(t, "legacy_otp")
     \/ /\ LastReader(t) /\ ~LegacyFollows(t)
        /\ Goto(t, IF op[t] = "readers" THEN "ok" ELSE "err") /\ UNCHANGED reader
  /\ broken' = [broken EXCEPT ![t] = FALSE]
  /\ serial' = [serial EXCEPT ![t] = 0]
  /\ UNCHANGED <<op, arg, iface, list>>

\* This reader does not hold the key.
TryNext(t) == NextReader(t) /\ UNCHANGED <<found, cardVars>>

\* The sessions connected to the card in reader r.
Sharing(t, r) == {u \in Sessions \ {t} : reader[u] = r /\ pc[u] \notin {"off", "probe_otp", "legacy_otp", "ok", "err"}}
\* The job returns and its Card is dropped.
Drop(t) ==
  IF DropResets
  THEN /\ applet' = [applet EXCEPT ![reader[t]] = "none"]
       /\ cursor' = [cursor EXCEPT ![reader[t]] = 0]
       /\ broken' = [u \in Sessions |-> broken[u] \/ u \in Sharing(t, reader[t])]
  ELSE UNCHANGED <<applet, cursor, broken>>

Return(t, step) == Goto(t, step) /\ Drop(t) /\ UNCHANGED <<reader, op, arg, iface, serial, found, kind>>

\* The callers return the error; cmd_info says that there is no device info.
ReturnErr(t) == Return(t, IF pc[t] = "config" THEN "ok" ELSE "err")

-----------------------------------------------------------------------------
(* PcScTransport::probe, in open_first_token2, open_named and discover *)

\* Mutant: a card its last user left on the FIDO applet is passed over.
ProbeOtpUnused(t) ==
  /\ AtStep(t, "probe_otp")
  /\ IF HasOtp(reader[t]) /\ applet[reader[t]] # "FIDO"
     THEN Select(reader[t], "OTP") /\ Goto(t, "probe_fido") /\ Keep /\ UNCHANGED <<serial, list>>
     ELSE TryNext(t)

ProbeOtp(t) ==
  /\ AtStep(t, "probe_otp")
  /\ IF HasOtp(reader[t])
     THEN Select(reader[t], "OTP") /\ Goto(t, "probe_fido") /\ Keep /\ UNCHANGED <<serial, list>>
     ELSE TryNext(t)

ProbeFido(t) ==
  /\ AtStep(t, "probe_fido")
  /\ Select(reader[t], "FIDO") /\ Goto(t, "probe_serial") /\ Keep /\ UNCHANGED <<serial, list>>

AnswersSerial(r) == kind[r] = "token2" /\ applet[r] = "FIDO"

\* Mutant: the reader is accepted when its card does not give a serial number.
ProbeSerialUnchecked(t) ==
  /\ AtStep(t, "probe_serial")
  /\ serial' = [serial EXCEPT ![t] = IF AnswersSerial(reader[t]) THEN reader[t] ELSE 0]
  /\ Goto(t, "probe_again") /\ Keep /\ UNCHANGED <<list, cardVars>>

ProbeSerial(t) ==
  /\ AtStep(t, "probe_serial")
  /\ IF AnswersSerial(reader[t])
     THEN /\ serial' = [serial EXCEPT ![t] = reader[t]]
          /\ Goto(t, "probe_again") /\ Keep /\ UNCHANGED <<list, cardVars>>
     ELSE TryNext(t)

\* Mutant: the OTP applet is not selected again.
ProbeEnds(t) ==
  /\ AtStep(t, "probe_again") /\ op[t] # "readers"
  /\ Goto(t, FirstStep(t, TRUE)) /\ Keep /\ UNCHANGED <<serial, list, cardVars>>

\* The probe succeeds: the session is open, or discover() disconnects and goes on.
ProbeAgain(t) ==
  /\ AtStep(t, "probe_again")
  /\ Select(reader[t], "OTP")
  /\ IF op[t] = "readers"
     THEN found' = [found EXCEPT ![t] = @ \cup {reader[t]}] /\ NextReader(t)
     ELSE Goto(t, FirstStep(t, TRUE)) /\ Keep /\ UNCHANGED <<serial, list>>

\* PcScTransport::open_first
LegacyOtp(t) ==
  /\ AtStep(t, "legacy_otp")
  /\ IF HasOtp(reader[t])
     THEN /\ Select(reader[t], "OTP")
          /\ serial' = [serial EXCEPT ![t] = 0]
          /\ Goto(t, FirstStep(t, FALSE)) /\ Keep /\ UNCHANGED list
     ELSE TryNext(t)

Open(t) == ProbeOtp(t) \/ ProbeFido(t) \/ ProbeSerial(t) \/ ProbeAgain(t) \/ LegacyOtp(t)

-----------------------------------------------------------------------------
(* OtpSession::read_serial, and the caller's .ok() *)

SerialFido(t) ==
  /\ AtStep(t, "serial_fido")
  /\ Select(reader[t], "FIDO") /\ Goto(t, "serial_read") /\ Keep /\ UNCHANGED <<serial, list>>

SerialRead(t) ==
  /\ AtStep(t, "serial_read")
  /\ IF AnswersSerial(reader[t])
     THEN serial' = [serial EXCEPT ![t] = reader[t]] /\ Goto(t, "serial_restore")
     ELSE serial' = serial /\ Goto(t, AfterSerial(t))
  /\ Keep /\ UNCHANGED <<list, cardVars>>

SerialRestore(t) ==
  /\ AtStep(t, "serial_restore")
  /\ Select(reader[t], "OTP") /\ Goto(t, AfterSerial(t)) /\ Keep /\ UNCHANGED <<serial, list>>

ReadSerial(t) == SerialFido(t) \/ SerialRead(t) \/ SerialRestore(t)

-----------------------------------------------------------------------------
(* The operations.  Another applet answers an OTP command with an error. *)

OtpCommand(t, step) == AtStep(t, step) /\ applet[reader[t]] = "OTP"

WrongApplet(t) ==
  /\ pc[t] \in OtpSteps /\ ~broken[t] /\ applet[reader[t]] # "OTP"
  /\ ReturnErr(t) /\ UNCHANGED <<list, entries>>

\* The cursor moves on, unless the session's end resets the card.
Serve(t, from) ==
  LET r == reader[t]
  IN /\ list' = [list EXCEPT ![t] = @ \o Page(r, from)]
     /\ IF MorePages(r, from)
        THEN /\ Goto(t, "continue") /\ Keep
             /\ cursor' = [cursor EXCEPT ![r] = PageEnd(r, from)]
             /\ UNCHANGED <<serial, kind, applet, entries>>
        ELSE Return(t, "ok") /\ UNCHANGED entries

\* ENUM_CODES: EntryNotFound on the first page is an empty key.
Enumerate(t) == OtpCommand(t, "enum") /\ Serve(t, 0)

\* Mutant: an error on a later page ends the list, as it does on the first.
EnumContinueEnds(t) ==
  /\ OtpCommand(t, "continue")
  /\ LET c == cursor[reader[t]]
     IN IF c \in 1..Len(entries[reader[t]]) - 1
        THEN Serve(t, c)
        ELSE Return(t, "ok") /\ UNCHANGED <<list, entries>>

\* ENUM_CODES_CONTINUE; a card with nothing to continue answers with an error,
\* or with an empty page, which parse_enum_page refuses.
EnumContinue(t) ==
  /\ OtpCommand(t, "continue")
  /\ LET c == cursor[reader[t]]
     IN IF c \in 1..Len(entries[reader[t]]) - 1
        THEN Serve(t, c)
        ELSE Return(t, "err") /\ UNCHANGED <<list, entries>>

ReadConfig(t) == OtpCommand(t, "config") /\ Return(t, "ok") /\ UNCHANGED <<list, entries>>

ReadEntry(t) ==
  /\ OtpCommand(t, "read_one")
  /\ IF Contains(entries[reader[t]], arg[t])
     THEN Return(t, "ok") /\ list' = [list EXCEPT ![t] = <<arg[t]>>]
     ELSE Return(t, "err") /\ list' = list
  /\ UNCHANGED entries

\* seal: GET_ECDH_PUBKEY
Seal(t) ==
  /\ OtpCommand(t, "pubkey")
  /\ Goto(t, "write_seed") /\ Keep /\ UNCHANGED <<serial, list, cardVars>>

\* write_entry, delete_entry and erase_all
Write(t) ==
  /\ OtpCommand(t, "write_seed") \/ OtpCommand(t, "erase_seed")
  /\ IF Refused(t)
     THEN Return(t, "err") /\ UNCHANGED entries
     ELSE Return(t, "ok") /\ entries' = [entries EXCEPT ![reader[t]] = WriteSeed(t, @)]
  /\ UNCHANGED list

Operate(t) == \/ WrongApplet(t) \/ Enumerate(t) \/ EnumContinue(t) \/ ReadConfig(t)
              \/ ReadEntry(t) \/ Seal(t) \/ Write(t)

-----------------------------------------------------------------------------
(* An exchange fails: the connection was reset, or the link is bad.  (A card *)
(* to which connect gets only on its second try, in Exclusive mode, is one    *)
(* another session fails to connect to: a failed exchange at "probe_otp" or  *)
(* "legacy_otp".)                                                             *)

\* Where a failed exchange leads.  The results of SELECT FIDO and of the
\* restoring SELECT are ignored, and callers of read_serial ignore its error.
ToleratedStep(t) ==
  CASE pc[t] = "probe_fido"  -> "probe_serial"
    [] pc[t] = "serial_fido" -> "serial_read"
    [] pc[t] \in {"serial_read", "serial_restore"} -> AfterSerial(t)

\* Mutants: a failed exchange of an operation is ignored; it is sent again over
\* the same connection.
FailureRetried(t) ==
  \/ /\ pc[t] \in {"probe_otp", "probe_serial", "probe_again", "legacy_otp"}
     /\ TryNext(t)
  \/ /\ pc[t] \in {"probe_fido", "serial_fido", "serial_read", "serial_restore"}
     /\ Goto(t, ToleratedStep(t)) /\ Keep /\ UNCHANGED <<serial, list, cardVars>>
  \/ /\ pc[t] \in OtpSteps
     /\ UNCHANGED <<sessionVars, cardVars>>

FailureIgnored(t) ==
  \/ /\ pc[t] \in {"probe_otp", "probe_serial", "probe_again", "legacy_otp"}
     /\ TryNext(t)
  \/ /\ pc[t] \in {"probe_fido", "serial_fido", "serial_read", "serial_restore"}
     /\ Goto(t, ToleratedStep(t)) /\ Keep /\ UNCHANGED <<serial, list, cardVars>>
  \/ /\ pc[t] \in OtpSteps
     /\ Return(t, "ok") /\ UNCHANGED <<list, entries>>

FailedExchange(t) ==
  \/ /\ pc[t] \in {"probe_otp", "probe_serial", "probe_again", "legacy_otp"}
     /\ TryNext(t)
  \/ /\ pc[t] \in {"probe_fido", "serial_fido", "serial_read", "serial_restore"}
     /\ Goto(t, ToleratedStep(t)) /\ Keep /\ UNCHANGED <<serial, list, cardVars>>
  \/ /\ pc[t] \in OtpSteps
     /\ ReturnErr(t) /\ UNCHANGED <<list, entries>>

\* The answer to a write is lost, not the write.
LostAnswer(t) ==
  /\ OtpCommand(t, "write_seed") \/ OtpCommand(t, "erase_seed")
  /\ ~Refused(t)
  /\ Return(t, "err") /\ entries' = [entries EXCEPT ![reader[t]] = WriteSeed(t, @)]
  /\ UNCHANGED list

Reset(t) == broken[t] /\ FailedExchange(t) /\ UNCHANGED faults

Fault(t) ==
  /\ faults < MaxFaults /\ faults' = faults + 1
  /\ ~broken[t]
  /\ FailedExchange(t) \/ LostAnswer(t)

Step(t) == (Open(t) \/ ReadSerial(t) \/ Operate(t)) /\ UNCHANGED faults

Ended(t) == pc[t] \in {"off", "ok", "err"}

Done == (\A t \in Sessions : Ended(t)) /\ UNCHANGED vars

Next == (\E t \in Sessions : Step(t) \/ Reset(t) \/ Fault(t)) \/ Done

\* A thread runs, and an exchange over PC/SC ends.
Fairness == \A t \in Sessions : WF_vars(Step(t) \/ Reset(t))
Spec == Init /\ [][Next]_vars /\ Fairness

-----------------------------------------------------------------------------
(* Properties *)

\* Sessions and cards are in states the code and the card can be in; the legacy
\* scan is detect()'s alone (Interface::Nfc and discover() never come to it).
TypeOK ==
  /\ pc \in [Sessions -> Steps] /\ reader \in [Sessions -> Readers]
  /\ serial \in [Sessions -> 0..NReaders]
  /\ op \in [Sessions -> Ops] /\ arg \in [Sessions -> Profiles] /\ iface \in [Sessions -> Ifaces]
  /\ list \in [Sessions -> Seq(Profiles)]
  /\ found \in [Sessions -> SUBSET Readers] /\ broken \in [Sessions -> BOOLEAN]
  /\ kind \in [Readers -> Kinds] /\ applet \in [Readers -> {"none", "OTP", "FIDO"}]
  /\ entries \in [Readers -> Stored] /\ cursor \in [Readers -> 0..Capacity]
  /\ faults \in 0..MaxFaults
  /\ \A t \in Sessions : pc[t] = "legacy_otp" => iface[t] = "Auto" /\ op[t] # "readers"

Opened(t) == pc[t] \in SerialSteps \cup OtpSteps \cup {"ok"} /\ op[t] # "readers"

\* No other session uses the readers.
Alone(t) == \A u \in Sessions \ {t} : pc[u] = "off"

\* On a key that answers READ_SERIAL, every command of the OTP applet finds it
\* selected: "leaves the card on the OTP applet" (doc of probe), "Restore the OTP
\* applet selection over PC/SC for any subsequent ops" (read_serial).  Stated of
\* a session alone; one failed exchange does not break it.  (Two do: the first
\* sends the session to the legacy scan, the second ends its READ_SERIAL before
\* the restoring SELECT.)
OnOtpApplet ==
  \A t \in Sessions :
    Alone(t) /\ faults <= 1 /\ pc[t] \in OtpSteps /\ kind[reader[t]] = "token2" =>
      applet[reader[t]] = "OTP"

\* The doc of open_first_token2: "Open the first Token2 FIDO key reachable over
\* PC/SC".  Over a sound link no key it should have found is in an earlier reader.
FirstKey(t) ==
  faults = 0 /\ Opened(t) /\ iface[t] # "Named" =>
    \A r \in 1..reader[t] - 1 : kind[r] # "token2"
OpensFirstKey      == \A t \in Sessions : FirstKey(t)
OpensFirstKeyAlone == \A t \in Sessions : Alone(t) => FirstKey(t)

\* The doc of discover: it reports "which hold a Token2 FIDO key (by the serial
\* probe)".  It names no other reader, whatever other sessions do to the cards;
\* alone and over a sound link it names them all, legacy keys without a serial
\* number excepted.
DiscoversKeys ==
  \A t \in Sessions : op[t] = "readers" =>
    /\ \A r \in found[t] : kind[r] = "token2"
    /\ pc[t] = "ok" /\ Alone(t) /\ faults = 0 =>
         found[t] = {r \in Readers : kind[r] = "token2"}

\* Over Nfc or a named reader a session is opened only on a key that gave its
\* serial number, and the serial number a session holds is its own key's.
SerialConfirmed ==
  \A t \in Sessions : Opened(t) =>
    /\ iface[t] \in {"Nfc", "Named"} => serial[t] = reader[t]
    /\ serial[t] \in {0, reader[t]}

\* The other sessions that are there neither list nor write: they may probe the
\* cards, read a code or the configuration, and reset the connection.
OthersOnlyRead(t) ==
  \A u \in Sessions \ {t} : pc[u] # "off" => op[u] \in {"info", "read", "readers"}

\* The doc of enumerate: "Enumerate every stored entry, paging through
\* ENUM_CODES_CONTINUE as needed".  A list that is returned is whole, whatever
\* fails on the way, and whenever another session's probe or return takes the
\* applet or the cursor away between two pages.  (Two enumerations share the one
\* cursor of the card, and cross their pages.)
ListIsComplete ==
  \A t \in Sessions : OthersOnlyRead(t) /\ pc[t] = "ok" /\ op[t] \in {"load", "list"} =>
    list[t] = entries[reader[t]]

\* A session that is alone, over a sound link, fails only if there is no key to
\* find or the key refuses the command.
MayFail(t) ==
  \/ \A r \in Readers : IF iface[t] = "Auto" THEN ~HasOtp(r) ELSE kind[r] # "token2"
  \/ iface[t] = "Named" /\ kind[reader[t]] # "token2"
  \/ op[t] = "read" /\ ~Contains(entries[reader[t]], arg[t])
  \/ op[t] \in {"load", "info"} /\ kind[reader[t]] = "mute"  \* read_serial's early return
  \/ Refused(t)
FailsForAReason ==
  \A t \in Sessions : faults = 0 /\ Alone(t) /\ pc[t] = "err" => MayFail(t)

\* A write reported as done is on the key, and no other session undid it.
WritesLast ==
  \A t \in Sessions : pc[t] = "ok" /\ op[t] \in {"write", "delete", "erase"} =>
    LET others == {op[u] : u \in {v \in Sessions \ {t} : pc[v] # "off"}}
    IN CASE op[t] = "write" /\ others \cap {"delete", "erase"} = {} ->
              Contains(entries[reader[t]], arg[t])
         [] op[t] = "delete" /\ "write" \notin others -> ~Contains(entries[reader[t]], arg[t])
         [] op[t] = "erase" /\ "write" \notin others -> entries[reader[t]] = <<>>
         [] OTHER -> TRUE

\* Every operation returns, however sessions interleave: the scans, and the
\* loop of enumerate, end.
EveryOperationReturns == \A t \in Sessions : <>Ended(t)

=============================================================================
