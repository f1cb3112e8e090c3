-------------------------- MODULE PcscAloneProofs ---------------------------
(***************************************************************************)
(* Proofs about a session that has the readers for itself, for any number   *)
(* of readers and profiles, any page size and any number of failed          *)
(* exchanges: on which applet it finds the card, which key it opens, and    *)
(* why it fails.  Last, what a session lists among sessions that only read. *)
(***************************************************************************)
EXTENDS PcscSessionProofs

-----------------------------------------------------------------------------
(* The invariant of a session alone. *)

\* Which applet the card is on.  Over a sound link SELECT FIDO switches to it,
\* and a key that answers READ_SERIAL is left on OTP; a session that passed over
\* such a key (faults > 0) and then fails in READ_SERIAL leaves it on FIDO.
AppletAt(t) ==
  LET r == reader[t]
  IN /\ pc[t] \in {"probe_fido", "serial_fido"} => applet[r] = "OTP"
     /\ pc[t] \in {"probe_serial", "serial_read"} =>
          applet[r] \in {"OTP", "FIDO"} /\ (faults = 0 => applet[r] = "FIDO")
     /\ pc[t] \in OtpSteps =>
          \/ applet[r] = "OTP"
          \/ kind[r] = "mute" /\ op[t] \in {"load", "info"}
          \/ faults > 1

\* Which readers the scans have passed over.
ScanAt(t) ==
  /\ pc[t] \in {"probe_fido", "probe_serial"} \cup SerialSteps \cup OtpSteps => HasOtp(reader[t])
  /\ pc[t] \in SerialSteps => iface[t] = "Auto"
  /\ faults = 0 /\ iface[t] # "Named" =>
       /\ pc[t] \in ProbeSteps \cup OtpSteps \cup {"ok"} /\ op[t] # "readers" =>
            \A r \in 1..reader[t] - 1 : kind[r] # "token2"
       /\ pc[t] \in SerialSteps \cup {"legacy_otp"} => \A r \in Readers : kind[r] # "token2"
       /\ pc[t] = "legacy_otp" => \A r \in 1..reader[t] - 1 : ~HasOtp(r)

\* How much of the enumeration it has.
ListAt(t) ==
  LET e == entries[reader[t]]  c == cursor[reader[t]]
  IN /\ pc[t] \in ProbeSteps \cup SerialSteps \cup {"legacy_otp", "enum"} => list[t] = <<>>
     /\ pc[t] = "continue" => c \in 1..Len(e) - 1 /\ list[t] = SubSeq(e, 1, c)
     /\ pc[t] = "ok" /\ op[t] \in {"load", "list"} => list[t] = e

\* What discover() has found.
FoundAt(t) ==
  faults = 0 /\ op[t] = "readers" =>
    /\ pc[t] \in ProbeSteps => found[t] = {r \in 1..reader[t] - 1 : kind[r] = "token2"}
    /\ pc[t] = "ok" => found[t] = {r \in Readers : kind[r] = "token2"}

FailureAt(t) == faults = 0 /\ pc[t] = "err" => MayFail(t)

AloneInv(t) ==
  ~broken[t] /\ AppletAt(t) /\ ScanAt(t) /\ ListAt(t) /\ FoundAt(t) /\ FailureAt(t)

\* Of any session: a reader is named, or its probe repeated, only after its card
\* gave a serial number; discover() is never asked for one reader.
ProbedInv(t) ==
  /\ pc[t] = "probe_again" => kind[reader[t]] = "token2"
  /\ \A r \in found[t] : kind[r] = "token2"
  /\ op[t] = "readers" => iface[t] # "Named"

AInv == IInv /\ \A t \in Sessions : ProbedInv(t) /\ (Alone(t) => AloneInv(t))

-----------------------------------------------------------------------------
(* The three ways a step ends, for a session alone. *)

Before(t) == SessionTypes /\ CardTypes /\ LocalInv(t) /\ ProbedInv(t) /\ AloneInv(t)
             /\ faults \in Nat /\ faults' \in Nat /\ faults' >= faults

LEMMA AloneTypes ==
  ASSUME NEW t \in Sessions, SessionTypes
  PROVE  /\ reader[t] \in Readers /\ reader[t] \in Nat /\ 1 <= reader[t] /\ reader[t] <= NReaders
         /\ NReaders \in Nat /\ iface[t] \in {"Auto", "Nfc", "Named"}
<1>1. reader[t] \in Readers /\ iface[t] \in Ifaces
  BY DEF SessionTypes
<1>2. NReaders \in Nat /\ iface[t] \in {"Auto", "Nfc", "Named"}
  BY <1>1, PcscAssumption
<1>3. reader[t] \in Nat /\ 1 <= reader[t] /\ reader[t] <= NReaders
  BY <1>1, <1>2 DEF Readers
<1> QED  BY <1>1, <1>2, <1>3

(* At another exchange, on the same reader. *)
LEMMA KeepAlone ==
  ASSUME NEW t \in Sessions, NEW step \in Steps \ {"off", "ok", "err", "legacy_otp"},
         Before(t), Goto(t, step), Keep, UNCHANGED <<kind, entries>>
  PROVE  /\ pc'[t] = step /\ reader'[t] = reader[t] /\ op'[t] = op[t] /\ iface'[t] = iface[t]
         /\ found'[t] = found[t] /\ ~broken'[t]
         /\ FailureAt(t)'
<1>1. pc'[t] = step /\ pc'[t] # "err"
  BY DEF Goto, Before, SessionTypes
<1> QED  BY <1>1 DEF Keep, FailureAt, Before, AloneInv

(* At the next reader, as this one does not hold the key, or discover() has it. *)
LEMMA NextReaderAlone ==
  ASSUME NEW t \in Sessions, Before(t), NextReader(t), kind' = kind,
         pc[t] \in {"probe_otp", "probe_serial", "probe_again", "legacy_otp"},
         faults' = 0 /\ op[t] # "readers" =>
           kind[reader[t]] # "token2" /\ (pc[t] = "legacy_otp" => ~HasOtp(reader[t])),
         faults' = 0 /\ op[t] = "readers" =>
           found'[t] = {r \in 1..reader[t] : kind[r] = "token2"}
  PROVE  AloneInv(t)'
<1>1. /\ reader[t] \in Readers /\ reader[t] \in Nat /\ 1 <= reader[t] /\ reader[t] <= NReaders
      /\ NReaders \in Nat /\ iface[t] \in {"Auto", "Nfc", "Named"}
      /\ Readers = 1..NReaders
  BY AloneTypes DEF Before, Readers
<1>2. /\ op'[t] = op[t] /\ iface'[t] = iface[t] /\ list'[t] = <<>> /\ ~broken'[t]
      /\ faults' = 0 => faults = 0
  <2>1. list[t] = <<>>
    BY DEF Before, AloneInv, ListAt, ProbeSteps
  <2> QED  BY <2>1 DEF NextReader, Before, SessionTypes
<1>3. /\ faults = 0 /\ iface[t] # "Named" /\ op[t] # "readers" =>
           \A r \in 1..reader[t] - 1 : kind[r] # "token2"
      /\ faults = 0 /\ iface[t] # "Named" /\ pc[t] = "legacy_otp" =>
           /\ \A r \in Readers : kind[r] # "token2"
           /\ \A r \in 1..reader[t] - 1 : ~HasOtp(r)
      /\ pc[t] = "legacy_otp" => iface[t] = "Auto"
      /\ op[t] = "readers" => iface[t] # "Named" /\ pc[t] # "legacy_otp"
  <2>1. ScanAt(t) /\ ProbedInv(t) /\ LocalInv(t)
    BY DEF Before, AloneInv
  <2>2. \A r \in 1..reader[t] - 1 : r \in Readers
    BY <1>1
  <2> QED  BY <2>1, <2>2 DEF ScanAt, ProbedInv, LocalInv, PathAt, ProbeSteps
<1>4. CASE /\ ~LastReader(t) /\ reader' = [reader EXCEPT ![t] = @ + 1]
           /\ Goto(t, IF pc[t] = "legacy_otp" THEN "legacy_otp" ELSE "probe_otp")
  <2>1. /\ reader'[t] = reader[t] + 1 /\ iface[t] # "Named"
        /\ pc'[t] = IF pc[t] = "legacy_otp" THEN "legacy_otp" ELSE "probe_otp"
    BY <1>4 DEF LastReader, Goto, Before, SessionTypes
  <2>2. 1..reader'[t] - 1 = 1..reader[t] /\ \A r \in 1..reader[t] : r \in 1..reader[t] - 1 \/ r = reader[t]
    BY <1>1, <2>1
  <2>3. ScanAt(t)'
    BY <1>2, <1>3, <2>1, <2>2 DEF ScanAt, HasOtp, ProbeSteps, SerialSteps, OtpSteps
  <2>4. FoundAt(t)'
    BY <1>2, <1>3, <2>1, <2>2 DEF FoundAt, ProbeSteps
  <2> QED  BY <1>2, <2>1, <2>3, <2>4 DEF AloneInv, AppletAt, ListAt, FailureAt, OtpSteps
<1>5. CASE LegacyFollows(t) /\ reader' = [reader EXCEPT ![t] = 1] /\ Goto(t, "legacy_otp")
  <2>1. /\ reader'[t] = 1 /\ iface[t] = "Auto" /\ op[t] # "readers" /\ pc'[t] = "legacy_otp"
        /\ reader[t] = NReaders
    BY <1>5 DEF LegacyFollows, LastReader, Goto, Before, SessionTypes
  <2>2. 1..reader'[t] - 1 = {} /\ \A r \in Readers : r \in 1..reader[t] - 1 \/ r = reader[t]
    BY <1>1, <2>1
  <2>3. ScanAt(t)'
    BY <1>2, <1>3, <2>1, <2>2 DEF ScanAt, HasOtp, ProbeSteps, SerialSteps, OtpSteps
  <2> QED  BY <1>2, <2>1, <2>3 DEF AloneInv, AppletAt, ListAt, FoundAt, FailureAt, OtpSteps
<1>6. CASE /\ LastReader(t) /\ ~LegacyFollows(t) /\ reader' = reader
           /\ Goto(t, IF op[t] = "readers" THEN "ok" ELSE "err")
  <2>1. /\ reader'[t] = reader[t] /\ pc'[t] = IF op[t] = "readers" THEN "ok" ELSE "err"
        /\ iface[t] = "Named" \/ reader[t] = NReaders
        /\ iface[t] = "Auto" /\ op[t] # "readers" => pc[t] = "legacy_otp"
    BY <1>6 DEF LastReader, LegacyFollows, Goto, Before, SessionTypes
  <2>2. iface[t] # "Named" => \A r \in Readers : r \in 1..reader[t] - 1 \/ r = reader[t]
    BY <1>1, <2>1
  <2>3. ScanAt(t)'
    BY <1>2, <1>3, <2>1 DEF ScanAt, ProbeSteps, SerialSteps, OtpSteps
  <2>4. FoundAt(t)'
    BY <1>1, <1>2, <1>3, <2>1, <2>2 DEF FoundAt, ProbeSteps
  <2>5. FailureAt(t)'
    <3> SUFFICES ASSUME faults' = 0, op[t] # "readers" PROVE MayFail(t)'
      BY <2>1 DEF FailureAt
    <3>1. CASE iface[t] = "Named"
      BY <1>2, <2>1, <3>1 DEF MayFail
    <3>2. CASE iface[t] # "Named"
      <4>1. \A r \in Readers : IF iface[t] = "Auto" THEN ~HasOtp(r) ELSE kind[r] # "token2"
        BY <1>2, <1>3, <2>1, <2>2, <3>2
      <4> QED  BY <1>2, <4>1 DEF MayFail, HasOtp
    <3> QED  BY <3>1, <3>2
  <2> QED  BY <1>2, <2>1, <2>3, <2>4, <2>5 DEF AloneInv, AppletAt, ListAt, OtpSteps
<1> QED  BY <1>4, <1>5, <1>6 DEF NextReader

LEMMA TryNextAlone ==
  ASSUME NEW t \in Sessions, Before(t), TryNext(t),
         pc[t] \in {"probe_otp", "probe_serial", "probe_again", "legacy_otp"},
         faults' = 0 => kind[reader[t]] # "token2" /\ (pc[t] = "legacy_otp" => ~HasOtp(reader[t]))
  PROVE  AloneInv(t)'
<1>1. NextReader(t) /\ kind' = kind /\ found' = found
  BY DEF TryNext, cardVars
<1>2. faults' = 0 /\ op[t] = "readers" => found'[t] = {r \in 1..reader[t] : kind[r] = "token2"}
  <2>1. reader[t] \in Nat /\ 1 <= reader[t]
    BY AloneTypes DEF Before
  <2>2. \A r \in 1..reader[t] : r \in 1..reader[t] - 1 \/ r = reader[t]
    BY <2>1
  <2>3. 1..reader[t] - 1 \subseteq 1..reader[t]
    BY <2>1
  <2>4. op[t] = "readers" => pc[t] \in ProbeSteps
    BY DEF Before, LocalInv, PathAt, ProbeSteps
  <2>5. faults' = 0 => faults = 0
    BY DEF Before
  <2> QED  BY <1>1, <2>2, <2>3, <2>4, <2>5 DEF Before, AloneInv, FoundAt
<1> QED  BY <1>1, <1>2, NextReaderAlone

(* With a result. *)
LEMMA ReturnAlone ==
  ASSUME NEW t \in Sessions, NEW step \in {"ok", "err"}, Before(t), pc[t] \in OtpSteps,
         Return(t, step),
         step = "ok" /\ op[t] \in {"load", "list"} => list'[t] = entries'[reader[t]],
         step = "err" /\ faults' = 0 => MayFail(t) /\ entries' = entries
  PROVE  AloneInv(t)'
<1>1. /\ pc'[t] = step /\ UNCHANGED <<reader, op, arg, iface, found, kind>>
      /\ ~broken'[t]
      /\ faults' = 0 => faults = 0
  BY DEF Return, Goto, Drop, Sharing, Before, SessionTypes, AloneInv
<1>2. op[t] # "readers"
  BY DEF Before, LocalInv, PathAt, OtpSteps
<1>3. ScanAt(t)'
  BY <1>1 DEF Before, AloneInv, ScanAt, ProbeSteps, SerialSteps, OtpSteps
<1>4. ListAt(t)'
  BY <1>1 DEF ListAt, ProbeSteps, SerialSteps
<1>5. FailureAt(t)'
  BY <1>1 DEF FailureAt, MayFail, Refused, HasOtp
<1>6. AppletAt(t)' /\ FoundAt(t)'
  BY <1>1, <1>2 DEF AppletAt, FoundAt, OtpSteps, ProbeSteps
<1> QED  BY <1>1, <1>3, <1>4, <1>5, <1>6 DEF AloneInv

-----------------------------------------------------------------------------
(* One lemma per part of a session. *)

LEMMA ProbeAlone ==
  ASSUME NEW t \in Sessions, Before(t), faults' = faults,
         ProbeOtp(t) \/ ProbeFido(t) \/ ProbeSerial(t)
  PROVE  AloneInv(t)'
<1> DEFINE r == reader[t]
<1>0. r \in Readers /\ applet \in [Readers -> {"none", "OTP", "FIDO"}]
  BY AloneTypes DEF Before, CardTypes
<1>1. CASE ProbeOtp(t)
  <2>1. pc[t] = "probe_otp"
    BY <1>1 DEF ProbeOtp, AtStep
  <2>2. CASE HasOtp(r)
    <3>1. /\ applet' = [applet EXCEPT ![r] = "OTP"] /\ UNCHANGED <<kind, entries>>
          /\ Goto(t, "probe_fido") /\ Keep /\ list' = list
      BY <1>1, <2>2 DEF ProbeOtp, Select
    <3>2. /\ pc'[t] = "probe_fido" /\ reader'[t] = r /\ op'[t] = op[t] /\ iface'[t] = iface[t]
          /\ found'[t] = found[t] /\ ~broken'[t] /\ FailureAt(t)'
      BY <3>1, KeepAlone DEF Steps, ProbeSteps
    <3>3. AppletAt(t)'
      BY <1>0, <3>1, <3>2 DEF AppletAt, OtpSteps
    <3>4. ScanAt(t)' /\ ListAt(t)' /\ FoundAt(t)'
      BY <2>1, <2>2, <3>1, <3>2
      DEF Before, AloneInv, ScanAt, ListAt, FoundAt, HasOtp, ProbeSteps, SerialSteps, OtpSteps
    <3> QED  BY <3>2, <3>3, <3>4 DEF AloneInv
  <2>3. CASE ~HasOtp(r)
    BY <1>1, <2>1, <2>3, TryNextAlone DEF ProbeOtp, HasOtp
  <2> QED  BY <2>2, <2>3
<1>2. CASE ProbeFido(t)
  <2>1. /\ pc[t] = "probe_fido" /\ applet' = [applet EXCEPT ![r] = "FIDO"]
        /\ UNCHANGED <<kind, entries>> /\ Goto(t, "probe_serial") /\ Keep /\ list' = list
    BY <1>2 DEF ProbeFido, AtStep, Select
  <2>2. /\ pc'[t] = "probe_serial" /\ reader'[t] = r /\ op'[t] = op[t] /\ iface'[t] = iface[t]
        /\ found'[t] = found[t] /\ ~broken'[t] /\ FailureAt(t)'
    BY <2>1, KeepAlone DEF Steps, ProbeSteps
  <2>3. AppletAt(t)'
    BY <1>0, <2>1, <2>2 DEF AppletAt, OtpSteps
  <2>4. ScanAt(t)' /\ ListAt(t)' /\ FoundAt(t)'
    BY <2>1, <2>2
    DEF Before, AloneInv, ScanAt, ListAt, FoundAt, HasOtp, ProbeSteps, SerialSteps, OtpSteps
  <2> QED  BY <2>2, <2>3, <2>4 DEF AloneInv
<1>3. CASE ProbeSerial(t)
  <2>1. pc[t] = "probe_serial" /\ (faults = 0 => applet[r] = "FIDO")
    BY <1>3 DEF ProbeSerial, AtStep, Before, AloneInv, AppletAt
  <2>2. CASE AnswersSerial(r)
    <3>1. Goto(t, "probe_again") /\ Keep /\ UNCHANGED <<kind, applet, entries>> /\ list' = list
      BY <1>3, <2>2 DEF ProbeSerial, cardVars
    <3>2. /\ pc'[t] = "probe_again" /\ reader'[t] = r /\ op'[t] = op[t] /\ iface'[t] = iface[t]
          /\ found'[t] = found[t] /\ ~broken'[t] /\ FailureAt(t)'
      BY <3>1, KeepAlone DEF Steps, ProbeSteps
    <3>3. AppletAt(t)' /\ ScanAt(t)' /\ ListAt(t)' /\ FoundAt(t)'
      BY <2>1, <3>1, <3>2
      DEF Before, AloneInv, AppletAt, ScanAt, ListAt, FoundAt, HasOtp, ProbeSteps, SerialSteps, OtpSteps
    <3> QED  BY <3>2, <3>3 DEF AloneInv
  <2>3. CASE ~AnswersSerial(r)
    BY <1>3, <2>1, <2>3, TryNextAlone DEF ProbeSerial, AnswersSerial
  <2> QED  BY <2>2, <2>3
<1> QED  BY <1>1, <1>2, <1>3

(* A session is opened: it goes to the operation's first command. *)
LEMMA OpenedAlone ==
  ASSUME NEW t \in Sessions, NEW known \in BOOLEAN, Before(t), faults' = faults,
         pc[t] = IF known THEN "probe_again" ELSE "legacy_otp", op[t] # "readers",
         HasOtp(reader[t]), Select(reader[t], "OTP"), Goto(t, FirstStep(t, known)), Keep, list' = list
  PROVE  AloneInv(t)'
<1> DEFINE r == reader[t]  step == FirstStep(t, known)
<1>0. r \in Readers /\ applet \in [Readers -> {"none", "OTP", "FIDO"}]
  BY AloneTypes DEF Before, CardTypes
<1>1. /\ step \in {"enum", "config", "read_one", "pubkey", "erase_seed", "serial_fido"}
      /\ known => step # "serial_fido"
  <2>1. op[t] \in AllOps \ {"readers"}
    BY PcscAssumption DEF Before, SessionTypes
  <2>2. CASE op[t] \in {"load", "info"}
    <3>1. step = IF known THEN AfterSerial(t) ELSE "serial_fido"
      BY <2>2 DEF FirstStep
    <3> QED  BY <3>1 DEF AfterSerial
  <2>3. CASE op[t] = "list"
    BY <2>3 DEF FirstStep
  <2>4. CASE op[t] = "read"
    BY <2>4 DEF FirstStep
  <2>5. CASE op[t] \in {"write", "delete"}
    BY <2>5 DEF FirstStep
  <2>6. CASE op[t] = "erase"
    BY <2>6 DEF FirstStep
  <2> QED  BY <2>1, <2>2, <2>3, <2>4, <2>5, <2>6 DEF AllOps
<1>2. applet' = [applet EXCEPT ![r] = "OTP"] /\ UNCHANGED <<kind, entries>>
  BY DEF Select
<1> HIDE DEF step
<1>3. /\ pc'[t] = step /\ reader'[t] = r /\ op'[t] = op[t] /\ iface'[t] = iface[t]
      /\ found'[t] = found[t] /\ ~broken'[t] /\ FailureAt(t)'
  <2>1. Goto(t, step)
    BY DEF step
  <2> QED  BY <1>1, <1>2, <2>1, KeepAlone DEF Steps, SerialSteps, OtpSteps
<1>4. /\ list'[t] = <<>> /\ applet'[r] = "OTP"
      /\ faults' = 0 /\ iface[t] # "Named" => \A q \in 1..r - 1 : kind[q] # "token2"
      /\ step = "serial_fido" =>
           iface[t] = "Auto" /\ (faults' = 0 => \A q \in Readers : kind[q] # "token2")
  <2>1. ListAt(t) /\ ScanAt(t) /\ LocalInv(t)
    BY DEF Before, AloneInv
  <2>2. \A q \in 1..r - 1 : q \in Readers
    BY AloneTypes DEF Before, Readers
  <2> QED  BY <1>0, <1>1, <1>2, <2>1, <2>2 DEF ListAt, ScanAt, LocalInv, ProbeSteps
<1>5. AppletAt(t)'
  BY <1>1, <1>3, <1>4 DEF AppletAt
<1>6. ScanAt(t)'
  BY <1>1, <1>2, <1>3, <1>4 DEF ScanAt, HasOtp, ProbeSteps, SerialSteps
<1>7. ListAt(t)' /\ FoundAt(t)'
  BY <1>1, <1>3, <1>4 DEF ListAt, FoundAt, ProbeSteps
<1> QED  BY <1>3, <1>5, <1>6, <1>7 DEF AloneInv

LEMMA OpenAlone ==
  ASSUME NEW t \in Sessions, Before(t), Open(t), faults' = faults
  PROVE  AloneInv(t)'
<1> DEFINE r == reader[t]
<1>1. CASE ProbeOtp(t) \/ ProbeFido(t) \/ ProbeSerial(t)
  BY <1>1, ProbeAlone
<1>2. CASE ProbeAgain(t)
  <2>1. pc[t] = "probe_again" /\ kind[r] = "token2" /\ Select(r, "OTP")
    BY <1>2 DEF ProbeAgain, AtStep, Before, ProbedInv
  <2>2. CASE op[t] = "readers"
    <3>1. NextReader(t) /\ kind' = kind /\ found' = [found EXCEPT ![t] = @ \cup {r}]
      BY <1>2, <2>2 DEF ProbeAgain, Select
    <3>2. faults' = 0 => found'[t] = {q \in 1..r : kind[q] = "token2"}
      <4> SUFFICES ASSUME faults' = 0 PROVE found'[t] = {q \in 1..r : kind[q] = "token2"}
        OBVIOUS
      <4>1. found[t] = {q \in 1..r - 1 : kind[q] = "token2"}
        BY <2>1, <2>2 DEF Before, AloneInv, FoundAt, ProbeSteps
      <4>2. found'[t] = found[t] \cup {r}
        BY <3>1 DEF Before, SessionTypes
      <4>3. r \in Nat /\ 1 <= r
        BY AloneTypes DEF Before
      <4>4. \A q : q \in 1..r <=> q \in 1..r - 1 \/ q = r
        BY <4>3
      <4> QED  BY <2>1, <4>1, <4>2, <4>4
    <3> QED  BY <2>1, <2>2, <3>1, <3>2, NextReaderAlone
  <2>3. CASE op[t] # "readers"
    BY <1>2, <2>1, <2>3, OpenedAlone DEF ProbeAgain, HasOtp
  <2> QED  BY <2>2, <2>3
<1>3. CASE LegacyOtp(t)
  <2>1. pc[t] = "legacy_otp" /\ op[t] # "readers"
    BY <1>3 DEF LegacyOtp, AtStep, Before, LocalInv, PathAt
  <2>2. CASE HasOtp(r)
    BY <1>3, <2>1, <2>2, OpenedAlone DEF LegacyOtp
  <2>3. CASE ~HasOtp(r)
    BY <1>3, <2>1, <2>3, TryNextAlone DEF LegacyOtp, HasOtp
  <2> QED  BY <2>2, <2>3
<1> QED  BY <1>1, <1>2, <1>3 DEF Open

(* READ_SERIAL ends with the card on the OTP applet, unless the key is mute. *)
LEMMA ReadSerialAlone ==
  ASSUME NEW t \in Sessions, Before(t), ReadSerial(t), faults' = faults
  PROVE  AloneInv(t)'
<1> DEFINE r == reader[t]
<1>0. /\ r \in Readers /\ applet \in [Readers -> {"none", "OTP", "FIDO"}]
      /\ \A q \in 1..r - 1 : q \in Readers
  BY AloneTypes DEF Before, CardTypes, Readers
<1>1. /\ pc[t] \in SerialSteps /\ op[t] \in {"load", "info"} /\ AfterSerial(t) \in {"config", "enum"}
      /\ HasOtp(r) /\ iface[t] = "Auto" /\ list[t] = <<>>
      /\ faults = 0 => \A q \in Readers : kind[q] # "token2"
  <2>1. pc[t] \in SerialSteps
    BY DEF ReadSerial, SerialFido, SerialRead, SerialRestore, AtStep, SerialSteps
  <2>2. LocalInv(t) /\ ScanAt(t) /\ ListAt(t)
    BY DEF Before, AloneInv
  <2> QED  BY <2>1, <2>2 DEF LocalInv, PathAt, ScanAt, ListAt, AfterSerial
<1>2. ASSUME NEW step \in {"serial_read", "serial_restore", "config", "enum"},
             Goto(t, step), Keep, list' = list, UNCHANGED <<kind, entries>>, AppletAt(t)'
      PROVE  AloneInv(t)'
  <2>1. /\ pc'[t] = step /\ reader'[t] = r /\ op'[t] = op[t] /\ iface'[t] = iface[t]
        /\ found'[t] = found[t] /\ ~broken'[t] /\ FailureAt(t)'
    BY <1>2, KeepAlone DEF Steps, SerialSteps, OtpSteps
  <2>2. ScanAt(t)'
    BY <1>0, <1>1, <1>2, <2>1 DEF ScanAt, HasOtp, ProbeSteps, SerialSteps, OtpSteps
  <2>3. ListAt(t)' /\ FoundAt(t)'
    BY <1>1, <1>2, <2>1 DEF ListAt, FoundAt, ProbeSteps
  <2> QED  BY <1>2, <2>1, <2>2, <2>3 DEF AloneInv
<1>3. CASE SerialFido(t)
  <2>1. /\ applet' = [applet EXCEPT ![r] = "FIDO"] /\ UNCHANGED <<kind, entries>>
        /\ Goto(t, "serial_read") /\ Keep /\ list' = list
    BY <1>3 DEF SerialFido, Select
  <2>2. AppletAt(t)'
    BY <1>0, <2>1 DEF AppletAt, OtpSteps, Keep, Goto, Before, SessionTypes
  <2> QED  BY <1>2, <2>1, <2>2
<1>4. CASE SerialRead(t)
  <2>1. UNCHANGED <<kind, applet, entries>> /\ Keep /\ list' = list
    BY <1>4 DEF SerialRead, cardVars
  <2>2. applet[r] \in {"OTP", "FIDO"}
    BY <1>4 DEF SerialRead, AtStep, Before, AloneInv, AppletAt
  <2>3. CASE AnswersSerial(r)
    <3>1. Goto(t, "serial_restore")
      BY <1>4, <2>3 DEF SerialRead
    <3>2. AppletAt(t)'
      BY <3>1 DEF AppletAt, OtpSteps, Goto, Before, SessionTypes
    <3> QED  BY <1>2, <2>1, <3>1, <3>2
  <2>4. CASE ~AnswersSerial(r)
    <3>1. Goto(t, AfterSerial(t))
      BY <1>4, <2>4 DEF SerialRead
    <3>2. applet[r] = "OTP" \/ kind[r] = "mute"
      BY <1>1, <2>2, <2>4 DEF HasOtp, AnswersSerial
    <3>3. AppletAt(t)'
      BY <1>1, <2>1, <3>1, <3>2 DEF AppletAt, OtpSteps, Keep, Goto, Before, SessionTypes
    <3> QED  BY <1>1, <1>2, <2>1, <3>1, <3>3
  <2> QED  BY <2>3, <2>4
<1>5. CASE SerialRestore(t)
  <2>1. /\ applet' = [applet EXCEPT ![r] = "OTP"] /\ UNCHANGED <<kind, entries>>
        /\ Goto(t, AfterSerial(t)) /\ Keep /\ list' = list
    BY <1>5 DEF SerialRestore, Select
  <2>2. AppletAt(t)'
    BY <1>0, <1>1, <2>1 DEF AppletAt, OtpSteps, Keep, Goto, Before, SessionTypes
  <2> QED  BY <1>1, <1>2, <2>1, <2>2
<1> QED  BY <1>3, <1>4, <1>5 DEF ReadSerial

(* A page follows the entries already listed. *)
LEMMA PageFollows ==
  ASSUME NEW t \in Sessions, NEW from \in Nat, SessionTypes, CardTypes, Serve(t, from),
         from <= Len(entries[reader[t]]), list[t] = SubSeq(entries[reader[t]], 1, from)
  PROVE  LET r == reader[t]  e == entries[r]
         IN IF MorePages(r, from)
            THEN /\ PageEnd(r, from) \in 1..Len(e) - 1
                 /\ list'[t] = SubSeq(e, 1, PageEnd(r, from))
            ELSE list'[t] = e
<1> DEFINE r == reader[t]  e == entries[r]  last == PageEnd(r, from)
<1>1. e \in Seq(Profiles) /\ Len(e) \in Nat
  <2>1. e \in Stored
    BY DEF SessionTypes, CardTypes
  <2> QED  BY <2>1, StoredProperties
<1>2. last \in Nat /\ from <= last /\ last <= Len(e) /\ (MorePages(r, from) => last \in 1..Len(e) - 1)
  BY <1>1, PcscAssumption DEF PageEnd, MorePages
<1>3. ~MorePages(r, from) => last = Len(e)
  BY <1>1, PcscAssumption DEF PageEnd, MorePages
<1> HIDE DEF last
<1>4. list'[t] = SubSeq(e, 1, last)
  <2>1. list'[t] = list[t] \o SubSeq(e, from + 1, last)
    BY DEF Serve, Page, last, SessionTypes
  <2>2. SubSeq(e, 1, from) \o SubSeq(e, from + 1, last) = SubSeq(e, 1, last)
    <3>1. 1 \in 1..Len(e) + 1 /\ from \in 1 - 1..Len(e) /\ last \in from..Len(e)
      BY <1>1, <1>2
    <3> QED  BY <1>1, <3>1, ConcatAdjacentSubSeq
  <2> QED  BY <2>1, <2>2
<1>5. SubSeq(e, 1, Len(e)) = e
  BY <1>1, SubSeqFull
<1> QED  BY <1>2, <1>3, <1>4, <1>5 DEF last

LEMMA ServeAlone ==
  ASSUME NEW t \in Sessions, NEW from \in Nat, Before(t), faults' = faults,
         pc[t] \in {"enum", "continue"}, applet[reader[t]] = "OTP", Serve(t, from),
         from <= Len(entries[reader[t]]), list[t] = SubSeq(entries[reader[t]], 1, from)
  PROVE  AloneInv(t)'
<1> DEFINE r == reader[t]  e == entries[r]  last == PageEnd(r, from)
<1>1. /\ r \in Readers /\ op[t] \in {"load", "list"}
      /\ cursor \in [Readers -> 0..Capacity]
  BY DEF Before, SessionTypes, CardTypes, LocalInv, PathAt
<1>2. IF MorePages(r, from)
      THEN last \in 1..Len(e) - 1 /\ list'[t] = SubSeq(e, 1, last)
      ELSE list'[t] = e
  BY PageFollows DEF Before
<1>5. CASE MorePages(r, from)
  <2>1. /\ Goto(t, "continue") /\ Keep /\ UNCHANGED <<kind, applet, entries>>
        /\ cursor' = [cursor EXCEPT ![r] = last]
    BY <1>5 DEF Serve
  <2> HIDE DEF last
  <2>2. /\ pc'[t] = "continue" /\ reader'[t] = r /\ op'[t] = op[t] /\ iface'[t] = iface[t]
        /\ found'[t] = found[t] /\ ~broken'[t] /\ FailureAt(t)'
    BY <2>1, KeepAlone DEF Steps, OtpSteps
  <2>3. AppletAt(t)'
    BY <2>1, <2>2 DEF AppletAt
  <2>4. ScanAt(t)'
    BY <2>1, <2>2 DEF Before, AloneInv, ScanAt, HasOtp, ProbeSteps, SerialSteps, OtpSteps
  <2>5. ListAt(t)'
    <3>1. cursor'[r] = last /\ entries'[r] = e
      BY <1>1, <2>1
    <3> QED  BY <1>2, <1>5, <2>2, <3>1 DEF ListAt, ProbeSteps, SerialSteps
  <2>6. FoundAt(t)'
    BY <1>1, <2>2 DEF FoundAt
  <2> QED  BY <2>2, <2>3, <2>4, <2>5, <2>6 DEF AloneInv
<1>6. CASE ~MorePages(r, from)
  <2>1. Return(t, "ok") /\ entries' = entries
    BY <1>6 DEF Serve
  <2> QED  BY <1>2, <1>6, <2>1, ReturnAlone DEF OtpSteps
<1> QED  BY <1>5, <1>6

LEMMA OperateAlone ==
  ASSUME NEW t \in Sessions, Before(t), Operate(t), faults' = faults
  PROVE  AloneInv(t)'
<1> DEFINE r == reader[t]
<1>0. /\ LocalInv(t) /\ AppletAt(t) /\ ScanAt(t) /\ ListAt(t)
      /\ pc[t] = "config" => op[t] = "info"
  BY DEF Before, AloneInv, LocalInv, PathAt
<1>1. CASE WrongApplet(t)
  <2>1. pc[t] \in OtpSteps /\ applet[r] # "OTP" /\ ReturnErr(t) /\ entries' = entries
    BY <1>1 DEF WrongApplet
  <2>2. faults' = 0 => MayFail(t)
    BY <1>0, <2>1 DEF AppletAt, MayFail
  <2>3. PICK step \in {"ok", "err"} : Return(t, step) /\ (step = "ok" => pc[t] = "config")
    BY <2>1 DEF ReturnErr
  <2>4. step = "ok" => op[t] \notin {"load", "list"}
    BY <1>0, <2>3
  <2> QED  BY <2>1, <2>2, <2>3, <2>4, ReturnAlone
<1>2. CASE Enumerate(t)
  <2>1. /\ pc[t] = "enum" /\ applet[r] = "OTP" /\ Serve(t, 0)
        /\ entries[r] \in Seq(Profiles) /\ Len(entries[r]) \in Nat
    <3>1. r \in Readers /\ entries[r] \in Stored
      BY DEF Before, SessionTypes, CardTypes
    <3> QED  BY <1>2, <3>1, StoredProperties DEF Enumerate, OtpCommand, AtStep
  <2>2. list[t] = SubSeq(entries[r], 1, 0)
    <3>1. SubSeq(entries[r], 1, 0) = <<>>
      BY SubSeqEmpty
    <3> QED  BY <1>0, <2>1, <3>1 DEF ListAt
  <2>3. 0 \in Nat /\ 0 <= Len(entries[r])
    BY <2>1
  <2> QED  BY <2>1, <2>2, <2>3, ServeAlone
<1>3. CASE EnumContinue(t)
  <2> DEFINE c == cursor[r]
  <2>1. pc[t] = "continue" /\ applet[r] = "OTP"
    BY <1>3 DEF EnumContinue, OtpCommand, AtStep
  <2>2. c \in 1..Len(entries[r]) - 1 /\ list[t] = SubSeq(entries[r], 1, c)
    BY <1>0, <2>1 DEF ListAt
  <2>3. Serve(t, c)
    BY <1>3, <2>2 DEF EnumContinue
  <2>4. Len(entries[r]) \in Nat
    <3>1. r \in Readers /\ entries[r] \in Stored
      BY DEF Before, SessionTypes, CardTypes
    <3> QED  BY <3>1, StoredProperties
  <2>5. c \in Nat /\ c <= Len(entries[r])
    BY <2>2, <2>4
  <2> QED  BY <2>1, <2>2, <2>3, <2>5, ServeAlone
<1>4. CASE ReadConfig(t)
  <2>1. pc[t] = "config" /\ Return(t, "ok")
    BY <1>4 DEF ReadConfig, OtpCommand, AtStep
  <2> QED  BY <1>0, <2>1, ReturnAlone DEF OtpSteps
<1>5. CASE ReadEntry(t)
  <2>1. pc[t] = "read_one" /\ op[t] = "read" /\ entries' = entries
    BY <1>0, <1>5 DEF ReadEntry, OtpCommand, AtStep, LocalInv, PathAt
  <2>2. PICK step \in {"ok", "err"} :
          Return(t, step) /\ (step = "err" => ~Contains(entries[r], arg[t]))
    BY <1>5 DEF ReadEntry
  <2>3. step = "err" => MayFail(t)
    BY <2>1, <2>2 DEF MayFail
  <2> QED  BY <2>1, <2>2, <2>3, ReturnAlone DEF OtpSteps
<1>6. CASE Seal(t)
  <2>1. /\ pc[t] = "pubkey" /\ applet[r] = "OTP" /\ Goto(t, "write_seed") /\ Keep
        /\ UNCHANGED <<kind, applet, entries>> /\ op[t] \in {"write", "delete"}
    BY <1>0, <1>6 DEF Seal, OtpCommand, AtStep, cardVars, LocalInv, PathAt
  <2>2. /\ pc'[t] = "write_seed" /\ reader'[t] = r /\ op'[t] = op[t] /\ iface'[t] = iface[t]
        /\ found'[t] = found[t] /\ ~broken'[t] /\ FailureAt(t)'
    BY <2>1, KeepAlone DEF Steps, OtpSteps
  <2>3. AppletAt(t)' /\ ListAt(t)' /\ FoundAt(t)'
    BY <2>1, <2>2 DEF AppletAt, ListAt, FoundAt, ProbeSteps, SerialSteps
  <2>4. ScanAt(t)'
    BY <1>0, <2>1, <2>2 DEF ScanAt, HasOtp, ProbeSteps, SerialSteps, OtpSteps
  <2> QED  BY <2>2, <2>3, <2>4 DEF AloneInv
<1>7. CASE Write(t)
  <2>1. pc[t] \in {"write_seed", "erase_seed"} /\ op[t] \notin {"load", "list"}
    BY <1>0, <1>7 DEF Write, OtpCommand, AtStep, LocalInv, PathAt
  <2>2. PICK step \in {"ok", "err"} :
          Return(t, step) /\ (step = "err" => Refused(t) /\ entries' = entries)
    BY <1>7 DEF Write
  <2>3. step = "err" => MayFail(t)
    BY <2>2 DEF MayFail
  <2> QED  BY <2>1, <2>2, <2>3, ReturnAlone DEF OtpSteps
<1> QED  BY <1>1, <1>2, <1>3, <1>4, <1>5, <1>6, <1>7 DEF Operate

(* A failed exchange sends it on, or ends it.  The first one cannot end the *)
(* READ_SERIAL of a key that answers: over a sound link no such key is found *)
(* by the legacy scan.                                                      *)
LEMMA FailedAlone ==
  ASSUME NEW t \in Sessions, Before(t), faults' = faults + 1, FailedExchange(t) \/ LostAnswer(t)
  PROVE  AloneInv(t)'
<1> DEFINE r == reader[t]
<1>0. /\ LocalInv(t) /\ AppletAt(t) /\ ScanAt(t) /\ ListAt(t) /\ faults' # 0
      /\ faults # 0 => faults' > 1
  BY DEF Before, AloneInv
<1>1. CASE /\ pc[t] \in {"probe_otp", "probe_serial", "probe_again", "legacy_otp"}
           /\ TryNext(t)
  BY <1>0, <1>1, TryNextAlone
<1>2. CASE /\ pc[t] \in {"probe_fido", "serial_fido", "serial_read", "serial_restore"}
           /\ Goto(t, ToleratedStep(t)) /\ Keep /\ UNCHANGED <<serial, list, cardVars>>
  <2> DEFINE step == ToleratedStep(t)
  <2>1. /\ pc[t] = "probe_fido" => step = "probe_serial"
        /\ pc[t] = "serial_fido" => step = "serial_read"
        /\ pc[t] \in {"serial_read", "serial_restore"} => step \in {"config", "enum"}
    <3>1. /\ pc[t] = "probe_fido" => step = "probe_serial"
          /\ pc[t] = "serial_fido" => step = "serial_read"
          /\ pc[t] \in {"serial_read", "serial_restore"} => step = AfterSerial(t)
      BY DEF ToleratedStep
    <3> QED  BY <3>1 DEF AfterSerial
  <2>2. /\ Goto(t, step) /\ Keep /\ UNCHANGED <<list, kind, applet, entries>>
    BY <1>2 DEF cardVars
  <2> HIDE DEF step
  <2>3. step \in Steps \ {"off", "ok", "err", "legacy_otp"}
    BY <1>2, <2>1 DEF Steps, ProbeSteps, SerialSteps, OtpSteps
  <2>4. /\ pc'[t] = step /\ reader'[t] = r /\ op'[t] = op[t] /\ iface'[t] = iface[t]
        /\ found'[t] = found[t] /\ ~broken'[t] /\ FailureAt(t)'
    BY <2>2, <2>3, KeepAlone
  <2>5. AppletAt(t)'
    <3>1. CASE pc[t] \in {"probe_fido", "serial_fido"}
      BY <1>0, <2>1, <2>2, <2>4, <3>1 DEF AppletAt, OtpSteps
    <3>2. CASE pc[t] \in {"serial_read", "serial_restore"}
      <4>1. op[t] \in {"load", "info"} /\ HasOtp(r) /\ iface[t] = "Auto" /\ r \in Readers
        BY <1>0, <3>2 DEF LocalInv, PathAt, ScanAt, SerialSteps, Before, SessionTypes
      <4>2. kind[r] = "mute" \/ faults # 0
        BY <1>0, <3>2, <4>1 DEF ScanAt, HasOtp, SerialSteps
      <4> QED  BY <1>0, <2>1, <2>2, <2>4, <3>2, <4>1, <4>2 DEF AppletAt
    <3> QED  BY <1>2, <3>1, <3>2
  <2>6. ScanAt(t)'
    <3>1. /\ HasOtp(r)
          /\ pc[t] # "probe_fido" => iface[t] = "Auto"
      BY <1>0, <1>2 DEF ScanAt, SerialSteps
    <3> QED  BY <1>0, <1>2, <2>1, <2>2, <2>4, <3>1 DEF ScanAt, HasOtp, SerialSteps
  <2>7. ListAt(t)' /\ FoundAt(t)'
    BY <1>0, <1>2, <2>1, <2>2, <2>4 DEF ListAt, FoundAt, ProbeSteps, SerialSteps
  <2> QED  BY <2>4, <2>5, <2>6, <2>7 DEF AloneInv
<1>3. CASE pc[t] \in OtpSteps /\ ReturnErr(t) /\ UNCHANGED <<list, entries>>
  <2>1. PICK step \in {"ok", "err"} : Return(t, step) /\ (step = "ok" => pc[t] = "config")
    BY <1>3 DEF ReturnErr
  <2>2. step = "ok" => op[t] \notin {"load", "list"}
    BY <1>0, <2>1 DEF LocalInv, PathAt
  <2> QED  BY <1>0, <1>3, <2>1, <2>2, ReturnAlone
<1>4. CASE LostAnswer(t)
  <2>1. pc[t] \in OtpSteps /\ Return(t, "err")
    BY <1>4 DEF LostAnswer, OtpCommand, AtStep, OtpSteps
  <2> QED  BY <1>0, <2>1, ReturnAlone
<1> QED  BY <1>1, <1>2, <1>3, <1>4 DEF FailedExchange

-----------------------------------------------------------------------------
(* What holds of a session that is not alone. *)

(* The kinds of the cards never change, nor what another session has found; *)
(* a reader is named, and a probe repeated, once its card gave a serial.    *)
Finds(t) ==
  /\ kind' = kind /\ \A u \in Sessions \ {t} : found'[u] = found[u]
  /\ \/ found'[t] = found[t]
     \/ found'[t] = found[t] \cup {reader[t]} /\ kind[reader[t]] = "token2"
  /\ pc'[t] = "probe_again" => kind[reader[t]] = "token2" /\ reader'[t] = reader[t]

LEMMA FindsNothing ==
  ASSUME NEW t \in Sessions, SessionTypes, kind' = kind, found' = found,
         NextReader(t) \/ (\E step \in Steps \ {"probe_again"} : Goto(t, step))
  PROVE  Finds(t)
<1>1. pc'[t] # "probe_again"
  BY DEF NextReader, Goto, SessionTypes
<1> QED  BY <1>1 DEF Finds

LEMMA FoundMoves ==
  ASSUME NEW t \in Sessions, SessionTypes, CardTypes, LocalInv(t), ProbedInv(t),
         Step(t) \/ Reset(t) \/ Fault(t)
  PROVE  Finds(t)
<1>3. ASSUME TryNext(t) PROVE Finds(t)
  BY <1>3, FindsNothing DEF TryNext, cardVars
<1>4. ASSUME NEW step \in {"ok", "err"}, Return(t, step) PROVE Finds(t)
  BY <1>4, FindsNothing DEF Return, Steps
<1>5. ASSUME NEW step \in Steps \ {"probe_again"}, Goto(t, step), Keep, kind' = kind PROVE Finds(t)
  BY <1>5, FindsNothing DEF Keep
<1>6. \A known \in BOOLEAN :
        op[t] # "readers" => FirstStep(t, known) \in Steps \ {"probe_again"}
  BY FirstStepIs DEF Steps, SerialSteps, OtpSteps
<1>7. /\ {"probe_fido", "probe_serial", "serial_read", "serial_restore", "continue", "write_seed"}
           \subseteq Steps \ {"probe_again"}
      /\ AfterSerial(t) \in Steps \ {"probe_again"}
  BY DEF AfterSerial, Steps, ProbeSteps, SerialSteps, OtpSteps
<1>8. CASE Open(t)
  <2>1. CASE ProbeOtp(t)
    BY <1>3, <1>5, <1>7, <2>1 DEF ProbeOtp, Select
  <2>2. CASE ProbeFido(t)
    BY <1>5, <1>7, <2>2 DEF ProbeFido, Select
  <2>3. CASE ProbeSerial(t)
    <3>1. CASE AnswersSerial(reader[t])
      BY <2>3, <3>1 DEF ProbeSerial, AnswersSerial, Goto, Keep, cardVars, Finds
    <3>2. CASE ~AnswersSerial(reader[t])
      BY <1>3, <2>3, <3>2 DEF ProbeSerial
    <3> QED  BY <3>1, <3>2
  <2>4. CASE ProbeAgain(t)
    <3>1. kind' = kind /\ kind[reader[t]] = "token2"
      BY <2>4 DEF ProbeAgain, Select, AtStep, ProbedInv
    <3>2. CASE op[t] = "readers"
      <4>1. NextReader(t) /\ found' = [found EXCEPT ![t] = @ \cup {reader[t]}]
        BY <2>4, <3>2 DEF ProbeAgain
      <4>2. pc'[t] # "probe_again"
        BY <4>1 DEF NextReader, Goto, SessionTypes
      <4> QED  BY <3>1, <4>1, <4>2 DEF Finds, SessionTypes
    <3>3. CASE op[t] # "readers"
      BY <1>5, <1>6, <2>4, <3>1, <3>3 DEF ProbeAgain
    <3> QED  BY <3>2, <3>3
  <2>5. CASE LegacyOtp(t)
    <3>1. op[t] # "readers"
      BY <2>5 DEF LegacyOtp, AtStep, LocalInv, PathAt
    <3> QED  BY <1>3, <1>5, <1>6, <2>5, <3>1 DEF LegacyOtp, Select
  <2> QED  BY <1>8, <2>1, <2>2, <2>3, <2>4, <2>5 DEF Open
<1>9. CASE ReadSerial(t)
  <2>1. CASE SerialFido(t)
    BY <1>5, <1>7, <2>1 DEF SerialFido, Select
  <2>2. CASE SerialRead(t)
    BY <1>5, <1>7, <2>2 DEF SerialRead, cardVars
  <2>3. CASE SerialRestore(t)
    BY <1>5, <1>7, <2>3 DEF SerialRestore, Select
  <2> QED  BY <1>9, <2>1, <2>2, <2>3 DEF ReadSerial
<1>10. CASE Operate(t)
  <2>1. CASE \E step \in {"ok", "err"} : Return(t, step)
    BY <1>4, <2>1
  <2>2. CASE \E step \in {"continue", "write_seed"} : Goto(t, step) /\ Keep /\ kind' = kind
    BY <1>5, <1>7, <2>2
  <2> QED  BY <1>10, <2>1, <2>2
           DEF Operate, WrongApplet, ReturnErr, Enumerate, EnumContinue, Serve, ReadConfig,
               ReadEntry, Seal, Write, cardVars
<1>11. CASE FailedExchange(t)
  <2>1. CASE TryNext(t)
    BY <1>3, <2>1
  <2>2. CASE /\ pc[t] \in {"probe_fido", "serial_fido", "serial_read", "serial_restore"}
             /\ Goto(t, ToleratedStep(t)) /\ Keep /\ UNCHANGED <<serial, list, cardVars>>
    <3>1. ToleratedStep(t) \in Steps \ {"probe_again"}
      BY <1>7, <2>2 DEF ToleratedStep
    <3> QED  BY <1>5, <2>2, <3>1 DEF cardVars
  <2>3. CASE ReturnErr(t)
    BY <1>4, <2>3 DEF ReturnErr
  <2> QED  BY <1>11, <2>1, <2>2, <2>3 DEF FailedExchange
<1>12. CASE LostAnswer(t)
  BY <1>4, <1>12 DEF LostAnswer
<1> QED  BY <1>8, <1>9, <1>10, <1>11, <1>12 DEF Step, Reset, Fault

-----------------------------------------------------------------------------
(* The invariant is inductive. *)

LEMMA InitAlone == Init => AInv
<1> SUFFICES ASSUME Init PROVE AInv
  OBVIOUS
<1>1. ASSUME NEW t \in Sessions PROVE ProbedInv(t) /\ AloneInv(t)
  <2>1. /\ pc[t] \in {"off", "probe_otp"} /\ found[t] = {} /\ list[t] = <<>> /\ ~broken[t]
        /\ op[t] = "readers" => iface[t] # "Named"
    BY DEF Init
  <2>2. iface[t] # "Named" => reader[t] = 1
    BY DEF Init
  <2>3. iface[t] # "Named" => 1..reader[t] - 1 = {}
    BY <2>2
  <2>4. ScanAt(t) /\ FoundAt(t)
    BY <2>1, <2>3 DEF ScanAt, FoundAt, ProbeSteps, SerialSteps, OtpSteps
  <2>5. AppletAt(t) /\ ListAt(t) /\ FailureAt(t) /\ ProbedInv(t)
    BY <2>1 DEF AppletAt, ListAt, FailureAt, ProbedInv, OtpSteps
  <2> QED  BY <2>1, <2>4, <2>5 DEF AloneInv
<1> QED  BY <1>1, InitInv DEF AInv

(* What a session does, whichever step it takes. *)
LEMMA SessionStep ==
  ASSUME NEW t \in Sessions, AInv, Step(t) \/ Reset(t) \/ Fault(t)
  PROVE  Moves(t) /\ Finds(t) /\ (Alone(t) => AloneInv(t)')
<1>0. /\ SessionTypes /\ CardTypes /\ faults \in 0..MaxFaults /\ LocalInv(t) /\ ProbedInv(t)
      /\ Alone(t) => AloneInv(t)
  BY TypeOKIff DEF AInv, IInv
<1>1. Moves(t)
  <2>1. StepInv(t)
    BY <1>0, OpenInv, ReadSerialInv, OperateInv, FailedInv, LostAnswerInv DEF Step, Reset, Fault
  <2> QED  BY <2>1 DEF StepInv, StepDone
<1>2. Finds(t)
  BY <1>0, FoundMoves
<1>3. ASSUME Alone(t) PROVE AloneInv(t)'
  <2>1. faults \in Nat
    BY <1>0
  <2>2. CASE Step(t)
    <3>1. Before(t) /\ faults' = faults
      BY <1>0, <1>3, <2>1, <2>2 DEF Before, Step
    <3> QED  BY <2>2, <3>1, OpenAlone, ReadSerialAlone, OperateAlone DEF Step
  <2>3. CASE Reset(t)
    BY <1>0, <1>3, <2>3 DEF Reset, AloneInv
  <2>4. CASE Fault(t)
    <3>1. Before(t) /\ faults' = faults + 1
      BY <1>0, <1>3, <2>1, <2>4 DEF Before, Fault
    <3> QED  BY <2>4, <3>1, FailedAlone DEF Fault
  <2> QED  BY <2>2, <2>3, <2>4
<1> QED  BY <1>1, <1>2, <1>3

LEMMA NextAlone == AInv /\ [Next]_vars => AInv'
<1> SUFFICES ASSUME AInv, [Next]_vars PROVE AInv'
  OBVIOUS
<1>0. IInv' /\ (\A u \in Sessions : ProbedInv(u) /\ (Alone(u) => AloneInv(u)))
  BY NextInv DEF AInv
<1>1. ASSUME NEW t \in Sessions, Step(t) \/ Reset(t) \/ Fault(t) PROVE AInv'
  <2>1. Moves(t) /\ Finds(t) /\ (Alone(t) => AloneInv(t)')
    BY <1>1, SessionStep
  <2>2. ASSUME NEW u \in Sessions PROVE ProbedInv(u)'
    <3>1. CASE u = t
      BY <1>0, <2>1, <3>1 DEF ProbedInv, Finds, Moves
    <3>2. CASE u # t
      BY <1>0, <2>1, <3>2 DEF ProbedInv, Finds, Moves
    <3> QED  BY <3>1, <3>2
  <2>3. ASSUME NEW u \in Sessions, Alone(u)' PROVE AloneInv(u)'
    <3>1. u = t
      BY <2>1, <2>3 DEF Alone, Moves
    <3>2. Alone(t)
      BY <2>1, <2>3, <3>1 DEF Alone, Moves
    <3> QED  BY <2>1, <3>1, <3>2
  <2> QED  BY <1>0, <2>2, <2>3 DEF AInv
<1>2. CASE UNCHANGED vars
  <2>1. UNCHANGED <<pc, reader, serial, op, arg, iface, list, found, broken,
                    kind, applet, cursor, entries, faults>>
    BY <1>2 DEF vars, sessionVars, cardVars
  <2>2. ASSUME NEW u \in Sessions PROVE ProbedInv(u)' /\ (Alone(u)' => AloneInv(u)')
    <3>1. ProbedInv(u)' <=> ProbedInv(u)
      BY <2>1 DEF ProbedInv
    <3>2. Alone(u)' <=> Alone(u)
      BY <2>1 DEF Alone
    <3>3. AppletAt(u)' /\ ScanAt(u)' <=> AppletAt(u) /\ ScanAt(u)
      BY <2>1 DEF AppletAt, ScanAt, HasOtp
    <3>4. ListAt(u)' /\ FoundAt(u)' <=> ListAt(u) /\ FoundAt(u)
      BY <2>1 DEF ListAt, FoundAt
    <3>5. FailureAt(u)' <=> FailureAt(u)
      BY <2>1 DEF FailureAt, MayFail, Refused, HasOtp
    <3> QED  BY <1>0, <2>1, <3>1, <3>2, <3>3, <3>4, <3>5 DEF AloneInv
  <2> QED  BY <1>0, <2>2 DEF AInv
<1> QED  BY <1>1, <1>2 DEF Next, Done

\* The invariant of sessions alone holds in every state.
THEOREM AloneIndInv == Spec => []AInv
<1>1. Init => AInv
  BY InitAlone
<1>2. AInv /\ [Next]_vars => AInv'
  BY NextAlone
<1> QED  BY <1>1, <1>2, PTL DEF Spec

-----------------------------------------------------------------------------
(* What it means for a session that has the readers for itself. *)

\* Every command of the OTP applet finds it selected on a key that answers
\* READ_SERIAL, in any state that at most one failed exchange led to: the probe
\* and READ_SERIAL leave the card as their docs say.
THEOREM CommandsFindTheirApplet == Spec => []OnOtpApplet
<1>1. AInv => OnOtpApplet
  <2> SUFFICES ASSUME AInv, NEW t \in Sessions, Alone(t), faults <= 1,
                      pc[t] \in OtpSteps, kind[reader[t]] = "token2"
               PROVE  applet[reader[t]] = "OTP"
    BY DEF OnOtpApplet
  <2>1. AppletAt(t) /\ faults \in 0..MaxFaults
    BY DEF AInv, AloneInv, IInv, TypeOK
  <2>2. ~(faults > 1)
    BY <2>1, PcscAssumption
  <2> QED  BY <2>1, <2>2 DEF AppletAt
<1> QED  BY <1>1, AloneIndInv, PTL

\* Over a sound link a session that is alone passes over no key it should have
\* opened, in either scan and for any number of readers.
THEOREM FirstKeyIsOpened == Spec => []OpensFirstKeyAlone
<1>1. AInv => OpensFirstKeyAlone
  <2> SUFFICES ASSUME AInv, NEW t \in Sessions, Alone(t), faults = 0, Opened(t), iface[t] # "Named"
               PROVE  \A r \in 1..reader[t] - 1 : kind[r] # "token2"
    BY DEF OpensFirstKeyAlone, FirstKey
  <2>1. ScanAt(t) /\ SessionTypes
    BY TypeOKIff DEF AInv, AloneInv, IInv
  <2>2. \A r \in 1..reader[t] - 1 : r \in Readers
    BY <2>1, AloneTypes DEF Readers
  <2> QED  BY <2>1, <2>2 DEF ScanAt, Opened
<1> QED  BY <1>1, AloneIndInv, PTL

\* discover() names only readers whose card gave a serial number, whatever other
\* sessions do; alone and over a sound link it names them all.
THEOREM DiscoveryIsExact == Spec => []DiscoversKeys
<1>1. AInv => DiscoversKeys
  <2> SUFFICES ASSUME AInv, NEW t \in Sessions, op[t] = "readers"
               PROVE  /\ \A r \in found[t] : kind[r] = "token2"
                      /\ pc[t] = "ok" /\ Alone(t) /\ faults = 0 =>
                           found[t] = {r \in Readers : kind[r] = "token2"}
    BY DEF DiscoversKeys
  <2> QED  BY DEF AInv, ProbedInv, AloneInv, FoundAt
<1> QED  BY <1>1, AloneIndInv, PTL

\* A session that is alone, over a sound link, fails only if there is no key to
\* find or the key refuses the command.
THEOREM FailuresHaveReasons == Spec => []FailsForAReason
<1>1. AInv => FailsForAReason
  BY DEF AInv, AloneInv, FailureAt, FailsForAReason
<1> QED  BY <1>1, AloneIndInv, PTL

-----------------------------------------------------------------------------
(* Lists, among sessions that only read.  What another session does to the   *)
(* card that a list is read from: it leaves the cursor, or resets it, and a  *)
(* card with its cursor at 0 has no page to continue with.                   *)

Listed(t) ==
  LET e == entries[reader[t]]  c == cursor[reader[t]]
  IN /\ pc[t] \in ProbeSteps \cup SerialSteps \cup {"legacy_otp", "enum"} => list[t] = <<>>
     /\ OthersOnlyRead(t) /\ pc[t] = "continue" =>
          c = 0 \/ (c \in 1..Len(e) - 1 /\ list[t] = SubSeq(e, 1, c))
     /\ OthersOnlyRead(t) /\ pc[t] = "ok" /\ op[t] \in {"load", "list"} => list[t] = e

ListInv == IInv /\ \A t \in Sessions : Listed(t)

(* What a session leaves to the others: their lists, and the cursors. *)
Leaves(t) ==
  /\ \A u \in Sessions \ {t} : list'[u] = list[u]
  /\ op[t] \notin {"load", "list"} => \A r \in Readers : cursor'[r] \in {0, cursor[r]}

LEMMA SelectLeaves ==
  ASSUME NEW t \in Sessions, NEW r \in Readers, NEW a, CardTypes, Select(r, a), list' = list
  PROVE  Leaves(t)
BY DEF Select, CardTypes, Leaves

LEMMA ReturnLeaves ==
  ASSUME NEW t \in Sessions, NEW step, SessionTypes, CardTypes, Return(t, step),
         \A u \in Sessions \ {t} : list'[u] = list[u]
  PROVE  Leaves(t)
BY DEF Return, Drop, SessionTypes, CardTypes, Leaves

LEMMA StepLeaves ==
  ASSUME NEW t \in Sessions, SessionTypes, CardTypes, LocalInv(t),
         Step(t) \/ Reset(t) \/ Fault(t)
  PROVE  Leaves(t)
<1>0. reader[t] \in Readers
  BY DEF SessionTypes
<1>1. ASSUME TryNext(t) PROVE Leaves(t)
  BY <1>1 DEF TryNext, NextReader, cardVars, Leaves
<1>2. CASE Open(t) \/ ReadSerial(t)
  <2>1. CASE Select(reader[t], "OTP") /\ list' = list
    BY <1>0, <2>1, SelectLeaves
  <2>2. CASE Select(reader[t], "FIDO") /\ list' = list
    BY <1>0, <2>2, SelectLeaves
  <2>3. CASE UNCHANGED <<list, cardVars>>
    BY <2>3 DEF cardVars, Leaves
  <2>4. CASE TryNext(t)
    BY <1>1, <2>4
  <2> QED  BY <1>2, <2>1, <2>2, <2>3, <2>4
           DEF Open, ProbeOtp, ProbeFido, ProbeSerial, ProbeAgain, LegacyOtp, NextReader,
               ReadSerial, SerialFido, SerialRead, SerialRestore
<1>3. ASSUME NEW from, Serve(t, from), op[t] \in {"load", "list"} PROVE Leaves(t)
  BY <1>3 DEF Serve, Leaves, SessionTypes
<1>4. ASSUME NEW step \in {"ok", "err"}, Return(t, step),
             \A u \in Sessions \ {t} : list'[u] = list[u]
      PROVE  Leaves(t)
  BY <1>4, ReturnLeaves
<1>5. CASE Operate(t)
  <2>1. CASE WrongApplet(t)
    BY <1>4, <2>1 DEF WrongApplet, ReturnErr
  <2>2. CASE Enumerate(t)
    BY <1>3, <2>2 DEF Enumerate, OtpCommand, AtStep, LocalInv, PathAt
  <2>3. CASE EnumContinue(t)
    <3>1. op[t] \in {"load", "list"}
      BY <2>3 DEF EnumContinue, OtpCommand, AtStep, LocalInv, PathAt
    <3> QED  BY <1>3, <1>4, <2>3, <3>1 DEF EnumContinue
  <2>4. CASE ReadConfig(t)
    BY <1>4, <2>4 DEF ReadConfig
  <2>5. CASE ReadEntry(t)
    BY <1>4, <2>5 DEF ReadEntry, SessionTypes
  <2>6. CASE Seal(t)
    BY <2>6 DEF Seal, cardVars, Leaves
  <2>7. CASE Write(t)
    BY <1>4, <2>7 DEF Write
  <2> QED  BY <1>5, <2>1, <2>2, <2>3, <2>4, <2>5, <2>6, <2>7 DEF Operate
<1>6. CASE FailedExchange(t)
  <2>1. CASE UNCHANGED <<list, cardVars>>
    BY <2>1 DEF cardVars, Leaves
  <2>2. CASE ReturnErr(t) /\ list' = list
    BY <1>4, <2>2 DEF ReturnErr
  <2> QED  BY <1>1, <1>6, <2>1, <2>2 DEF FailedExchange
<1>7. CASE LostAnswer(t)
  BY <1>4, <1>7 DEF LostAnswer
<1> QED  BY <1>2, <1>5, <1>6, <1>7 DEF Step, Reset, Fault

(* What a session's own step makes of its list.  Only Serve adds to it or   *)
(* completes it.                                                            *)
LEMMA ServeLists ==
  ASSUME NEW t \in Sessions, NEW from \in Nat, SessionTypes, CardTypes, Serve(t, from),
         from <= Len(entries[reader[t]]),
         OthersOnlyRead(t) => list[t] = SubSeq(entries[reader[t]], 1, from)
  PROVE  Listed(t)'
<1> DEFINE r == reader[t]  e == entries[r]  last == PageEnd(r, from)
<1>1. /\ r \in Readers /\ reader' = reader /\ op' = op /\ entries' = entries
      /\ pc' = [pc EXCEPT ![t] = IF MorePages(r, from) THEN "continue" ELSE "ok"]
  BY DEF Serve, Goto, Keep, Return, SessionTypes
<1>2. OthersOnlyRead(t)' => OthersOnlyRead(t)
  BY <1>1 DEF OthersOnlyRead, SessionTypes
<1>3. OthersOnlyRead(t) =>
        IF MorePages(r, from)
        THEN last \in 1..Len(e) - 1 /\ list'[t] = SubSeq(e, 1, last)
        ELSE list'[t] = e
  BY PageFollows
<1>4. MorePages(r, from) => cursor'[r] = last
  BY <1>1 DEF Serve, CardTypes
<1> HIDE DEF last
<1>5. pc'[t] = IF MorePages(r, from) THEN "continue" ELSE "ok"
  BY <1>1 DEF SessionTypes
<1> QED  BY <1>1, <1>2, <1>3, <1>4, <1>5 DEF Listed, ProbeSteps, SerialSteps

LEMMA ScanLists ==
  ASSUME NEW t \in Sessions, SessionTypes, list[t] = <<>>, NextReader(t), list' = list
  PROVE  Listed(t)'
<1>1. pc'[t] \in {"probe_otp", "legacy_otp", "ok", "err"} /\ (pc'[t] = "ok" => op'[t] = "readers")
  BY DEF NextReader, Goto, SessionTypes
<1> QED  BY <1>1 DEF Listed

LEMMA StepLists ==
  ASSUME NEW t \in Sessions, SessionTypes, CardTypes, LocalInv(t), Listed(t),
         Step(t) \/ Reset(t) \/ Fault(t)
  PROVE  Listed(t)'
<1> DEFINE r == reader[t]
           Earlier == pc[t] \in ProbeSteps \cup SerialSteps \cup {"legacy_otp", "enum"}
<1>0. /\ Earlier => list[t] = <<>>
      /\ entries[r] \in Seq(Profiles) /\ Len(entries[r]) \in Nat
  <2>1. entries[r] \in Stored
    BY DEF SessionTypes, CardTypes
  <2> QED  BY <2>1, StoredProperties DEF Listed
<1>1. ASSUME Earlier, NEW step \in Steps \ {"continue", "ok"}, Goto(t, step), list' = list
      PROVE  Listed(t)'
  BY <1>0, <1>1 DEF Listed, Goto, SessionTypes
<1>2. ASSUME NEW step \in {"ok", "err"}, Return(t, step), step = "ok" => op[t] \notin {"load", "list"}
      PROVE  Listed(t)'
  <2>1. pc'[t] = step /\ op' = op
    BY <1>2 DEF Return, Goto, SessionTypes
  <2> QED  BY <1>2, <2>1 DEF Listed, ProbeSteps, SerialSteps
<1>3. ASSUME ReturnErr(t), pc[t] \in OtpSteps PROVE Listed(t)'
  <2>1. pc[t] = "config" => op[t] \notin {"load", "list"}
    BY DEF LocalInv, PathAt
  <2> QED  BY <1>2, <1>3, <2>1 DEF ReturnErr
<1>4. ASSUME TryNext(t), Earlier PROVE Listed(t)'
  BY <1>0, <1>4, ScanLists DEF TryNext, NextReader
<1>5. \A known \in BOOLEAN :
        op[t] # "readers" => FirstStep(t, known) \in Steps \ {"continue", "ok"}
  <2> SUFFICES ASSUME NEW known \in BOOLEAN, op[t] # "readers"
               PROVE  FirstStep(t, known) \in Steps \ {"continue", "ok"}
    OBVIOUS
  <2>1. op[t] \in AllOps \ {"readers"}
    BY PcscAssumption DEF SessionTypes
  <2> QED  BY <2>1 DEF FirstStep, AfterSerial, AllOps, Steps, SerialSteps, OtpSteps
<1>6. /\ AfterSerial(t) \in Steps \ {"continue", "ok"}
      /\ {"probe_fido", "probe_serial", "probe_again", "serial_read", "serial_restore"}
           \subseteq Steps \ {"continue", "ok"}
  BY DEF AfterSerial, Steps, ProbeSteps, SerialSteps, OtpSteps
<1>7. CASE Open(t)
  <2>1. Earlier
    BY <1>7 DEF Open, ProbeOtp, ProbeFido, ProbeSerial, ProbeAgain, LegacyOtp, AtStep, ProbeSteps
  <2>2. CASE ProbeOtp(t) \/ ProbeFido(t) \/ ProbeSerial(t)
    BY <1>1, <1>4, <1>6, <2>1, <2>2 DEF ProbeOtp, ProbeFido, ProbeSerial
  <2>3. CASE ProbeAgain(t)
    <3>1. CASE op[t] = "readers"
      BY <1>0, <2>1, <2>3, <3>1, ScanLists DEF ProbeAgain, NextReader
    <3>2. CASE op[t] # "readers"
      BY <1>1, <1>5, <2>1, <2>3, <3>2 DEF ProbeAgain
    <3> QED  BY <3>1, <3>2
  <2>4. CASE LegacyOtp(t)
    <3>1. op[t] # "readers"
      BY <2>4 DEF LegacyOtp, AtStep, LocalInv, PathAt
    <3> QED  BY <1>1, <1>4, <1>5, <2>1, <2>4, <3>1 DEF LegacyOtp
  <2> QED  BY <1>7, <2>2, <2>3, <2>4 DEF Open
<1>8. CASE ReadSerial(t)
  <2>1. Earlier
    BY <1>8 DEF ReadSerial, SerialFido, SerialRead, SerialRestore, AtStep, SerialSteps
  <2> QED  BY <1>1, <1>6, <1>8, <2>1 DEF ReadSerial, SerialFido, SerialRead, SerialRestore
<1>9. CASE Operate(t)
  <2>1. CASE WrongApplet(t)
    BY <1>3, <2>1 DEF WrongApplet
  <2>2. CASE Enumerate(t)
    <3>1. Earlier /\ Serve(t, 0) /\ 0 \in Nat /\ 0 <= Len(entries[r])
      BY <1>0, <2>2 DEF Enumerate, OtpCommand, AtStep
    <3>2. list[t] = SubSeq(entries[r], 1, 0)
      <4>1. SubSeq(entries[r], 1, 0) = <<>>
        BY SubSeqEmpty
      <4> QED  BY <1>0, <3>1, <4>1
    <3> QED  BY <3>1, <3>2, ServeLists
  <2>3. CASE EnumContinue(t)
    <3> DEFINE c == cursor[r]
    <3>1. pc[t] = "continue" /\ (c \in 1..Len(entries[r]) - 1 => Serve(t, c))
      BY <2>3 DEF EnumContinue, OtpCommand, AtStep
    <3>2. CASE c \in 1..Len(entries[r]) - 1
      <4>1. c \in Nat /\ c # 0 /\ c <= Len(entries[r])
        BY <1>0, <3>2
      <4>2. OthersOnlyRead(t) => list[t] = SubSeq(entries[r], 1, c)
        BY <3>1, <4>1 DEF Listed
      <4> QED  BY <3>1, <3>2, <4>1, <4>2, ServeLists
    <3>3. CASE c \notin 1..Len(entries[r]) - 1
      BY <1>2, <2>3, <3>3 DEF EnumContinue
    <3> QED  BY <3>2, <3>3
  <2>4. CASE ReadConfig(t) \/ ReadEntry(t) \/ Write(t)
    <3>1. op[t] \notin {"load", "list"}
      BY <2>4 DEF ReadConfig, ReadEntry, Write, OtpCommand, AtStep, LocalInv, PathAt
    <3> QED  BY <1>2, <2>4, <3>1 DEF ReadConfig, ReadEntry, Write
  <2>5. CASE Seal(t)
    <3>1. pc'[t] = "write_seed"
      BY <2>5 DEF Seal, Goto, SessionTypes
    <3> QED  BY <3>1 DEF Listed, ProbeSteps, SerialSteps
  <2> QED  BY <1>9, <2>1, <2>2, <2>3, <2>4, <2>5 DEF Operate
<1>10. CASE FailedExchange(t)
  <2>1. CASE /\ pc[t] \in {"probe_otp", "probe_serial", "probe_again", "legacy_otp"}
             /\ TryNext(t)
    BY <1>4, <2>1 DEF ProbeSteps
  <2>2. CASE /\ pc[t] \in {"probe_fido", "serial_fido", "serial_read", "serial_restore"}
             /\ Goto(t, ToleratedStep(t)) /\ Keep /\ UNCHANGED <<serial, list, cardVars>>
    <3>1. Earlier /\ ToleratedStep(t) \in Steps \ {"continue", "ok"}
      BY <1>6, <2>2 DEF ToleratedStep, ProbeSteps, SerialSteps
    <3> QED  BY <1>1, <2>2, <3>1
  <2>3. CASE pc[t] \in OtpSteps /\ ReturnErr(t)
    BY <1>3, <2>3
  <2> QED  BY <1>10, <2>1, <2>2, <2>3 DEF FailedExchange
<1>11. CASE LostAnswer(t)
  BY <1>2, <1>11 DEF LostAnswer
<1> QED  BY <1>7, <1>8, <1>9, <1>10, <1>11 DEF Step, Reset, Fault

LEMMA InitLists == Init => ListInv
<1>1. Init => \A t \in Sessions : list[t] = <<>> /\ pc[t] \in {"off", "probe_otp"}
  BY DEF Init
<1> QED  BY <1>1, InitInv DEF ListInv, Listed

LEMMA NextLists == ListInv /\ [Next]_vars => ListInv'
<1> SUFFICES ASSUME ListInv, [Next]_vars PROVE ListInv'
  OBVIOUS
<1>0. /\ IInv' /\ SessionTypes /\ CardTypes
      /\ \A u \in Sessions : LocalInv(u) /\ Listed(u)
  BY NextInv, TypeOKIff DEF ListInv, IInv
<1>1. ASSUME NEW t \in Sessions, Step(t) \/ Reset(t) \/ Fault(t) PROVE ListInv'
  <2>1. Moves(t) /\ Leaves(t) /\ Listed(t)'
    <3>1. StepInv(t)
      BY <1>0, <1>1, OpenInv, ReadSerialInv, OperateInv, FailedInv, LostAnswerInv
      DEF Step, Reset, Fault
    <3> QED  BY <1>0, <1>1, <3>1, StepLeaves, StepLists DEF StepInv, StepDone
  <2>2. ASSUME NEW u \in Sessions, u # t PROVE Listed(u)'
    <3>1. /\ pc'[u] = pc[u] /\ reader'[u] = reader[u] /\ op' = op /\ list'[u] = list[u]
          /\ reader[u] \in Readers
      BY <1>0, <2>1, <2>2 DEF Moves, Leaves, SessionTypes
    <3>2. OthersOnlyRead(u)' => OthersOnlyRead(u)
      BY <2>1, <2>2 DEF OthersOnlyRead, Moves
    <3>3. OthersOnlyRead(u) => op[t] \in {"info", "read", "readers"}
      BY <2>1, <2>2 DEF OthersOnlyRead, Moves
    <3>4. OthersOnlyRead(u) => entries' = entries /\ cursor'[reader[u]] \in {0, cursor[reader[u]]}
      BY <2>1, <3>1, <3>3 DEF Moves, Wrote, Writing, Leaves
    <3> QED  BY <1>0, <3>1, <3>2, <3>4 DEF Listed
  <2> QED  BY <1>0, <2>1, <2>2 DEF ListInv
<1>2. CASE UNCHANGED vars
  <2>1. UNCHANGED <<pc, reader, op, list, cursor, entries>>
    BY <1>2 DEF vars, sessionVars, cardVars
  <2> QED  BY <1>0, <2>1 DEF ListInv, Listed, OthersOnlyRead
<1> QED  BY <1>1, <1>2 DEF Next, Done

\* A list that is returned holds every entry the key stores, for any page size,
\* any number of sessions that probe, read or come and go meanwhile, and whatever
\* exchanges fail on the way.
THEOREM ListsAreComplete == Spec => []ListIsComplete
<1>1. Init => ListInv
  BY InitLists
<1>2. ListInv /\ [Next]_vars => ListInv'
  BY NextLists
<1>3. ListInv => ListIsComplete
  BY DEF ListInv, Listed, ListIsComplete
<1> QED  BY <1>1, <1>2, <1>3, PTL DEF Spec

=============================================================================
