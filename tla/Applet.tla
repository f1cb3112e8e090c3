------------------------------- MODULE Applet -------------------------------
(***************************************************************************)
(* One command of OtpSession over PC/SC (src/src/transport.rs), from the    *)
(* request to the value its caller gets: the builders of Apdu and Entries   *)
(* make the command, raw_transmit carries it, and the parsers read the      *)
(* reply.  The key is external: how it reads a command, and how it writes   *)
(* down what it has to say, which is its content here.                      *)
(***************************************************************************)
EXTENDS RawTransmit, Entries

CONSTANTS
  Requests,    \* what the callers of a session may ask for
  Contents(_)  \* what the key may have to say to a request

\* What the callers' types allow, and what the key's records can hold: a text is
\* counted by one byte, an account has a name, and a code comes with an entry
\* asked for by name, and on a page with a TOTP entry that needs no touch.
Word == 0..65535
EntrySet ==
  [otp_type : {"Hotp", "Totp"}, algorithm : {"Sha1", "Sha256"}, timestep : Word,
   code_length : Byte, button_required : BOOLEAN, app_name : Seq(Byte), account_name : Seq(Byte)]
BareKinds  == {"select", "serial", "config", "pubkey", "enum", "continue", "erase"}
RequestSet ==
  [kind : BareKinds] \cup [kind : {"read", "delete"}, app_name : Seq(Byte), account_name : Seq(Byte)]
  \cup [kind : {"write"}, secret : Seq(Nat), entry : EntrySet]

KeyText  == {text \in Seq(0..127) : Len(text) <= 255}
KeyEntry ==
  [otp_type : {"Hotp", "Totp"}, algorithm : {"Sha1", "Sha256"},
   timestep : Word, code_length : Byte, button_required : BOOLEAN,
   app_name : KeyText, account_name : KeyText \ {<<>>},
   code : {c \in Seq(KeyText) : Len(c) <= 1}]
ShowsCode(e) == e.otp_type = "Totp" /\ ~e.button_required

ContentSet(q) ==
  CASE q.kind \in {"enum", "continue"} ->
           [entries : Seq({e \in KeyEntry : (e.code # NoCode) = ShowsCode(e)}), more_pages : BOOLEAN]
    [] q.kind = "read"   -> {e \in KeyEntry : e.code # NoCode}
    [] q.kind = "serial" -> {number \in Seq(Byte) : Len(number) <= 127}
    [] OTHER             -> Seq(Byte)

ASSUME AppletAssumption ==
  /\ Requests \subseteq RequestSet
  /\ \A q \in Requests : Contents(q) \subseteq ContentSet(q)

VARIABLES request, content

appletVars == <<vars, request, content>>

-----------------------------------------------------------------------------
(* The host's side of a request *)

OTP_APPLET_AID == <<240, 0, 0, 1, 79, 116, 112, 1>>
Now == 30  \* the time does not matter here

\* crypto::encrypt_seed_payload: the host's public key and the ciphertext, of
\* which the key recovers the clear text.
Sealed(clear)  == <<4>> \o clear
Unsealed(blob) == Tail(blob)

\* cmd_add and submit_add: the secret is decoded before a session is opened.
WithSeed(entry, seed) ==
  [field \in DOMAIN entry \cup {"seed"} |-> IF field = "seed" THEN seed ELSE entry[field]]
EntryOf(q) == WithSeed(q.entry, DecodeBase32Seed(q.secret).value)

WriteSeedOf(serialized) ==
  IF serialized.ok THEN Valid(BuildApdu(WRITE_SEED, Sealed(serialized.value))) ELSE Invalid

\* The command of a request, or the refusal of its parameters.
CommandOf(q) ==
  CASE q.kind = "select"   -> Valid(BuildSelect(OTP_APPLET_AID))
    [] q.kind = "serial"   -> Valid(BuildApdu(READ_SERIAL_INS, <<209, 16>> \o [i \in 1..16 |-> 0]))
    [] q.kind = "config"   -> Valid(ReadConfig(64))
    [] q.kind = "pubkey"   -> Valid(GetEcdhPubkey)
    [] q.kind = "enum"     -> Valid(BuildApdu(ENUM_CODES, SerializeEnumAll(Now)))
    [] q.kind = "continue" -> Valid(BuildApdu(ENUM_CODES_CONTINUE, U64(Now)))
    [] q.kind = "read"     -> LET body == SerializeReadEntry(Now, q.app_name, q.account_name)
                              IN IF body.ok THEN Valid(BuildApdu(ENUM_CODES, body.value)) ELSE Invalid
    [] q.kind = "write"    -> IF DecodeBase32Seed(q.secret).ok
                              THEN WriteSeedOf(SerializeWriteEntry(EntryOf(q))) ELSE Invalid
    [] q.kind = "delete"   -> WriteSeedOf(SerializeDeleteEntry(q.app_name, q.account_name))
    [] q.kind = "erase"    -> Valid(BuildApdu(WRITE_SEED, <<>>))

OK == 36864                   \* 9000
ENTRY_NOT_FOUND == 27264      \* 6A80
ENTRY_NOT_FOUND_ALT == 27267  \* 6A83

\* What the caller gets of a reply: enumerate reads "not found" as an empty key,
\* on its first page only.
ResultOf(q, data, status) ==
  IF q.kind = "enum" /\ status \in {ENTRY_NOT_FOUND, ENTRY_NOT_FOUND_ALT}
  THEN Valid([entries |-> <<>>, more_pages |-> FALSE])
  ELSE IF status # OK THEN Invalid
  ELSE CASE q.kind \in {"enum", "continue"} -> ParseEnumPage(data)
         [] q.kind = "read"   -> ParseReadOne(data)
         [] q.kind = "serial" -> ParseSerial(data)
         [] q.kind = "config" -> ParseDeviceInfo(data)
         [] OTHER -> Valid(<<>>)

-----------------------------------------------------------------------------
(* The key's side *)

\* The request a command is to the key.  A sealed clear text without a seed is
\* a delete, and WRITE_SEED without a body erases everything.
ReadClear(clear) ==
  LET app == 7  account == TextEnd(clear, app)  seed == TextEnd(clear, account)
  IN IF Text(clear, seed) = <<>>
     THEN [kind |-> "delete", app_name |-> Text(clear, app), account_name |-> Text(clear, account)]
     ELSE [kind |-> "write",
           entry |-> [otp_type        |-> Named(TypeByte, clear[1]),
                      algorithm       |-> Named(AlgorithmByte, clear[2]),
                      timestep        |-> clear[3] * 256 + clear[4],
                      code_length     |-> clear[5],
                      button_required |-> clear[6] = 1,
                      app_name        |-> Text(clear, app),
                      account_name    |-> Text(clear, account),
                      seed            |-> Text(clear, seed)]]

Understood(apdu) ==
  LET body == Body(apdu)
  IN CASE Header(apdu) = SELECT_BY_NAME      -> [kind |-> "select"]
       [] Header(apdu) = READ_SERIAL_INS     -> [kind |-> "serial"]
       [] Header(apdu) = READ_CONFIG         -> [kind |-> "config"]
       [] Header(apdu) = GET_ECDH_PUBKEY     -> [kind |-> "pubkey"]
       [] Header(apdu) = ENUM_CODES_CONTINUE -> [kind |-> "continue"]
       [] Header(apdu) = WRITE_SEED          -> IF body = <<>> THEN [kind |-> "erase"]
                                                ELSE ReadClear(Unsealed(body))
       [] Header(apdu) = ENUM_CODES /\ body[1] = SUB_READ_ALL -> [kind |-> "enum"]
       [] Header(apdu) = ENUM_CODES /\ body[1] = SUB_READ_ONE ->
            [kind |-> "read", app_name |-> Text(body, 10), account_name |-> Text(body, TextEnd(body, 10))]

EntryBytes(e) ==
  <<TypeByte[e.otp_type], AlgorithmByte[e.algorithm]>> \o U16(e.timestep)
  \o <<e.code_length, BoolByte(e.button_required)>>
  \o Counted8(e.app_name) \o Counted8(e.account_name)
  \o (IF e.code = NoCode THEN <<>> ELSE Counted8(e.code[1]))

PageBytes(page) ==
  LET bytes == FlattenSeq([i \in DOMAIN page.entries |-> EntryBytes(page.entries[i])])
      first == IF bytes = <<>> THEN <<0>> ELSE bytes
  IN [first EXCEPT ![1] = IF page.more_pages THEN @ + 128 ELSE @]

HexDigit(n) == IF n < 10 THEN 48 + n ELSE 65 + n - 10
HexText(number) ==
  [i \in 1..2 * Len(number) |-> HexDigit(IF i % 2 = 1 THEN number[(i + 1) \div 2] \div 16
                                                      ELSE number[i \div 2] % 16)]

\* An empty key has no first page.
ReplyOf(q, c) ==
  IF q.kind = "enum" /\ c.entries = <<>> /\ ~c.more_pages
  THEN [data |-> <<>>, sw |-> ENTRY_NOT_FOUND]
  ELSE [sw |-> OK,
        data |-> CASE q.kind \in {"enum", "continue"} -> PageBytes(c)
                   [] q.kind = "read"   -> EntryBytes(c)
                   [] q.kind = "serial" -> <<209, 2 * Len(c)>> \o HexText(c)
                   [] OTHER             -> c]

-----------------------------------------------------------------------------
AppletInit ==
  /\ request \in {q \in Requests : CommandOf(q).ok} /\ content \in Contents(request)
  /\ command = CommandOf(request).value /\ reply = ReplyOf(request, content)
  /\ Init

AppletSpec == /\ AppletInit /\ [][Next /\ UNCHANGED <<request, content>>]_appletVars
              /\ WF_appletVars(Transmit /\ UNCHANGED <<request, content>>)

-----------------------------------------------------------------------------
(* Properties *)

\* Bit k of the letters' bits, from 0 and the highest first, and the byte at k.
BitOf(letters, k) == (letters[k \div 5 + 1] \div 2^(4 - (k % 5))) % 2
ByteOf(letters, k) ==
  128 * BitOf(letters, k) + 64 * BitOf(letters, k + 1) + 32 * BitOf(letters, k + 2)
  + 16 * BitOf(letters, k + 3) + 8 * BitOf(letters, k + 4) + 4 * BitOf(letters, k + 5)
  + 2 * BitOf(letters, k + 6) + BitOf(letters, k + 7)

\* What the caller asked for, with the seed read off the secret's letters, five
\* bits each, in order; bits that do not fill a byte are dropped.
SeedOf(secret) ==
  LET letters == Kept(secret, Letters)
  IN [i \in 1..(5 * Len(letters)) \div 8 |-> ByteOf(letters, 8 * (i - 1))]

Asked == IF request.kind # "write" THEN request
         ELSE [kind |-> "write", entry |-> WithSeed(request.entry, SeedOf(request.secret))]

\* Whatever the card cuts out of what is sent, at first or after a refusal of Le,
\* is the caller's request: names and seed arrive as they were given, a write is
\* not a delete, and nothing but an erase is the bodyless WRITE_SEED ("the device
\* reads a bodyless WRITE_SEED as erase-all").
CommandIsUnderstood == pc = "loop" /\ IsCommand => Understood(to_send) = Asked

\* The caller gets what the key said: every entry of a page, with a code exactly
\* where the key gave one ("a parser that gets this branch wrong desynchronizes
\* across the rest of the page"), whether more pages follow, the serial number's
\* bytes.  A page without an entry, which is a marker byte alone, is refused.
AnswerIsRead ==
  pc = "ok" /\ executions = 1 =>
    LET result == ResultOf(request, acc, sw)
    IN CASE request.kind \in {"enum", "continue"} ->
              IF reply.sw = OK /\ content.entries = <<>> THEN ~result.ok ELSE result = Valid(content)
         [] request.kind \in {"read", "serial"} -> result = Valid(content)
         [] request.kind = "config" ->
              /\ result.ok = (content # <<>>)
              /\ result.ok => \A i \in 1..Least(10, Len(content)) : result.value.bytes[i] = content[i]
         [] OTHER -> result.ok

\* No part of a page reads as an entry that is not in it: what was received when
\* a link failed or a limit was met is refused, or is the first entries.
CutPageAddsNothing ==
  request.kind \in {"enum", "continue"} =>
    LET result == ParseEnumPage(acc)
    IN result.ok => IsPrefix(result.value.entries, content.entries)

=============================================================================
