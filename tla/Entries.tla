------------------------------- MODULE Entries ------------------------------
(***************************************************************************)
(* The applet's records (src/src/entry.rs): the serializers of what is      *)
(* written, deleted and asked for, and the parsers of the pages and entries *)
(* that come back.  Text is a sequence of bytes.  Entries follow each other *)
(* without a length or a mark between them; where one ends depends on its   *)
(* type and its button flag.  A parser's errors are one error here.         *)
(***************************************************************************)
EXTENDS Apdu, SequencesExt

CONSTANTS
  MaxText,  \* the longest name; 64 in the code
  MaxSeed   \* the longest seed; 64 in the code

ASSUME EntriesAssumption == MaxText \in 1..255 /\ MaxSeed \in 1..255

IsAscii(text) == \A i \in DOMAIN text : text[i] < 128

\* OtpType::to_byte, Algorithm::to_byte and their inverses
TypeByte == [Hotp |-> 0, Totp |-> 1]
AlgorithmByte == [Sha1 |-> 193, Sha256 |-> 194]
Named(bytes, b) == CHOOSE name \in DOMAIN bytes : bytes[name] = b
BoolByte(b) == IF b THEN 1 ELSE 0

\* A byte with the length, and the text.
Counted8(text) == <<Len(text) % 256>> \o text

Invalid == [ok |-> FALSE]
Valid(v) == [ok |-> TRUE, value |-> v]

-----------------------------------------------------------------------------
(* The secret the user gives (src/src/proto.rs), in base 32.  A letter of     *)
(* either case, or a digit, is its value here.                                *)

Letters == 0..31
Blank   == 32
Pad     == 33  \* "="; any other character is above it

\* Mutant: a byte is taken only when there are more bits than it needs.
TakeLetterLate(s, letter) ==
  LET buffer == (s.buffer * 32 + letter) % 4096  bits == s.bits + 5
  IN IF bits <= 8 THEN [s EXCEPT !.buffer = buffer, !.bits = bits]
     ELSE [buffer |-> buffer, bits |-> bits - 8,
           out |-> Append(s.out, (buffer \div 2^(bits - 8)) % 256)]

\* One turn of base32_decode; the buffer's bits above the twelfth are never read.
TakeLetter(s, letter) ==
  LET buffer == (s.buffer * 32 + letter) % 4096  bits == s.bits + 5
  IN IF bits < 8 THEN [s EXCEPT !.buffer = buffer, !.bits = bits]
     ELSE [buffer |-> buffer, bits |-> bits - 8,
           out |-> Append(s.out, (buffer \div 2^(bits - 8)) % 256)]

Base32Decode(text) == FoldLeft(TakeLetter, [buffer |-> 0, bits |-> 0, out |-> <<>>], text).out

\* The elements of text that are in S (SelectSeq, in a form the provers know).
Kept(text, S) == FlattenSeq([i \in DOMAIN text |-> IF text[i] \in S THEN <<text[i]>> ELSE <<>>])

WithoutTrailing(text, c) ==
  SubSeq(text, 1, Max({0} \cup {i \in DOMAIN text : text[i] # c}))

DecodeBase32Seed(text) ==
  LET trimmed == WithoutTrailing(Kept(text, Nat \ {Blank}), Pad)
      seed    == Base32Decode(trimmed)
  IN IF (\A i \in DOMAIN trimmed : trimmed[i] \in Letters) /\ Len(seed) \in 1..MaxSeed
     THEN Valid(seed) ELSE Invalid

-----------------------------------------------------------------------------
(* What the host sends *)

ValidNames(app, account) ==
  /\ IsAscii(app) /\ Len(app) <= MaxText
  /\ IsAscii(account) /\ Len(account) \in 1..MaxText

\* validate_common and the check of the seed
ValidWrite(e) ==
  /\ e.otp_type = "Totp" => e.timestep # 0
  /\ e.code_length \in 4..10
  /\ ValidNames(e.app_name, e.account_name)
  /\ Len(e.seed) \in 1..MaxSeed

SerializeWriteEntry(e) ==
  IF ~ValidWrite(e) THEN Invalid
  ELSE Valid(<<TypeByte[e.otp_type], AlgorithmByte[e.algorithm]>> \o U16(e.timestep)
             \o <<e.code_length, BoolByte(e.button_required)>>
             \o Counted8(e.app_name) \o Counted8(e.account_name) \o Counted8(e.seed))

SerializeDeleteEntry(app, account) ==
  IF ~ValidNames(app, account) THEN Invalid
  ELSE Valid(<<0, 0, 0, 0, 0, 0>> \o Counted8(app) \o Counted8(account) \o <<0>>)

SUB_READ_ONE == 1
SUB_READ_ALL == 3
U64(n) == <<0, 0, 0, 0, 0, 0>> \o U16(n)

SerializeReadEntry(timestamp, app, account) ==
  IF ~ValidNames(app, account) THEN Invalid
  ELSE Valid(<<SUB_READ_ONE>> \o U64(timestamp) \o Counted8(app) \o Counted8(account))

SerializeEnumAll(timestamp) == <<SUB_READ_ALL>> \o U64(timestamp)

-----------------------------------------------------------------------------
(* What the host reads: a text whose length is the byte at p, and an entry    *)
(* that begins at p, of a stream of bytes.                                    *)

TextFits(stream, p) ==
  /\ p <= Len(stream) /\ p + stream[p] <= Len(stream)
  /\ IsAscii(SubSeq(stream, p + 1, p + stream[p]))
Text(stream, p)    == SubSeq(stream, p + 1, p + stream[p])
TextEnd(stream, p) == p + stream[p] + 1

\* Mutant: the button flag is not looked at.
HasCodeIfTotp(type, button, force_code) == force_code \/ type = TypeByte.Totp

HasCode(type, button, force_code) == force_code \/ (type = TypeByte.Totp /\ button = 0)

AppAt(p)             == p + 6
AccountAt(stream, p) == TextEnd(stream, AppAt(p))
CodeAt(stream, p)    == TextEnd(stream, AccountAt(stream, p))

IsEntry(stream, p, force_code) ==
  /\ p + 6 <= Len(stream)
  /\ stream[p] \in {0, 1} /\ stream[p + 1] \in {193, 194} /\ stream[p + 5] \in {0, 1}
  /\ TextFits(stream, AppAt(p)) /\ TextFits(stream, AccountAt(stream, p))
  /\ stream[AccountAt(stream, p)] # 0
  /\ HasCode(stream[p], stream[p + 5], force_code) => TextFits(stream, CodeAt(stream, p))

NoCode == <<>>
ParseOneEntry(stream, p, force_code) ==
  [otp_type        |-> Named(TypeByte, stream[p]),
   algorithm       |-> Named(AlgorithmByte, stream[p + 1]),
   timestep        |-> stream[p + 2] * 256 + stream[p + 3],
   code_length     |-> stream[p + 4],
   button_required |-> stream[p + 5] = 1,
   app_name        |-> Text(stream, AppAt(p)),
   account_name    |-> Text(stream, AccountAt(stream, p)),
   code            |-> IF HasCode(stream[p], stream[p + 5], force_code)
                       THEN <<Text(stream, CodeAt(stream, p))>> ELSE NoCode]

EntryEnd(stream, p, force_code) ==
  IF HasCode(stream[p], stream[p + 5], force_code)
  THEN TextEnd(stream, CodeAt(stream, p)) ELSE CodeAt(stream, p)

\* Bytes after the entry are not looked at, nor whether it is the one asked for.
ParseReadOne(data) ==
  IF IsEntry(data, 1, TRUE) THEN Valid(ParseOneEntry(data, 1, TRUE)) ELSE Invalid

\* The entries from p to the end of the stream.
EntriesFrom(stream) ==
  LET Rest[p \in 1..Len(stream) + 1] ==
        IF p > Len(stream) THEN Valid(<<>>)
        ELSE IF ~IsEntry(stream, p, FALSE) THEN Invalid
        ELSE LET rest == Rest[EntryEnd(stream, p, FALSE)]
             IN IF rest.ok THEN Valid(<<ParseOneEntry(stream, p, FALSE)>> \o rest.value)
                ELSE Invalid
  IN Rest

\* The high bit of the first byte says that more pages follow; without it the
\* byte is the first entry's type.
ParseEnumPage(data) ==
  IF data = <<>> THEN Invalid
  ELSE LET entries == EntriesFrom(<<data[1] % 128>> \o Tail(data))[1]
       IN IF entries.ok THEN Valid([entries |-> entries.value, more_pages |-> data[1] >= 128])
          ELSE Invalid

-----------------------------------------------------------------------------
(* The serial number (src/src/proto.rs): D1, a length, the digits of a number *)
(* in hexadecimal, as ASCII.                                                  *)

HexNibble(c) == CASE c \in 48..57  -> c - 48
                  [] c \in 97..102 -> c - 97 + 10
                  [] c \in 65..70  -> c - 65 + 10
IsHex(c) == c \in 48..57 \cup 97..102 \cup 65..70

DecodeAsciiHex(digits) ==
  IF Len(digits) % 2 # 0 \/ \E i \in DOMAIN digits : ~IsHex(digits[i]) THEN Invalid
  ELSE Valid([i \in 1..Len(digits) \div 2 |-> HexNibble(digits[2*i - 1]) * 16 + HexNibble(digits[2*i])])

ParseSerial(data) ==
  IF Len(data) < 2 \/ data[1] # 209 \/ 2 + data[2] > Len(data) THEN Invalid
  ELSE DecodeAsciiHex(SubSeq(data, 3, 2 + data[2]))

\* DeviceInfo::parse and has_config_byte: bytes that are missing are 0.
ParseDeviceInfo(data) ==
  IF data = <<>> THEN Invalid
  ELSE Valid([bytes |-> [i \in 1..10 |-> IF i <= Len(data) THEN data[i] ELSE 0],
              has_config_byte |-> Len(data) >= 2])

=============================================================================
