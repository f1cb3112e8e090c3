-------------------------------- MODULE Apdu --------------------------------
(***************************************************************************)
(* Command APDUs (src/src/proto.rs) as sequences of bytes, and how a card   *)
(* cuts one up by its length, which is ISO 7816-4's and external.           *)
(***************************************************************************)
EXTENDS Naturals, Sequences

Byte == 0..255
U16(n) == <<n \div 256, n % 256>>

\* CLA INS P1 P2
GET_ECDH_PUBKEY     == <<128, 197, 1, 0>>
READ_CONFIG         == <<128, 197, 2, 0>>
ENUM_CODES          == <<128, 197, 5, 0>>
ENUM_CODES_CONTINUE == <<128, 197, 5, 1>>
WRITE_SEED          == <<128, 197, 5, 2>>
READ_SERIAL_INS     == <<128, 51, 0, 0>>
SELECT_BY_NAME      == <<0, 164, 4, 0>>
GET_RESPONSE_INS    == 192

\* Extended length; an empty body leaves only the header.
BuildApdu(header, data) ==
  IF data = <<>> THEN header ELSE header \o <<0>> \o U16(Len(data)) \o data

BuildSelect(aid)   == SELECT_BY_NAME \o <<Len(aid)>> \o aid
GetEcdhPubkey      == GET_ECDH_PUBKEY \o <<0>>
ReadConfig(n)      == READ_CONFIG \o <<IF n < 1 THEN 1 ELSE IF n > 64 THEN 64 ELSE n>>
GetResponse(le)    == <<0, GET_RESPONSE_INS, 0, 0, le>>
IsGetResponse(apdu) == apdu[2] = GET_RESPONSE_INS

-----------------------------------------------------------------------------
(* The card's reading of an APDU: a header, then by the length of the whole   *)
(* nothing, Le, a counted body, or a counted body and Le.                     *)

IsExtended(apdu) == Len(apdu) >= 7 /\ apdu[5] = 0
BodyStart(apdu)  == IF IsExtended(apdu) THEN 8 ELSE 6
BodyLen(apdu)    == CASE Len(apdu) <= 5 -> 0
                      [] Len(apdu) > 5 /\ IsExtended(apdu) -> apdu[6] * 256 + apdu[7]
                      [] OTHER -> apdu[5]

IsApdu(apdu) ==
  \/ Len(apdu) \in {4, 5}
  \/ Len(apdu) = 7 /\ IsExtended(apdu)  \* a header and an extended Le
  \/ /\ Len(apdu) > 5 /\ BodyLen(apdu) > 0
     /\ Len(apdu) - (BodyStart(apdu) - 1 + BodyLen(apdu)) \in
          (IF IsExtended(apdu) THEN {0, 2} ELSE {0, 1})

Header(apdu) == SubSeq(apdu, 1, 4)
Body(apdu)   == IF Len(apdu) <= 5 THEN <<>>
                ELSE SubSeq(apdu, BodyStart(apdu), BodyStart(apdu) - 1 + BodyLen(apdu))

=============================================================================
