------------------------------ MODULE MCApplet ------------------------------
(* Instances of Applet for TLC.  Texts are made of bytes that look like the    *)
(* fields around them (a type, a flag, a length); a time step has them too.    *)
EXTENDS Applet

Texts == {<<>>, <<1>>, <<1, 0>>, <<1, 0, 1>>, <<200>>}
Short == {<<>>, <<1>>}

\* Rejected: nothing, too few bits, a pad inside, a sign that is no letter, six
\* bytes.  Decoded: one byte with bits to spare, two with blanks and pads, five.
Secrets ==
  {<<>>, <<24>>, <<24, Pad, 7>>, <<24, 40>>, <<1, 2, 3, 4, 5, 6, 7, 8, 9, 10>>,
   <<24, 7>>, <<0, 3, Blank, 31, 16, Pad, Pad>>, <<31, 0, 10, 21, 1, 2, 30, 3>>}
WriteRequests ==
  [kind : {"write"}, secret : Secrets,
   entry : [otp_type : {"Totp"}, algorithm : {"Sha1", "Sha256"}, timestep : {0, 449},
            code_length : {3, 6}, button_required : BOOLEAN, app_name : Texts,
            account_name : Texts]]
NamedRequests == [kind : {"read", "delete"}, app_name : Texts, account_name : Texts]
MCRequests == WriteRequests \cup NamedRequests \cup
  [kind : {"select", "serial", "config", "pubkey", "enum", "continue", "erase"}]

EntriesOf(codes(_, _)) ==
  UNION {[otp_type : {type}, algorithm : {"Sha1"}, timestep : {449}, code_length : {1},
          button_required : {button}, app_name : Short, account_name : {<<1>>, <<0, 1>>},
          code : codes(type, button)] : type \in {"Hotp", "Totp"}, button \in BOOLEAN}
\* A page has the code of a TOTP entry without the button flag; a read always has it.
PageEntries == EntriesOf(LAMBDA type, button : IF type = "Totp" /\ ~button THEN {<<<<49>>>>} ELSE {NoCode})
ReadEntries == EntriesOf(LAMBDA type, button : {<<<<49>>>>, <<<<>>>>})
Pages == [entries : SeqOf(PageEntries, 2), more_pages : BOOLEAN]

MCContents(q) ==
  CASE q.kind \in {"enum", "continue"} -> Pages
    [] q.kind = "read"   -> ReadEntries
    [] q.kind = "serial" -> {<<>>, <<18>>, <<10, 171, 255>>}
    [] q.kind = "config" -> {<<>>, <<2>>, <<2, 255, 1>>}
    [] q.kind = "pubkey" -> {<<7, 7>>}
    [] OTHER             -> {<<>>}
=============================================================================
