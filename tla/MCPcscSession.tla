--------------------------- MODULE MCPcscSession ----------------------------
(* Instances of PcscSession for TLC.  Session 1 is alone, over a link that may *)
(* fail, with every kind of reader, operation and interface; or two sessions   *)
(* share the one key, and reset each other's connection.  A reader without a   *)
(* key has no entries.  The choices stand before Init, which then tests them.  *)
EXTENDS PcscSession

Two == {1, 2}
Same(x) == [t \in Sessions |-> x]

OneSession ==
  /\ pc = <<"probe_otp", "off">>
  /\ \E o \in Ops, p \in Profiles, i \in Ifaces :
       /\ o \in {"read", "write", "delete"} \/ p = CHOOSE q \in Profiles : TRUE
       /\ op = Same(o) /\ arg = Same(p) /\ iface = Same(i)
  /\ kind \in [Readers -> Kinds]
  /\ applet \in {a \in [Readers -> {"none", "FIDO"}] :
                   \A r \in Readers : kind[r] = "empty" => a[r] = "none"}

SharedOps == <<"load", "read", "write", "delete", "erase", "readers">>
TwoSessions ==
  /\ pc = <<"probe_otp", "probe_otp">>
  /\ \E i, j \in DOMAIN SharedOps :   \* the order of the two makes no difference
       i <= j /\ op = <<SharedOps[i], SharedOps[j]>>
  /\ arg \in [Sessions -> Profiles] /\ iface = Same("Auto")
  /\ \E k \in Kinds \ {"empty"} : kind = [r \in Readers |-> IF r = 1 THEN k ELSE "empty"]
  /\ applet = [r \in Readers |-> "none"]

MCInit ==
  /\ OneSession \/ TwoSessions
  /\ entries \in {e \in [Readers -> Stored] : \A r \in Readers : kind[r] = "empty" => e[r] = <<>>}
  /\ Init

MCSpec == MCInit /\ [][Next]_vars /\ Fairness
=============================================================================
