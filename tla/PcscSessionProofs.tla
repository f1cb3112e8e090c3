-------------------------- MODULE PcscSessionProofs -------------------------
(***************************************************************************)
(* Proofs about sessions over PC/SC, for any number of sessions, readers    *)
(* and profiles, any page size and any number of failed exchanges, with or  *)
(* without resets.                                                          *)
(***************************************************************************)
EXTENDS PcscSession, SequenceTheorems, TLAPS

(* What a key stores: a sequence without repetition, no longer than Capacity. *)
LEMMA StoredIff ==
  ASSUME NEW s
  PROVE  s \in Stored <=> s \in Seq(Profiles) /\ Len(s) <= Capacity /\ IsInjective(s)
<1>1. ASSUME s \in SeqOf(Profiles, Capacity) PROVE s \in Seq(Profiles) /\ Len(s) <= Capacity
  <2>1. PICK m \in 0..Capacity : s \in [1..m -> Profiles]
    BY <1>1 DEF SeqOf
  <2>2. s \in Seq(Profiles) /\ Len(s) = m
    BY <2>1, PcscAssumption
  <2> QED  BY <2>1, <2>2, PcscAssumption
<1>2. ASSUME s \in Seq(Profiles), Len(s) <= Capacity PROVE s \in SeqOf(Profiles, Capacity)
  <2>1. Len(s) \in 0..Capacity /\ s \in [1..Len(s) -> Profiles]
    BY <1>2, PcscAssumption, LenProperties
  <2> QED  BY <2>1 DEF SeqOf
<1> QED  BY <1>1, <1>2 DEF Stored

LEMMA StoredProperties ==
  ASSUME NEW s \in Stored
  PROVE  /\ s \in Seq(Profiles) /\ Len(s) \in 0..Capacity
         /\ \A i, j \in 1..Len(s) : s[i] = s[j] => i = j
<1>1. s \in Seq(Profiles) /\ Len(s) <= Capacity /\ IsInjective(s)
  BY StoredIff
<1>2. Len(s) \in Nat /\ DOMAIN s = 1..Len(s)
  BY <1>1, LenProperties
<1> QED  BY <1>1, <1>2, PcscAssumption DEF IsInjective

LEMMA AppendStored ==
  ASSUME NEW s \in Stored, NEW p \in Profiles, ~Contains(s, p), Len(s) < Capacity
  PROVE  /\ Append(s, p) \in Stored
         /\ \A q : Contains(Append(s, p), q) <=> Contains(s, q) \/ q = p
<1> DEFINE a == Append(s, p)
<1>1. /\ s \in Seq(Profiles) /\ Len(s) \in Nat
      /\ \A i, j \in 1..Len(s) : s[i] = s[j] => i = j
  BY StoredProperties
<1>2. /\ a \in Seq(Profiles) /\ Len(a) = Len(s) + 1
      /\ \A i \in 1..Len(s) : a[i] = s[i]
      /\ a[Len(s) + 1] = p
  BY <1>1, AppendProperties
<1> HIDE DEF a
<1>3. \A i \in 1..Len(s) : s[i] # p
  BY DEF Contains
<1>4. \A i \in 1..Len(a) : i \in 1..Len(s) \/ i = Len(s) + 1
  BY <1>1, <1>2
<1>5. DOMAIN a = 1..Len(a)
  BY <1>2, LenProperties
<1>6. IsInjective(a)
  <2> SUFFICES ASSUME NEW i \in 1..Len(a), NEW j \in 1..Len(a), a[i] = a[j] PROVE i = j
    BY <1>5 DEF IsInjective
  <2> QED  BY <1>1, <1>2, <1>3, <1>4
<1>7. a \in Stored
  BY <1>1, <1>2, <1>6, StoredIff, PcscAssumption
<1>8. \A q : Contains(a, q) <=> Contains(s, q) \/ q = p
  BY <1>1, <1>2, <1>4 DEF Contains
<1> QED  BY <1>7, <1>8 DEF a

LEMMA WithoutStored ==
  ASSUME NEW s \in Stored, NEW p \in Profiles, Contains(s, p)
  PROVE  /\ Without(s, p) \in Stored
         /\ \A q : Contains(Without(s, p), q) <=> Contains(s, q) /\ q # p
<1> DEFINE k == CHOOSE i \in DOMAIN s : s[i] = p
           w == Without(s, p)
<1>1. /\ s \in Seq(Profiles) /\ Len(s) \in Nat
      /\ \A i, j \in 1..Len(s) : s[i] = s[j] => i = j
      /\ DOMAIN s = 1..Len(s)
  BY StoredProperties, LenProperties
<1>2. k \in 1..Len(s) /\ s[k] = p
  BY <1>1 DEF Contains
<1> HIDE DEF k
<1>k. Len(s) \in Nat /\ k \in Nat /\ 1 <= k /\ k <= Len(s)
  <2>1. Len(s) \in Nat
    BY <1>1
  <2> QED  BY <1>2, <2>1
<1>3. w = SubSeq(s, 1, k - 1) \o SubSeq(s, k + 1, Len(s))
  BY DEF k, w, Without, RemoveAt
<1> HIDE DEF w
<1> DEFINE u == SubSeq(s, 1, k - 1)  v == SubSeq(s, k + 1, Len(s))
<1>4. u \in Seq(Profiles) /\ Len(u) = k - 1 /\ \A i \in 1..k - 1 : u[i] = s[i]
  BY <1>1, <1>2, SubSeqProperties
<1>5. v \in Seq(Profiles) /\ Len(v) = Len(s) - k /\ \A i \in 1..Len(s) - k : v[i] = s[k + i]
  <2>1. k + 1 \in Int /\ Len(s) \in Int /\ \A i \in k + 1..Len(s) : s[i] \in Profiles
    BY <1>1, <1>2
  <2>2. /\ v \in Seq(Profiles)
        /\ Len(v) = IF k + 1 <= Len(s) THEN Len(s) - (k + 1) + 1 ELSE 0
        /\ \A i \in 1..Len(s) - (k + 1) + 1 : v[i] = s[k + 1 + i - 1]
    BY <2>1, SubSeqProperties
  <2> HIDE DEF v
  <2>3. \A i \in 1..Len(s) - k : v[i] = s[k + i]
    <3> SUFFICES ASSUME NEW i \in 1..Len(s) - k PROVE v[i] = s[k + i]
      OBVIOUS
    <3>1. i \in 1..Len(s) - (k + 1) + 1 /\ k + 1 + i - 1 = k + i
      BY <1>1, <1>2
    <3> QED  BY <2>2, <3>1
  <2>4. Len(v) = Len(s) - k
    BY <1>k, <2>2
  <2> QED  BY <2>2, <2>3, <2>4
<1> HIDE DEF u, v
<1>6. /\ w \in Seq(Profiles) /\ Len(w) = Len(s) - 1
      /\ \A i \in 1..Len(w) : w[i] = IF i < k THEN s[i] ELSE s[i + 1]
  <2>1. /\ w \in Seq(Profiles) /\ Len(w) = Len(u) + Len(v)
        /\ \A i \in 1..Len(u) + Len(v) : w[i] = IF i <= Len(u) THEN u[i] ELSE v[i - Len(u)]
    BY <1>3, <1>4, <1>5, ConcatProperties DEF u, v
  <2>2. Len(w) = Len(s) - 1
    BY <1>1, <1>2, <1>4, <1>5, <2>1
  <2>3. ASSUME NEW i \in 1..Len(w) PROVE w[i] = IF i < k THEN s[i] ELSE s[i + 1]
    <3>1. CASE i < k
      BY <1>1, <1>2, <1>4, <1>5, <2>1, <2>2, <3>1
    <3>2. CASE ~(i < k)
      <4>0. i \in Nat /\ k <= i /\ i <= Len(s) - 1
        BY <1>k, <2>2, <3>2
      <4>1. w[i] = v[i - (k - 1)] /\ i - (k - 1) \in 1..Len(s) - k
        <5>1. i - (k - 1) \in 1..Len(s) - k
          BY <1>k, <4>0
        <5>2. i \in 1..Len(u) + Len(v) /\ ~(i <= Len(u)) /\ Len(u) = k - 1
          BY <1>k, <1>4, <1>5, <4>0
        <5> QED  BY <2>1, <5>1, <5>2
      <4>2. k + (i - (k - 1)) = i + 1
        BY <1>1, <1>2, <2>2
      <4> QED  BY <1>5, <3>2, <4>1, <4>2
    <3> QED  BY <3>1, <3>2
  <2> QED  BY <2>1, <2>2, <2>3
<1>7. DOMAIN w = 1..Len(w)
  BY <1>6, LenProperties
<1>8. IsInjective(w)
  <2> SUFFICES ASSUME NEW i \in 1..Len(w), NEW j \in 1..Len(w), w[i] = w[j] PROVE i = j
    BY <1>7 DEF IsInjective
  <2> DEFINE at(n) == IF n < k THEN n ELSE n + 1
  <2>1. ASSUME NEW n \in 1..Len(w) PROVE n \in Nat /\ at(n) \in 1..Len(s) /\ w[n] = s[at(n)]
    BY <1>k, <1>6
  <2>2. at(i) = at(j)
    <3> HIDE DEF at
    <3> QED  BY <1>1, <2>1
  <2>3. i \in Nat /\ j \in Nat
    BY <2>1
  <2> QED  BY <1>k, <2>2, <2>3
<1>9. w \in Stored
  BY <1>1, <1>2, <1>6, <1>8, StoredProperties, StoredIff, PcscAssumption
<1>10. ASSUME NEW q PROVE Contains(w, q) <=> Contains(s, q) /\ q # p
  <2>1. ASSUME Contains(w, q) PROVE Contains(s, q) /\ q # p
    <3>1. PICK i \in 1..Len(w) : w[i] = q
      BY <2>1 DEF Contains
    <3> QED  BY <1>1, <1>2, <1>6, <3>1 DEF Contains
  <2>2. ASSUME Contains(s, q), q # p PROVE Contains(w, q)
    <3>1. PICK i \in 1..Len(s) : s[i] = q
      BY <2>2 DEF Contains
    <3>2. CASE i < k
      BY <1>1, <1>2, <1>6, <3>1, <3>2 DEF Contains
    <3>3. CASE i > k
      <4>1. i - 1 \in 1..Len(w) /\ w[i - 1] = q
        BY <1>1, <1>2, <1>6, <3>1, <3>3
      <4> QED  BY <4>1 DEF Contains
    <3> QED  BY <1>1, <1>2, <2>2, <3>1, <3>2, <3>3
  <2> QED  BY <2>1, <2>2
<1> QED  BY <1>9, <1>10 DEF w

LEMMA EmptyStored == <<>> \in Stored /\ \A q : ~Contains(<<>>, q)
<1>1. <<>> \in Seq(Profiles) /\ Len(<<>>) = 0 /\ IsInjective(<<>>)
  BY DEF IsInjective
<1>2. <<>> \in Stored
  <2>1. Len(<<>>) <= Capacity
    BY <1>1, PcscAssumption
  <2> QED  BY <1>1, <2>1, StoredIff, Zenon
<1>3. \A q : ~Contains(<<>>, q)
  <2>1. 1..Len(<<>>) = {}
    BY <1>1
  <2> QED  BY <2>1 DEF Contains
<1> QED  BY <1>2, <1>3

-----------------------------------------------------------------------------
(* The invariant.  The serial number a session holds is tied to the reader it *)
(* is at, and the exchange it is at to its operation; only a scan over "Auto" *)
(* opens a key that did not give its serial number.                           *)

Writing == {"write", "delete", "erase"}
Late    == SerialSteps \cup OtpSteps \cup {"probe_again", "ok"}

PathAt(o, step) ==
  /\ step \in SerialSteps => o \in {"load", "info"}
  /\ step \in {"enum", "continue"} => o \in {"load", "list"}
  /\ step = "config" => o = "info"
  /\ step = "read_one" => o = "read"
  /\ step \in {"pubkey", "write_seed"} => o \in {"write", "delete"}
  /\ step = "erase_seed" => o = "erase"
  /\ step = "legacy_otp" => o # "readers"

LocalInv(t) ==
  /\ serial[t] \in {0, reader[t]}
  /\ pc[t] = "legacy_otp" => iface[t] = "Auto"
  /\ op[t] # "readers" /\ iface[t] # "Auto" /\ pc[t] \in Late => serial[t] = reader[t]
  /\ PathAt(op[t], pc[t])

IInv == TypeOK /\ (\A t \in Sessions : LocalInv(t)) /\ WritesLast

SessionTypes ==
  /\ pc \in [Sessions -> Steps] /\ reader \in [Sessions -> Readers]
  /\ serial \in [Sessions -> 0..NReaders]
  /\ op \in [Sessions -> Ops] /\ arg \in [Sessions -> Profiles] /\ iface \in [Sessions -> Ifaces]
  /\ list \in [Sessions -> Seq(Profiles)]
  /\ found \in [Sessions -> SUBSET Readers] /\ broken \in [Sessions -> BOOLEAN]

CardTypes ==
  /\ kind \in [Readers -> Kinds] /\ applet \in [Readers -> {"none", "OTP", "FIDO"}]
  /\ entries \in [Readers -> Stored] /\ cursor \in [Readers -> 0..Capacity]

(* The legacy scan is detect()'s alone. *)
LegacyTypes ==
  \A t \in Sessions : pc[t] = "legacy_otp" => iface[t] = "Auto" /\ op[t] # "readers"

LEMMA TypeOKIff ==
  TypeOK <=> SessionTypes /\ CardTypes /\ faults \in 0..MaxFaults /\ LegacyTypes
BY DEF TypeOK, SessionTypes, CardTypes, LegacyTypes

LEMMA LegacyLocal == (\A t \in Sessions : LocalInv(t)) => LegacyTypes
BY DEF LocalInv, PathAt, LegacyTypes

-----------------------------------------------------------------------------
(* What every step of a session does to the rest: nothing, or a write. *)

Wrote(t) ==
  /\ op[t] \in Writing /\ ~Refused(t) /\ reader' = reader
  /\ entries' = [entries EXCEPT ![reader[t]] = WriteSeed(t, @)]

Moves(t) ==
  /\ pc[t] \notin {"off", "ok", "err"} /\ pc'[t] # "off"
  /\ \A u \in Sessions \ {t} : pc'[u] = pc[u] /\ reader'[u] = reader[u] /\ serial'[u] = serial[u]
  /\ UNCHANGED <<op, arg, iface>>
  /\ \/ entries' = entries /\ ~(pc'[t] = "ok" /\ op[t] \in Writing)
     \/ Wrote(t)

(* What a key stores after a write it does not refuse. *)
LEMMA WriteSeedProperties ==
  ASSUME SessionTypes, CardTypes, NEW t \in Sessions, op[t] \in Writing, ~Refused(t)
  PROVE  LET old == entries[reader[t]]
             new == WriteSeed(t, old)
         IN /\ new \in Stored
            /\ op[t] = "write"  => \A q : Contains(new, q) <=> Contains(old, q) \/ q = arg[t]
            /\ op[t] = "delete" => /\ old # <<>>
                                   /\ \A q : Contains(new, q) <=> Contains(old, q) /\ q # arg[t]
            /\ op[t] = "erase"  => new = <<>>
<1> DEFINE old == entries[reader[t]]
           new == WriteSeed(t, old)
<1>1. old \in Stored /\ arg[t] \in Profiles /\ reader[t] \in Readers
  BY DEF SessionTypes, CardTypes
<1>2. Len(old) \in 0..Capacity
  BY <1>1, StoredProperties
<1>3. CASE op[t] = "write"
  <2>1. CASE Contains(old, arg[t])
    <3>1. new = old
      BY <1>3, <2>1 DEF WriteSeed
    <3> QED  BY <1>1, <1>3, <2>1, <3>1
  <2>2. CASE ~Contains(old, arg[t])
    <3>1. new = Append(old, arg[t])
      BY <1>3, <2>2 DEF WriteSeed
    <3>2. Len(old) < Capacity
      BY <1>2, <1>3, <2>2, PcscAssumption DEF Refused
    <3>3. Append(old, arg[t]) \in Stored /\ \A q : Contains(Append(old, arg[t]), q) <=> Contains(old, q) \/ q = arg[t]
      BY <1>1, <2>2, <3>2, AppendStored
    <3> QED  BY <1>3, <3>1, <3>3
  <2> QED  BY <2>1, <2>2
<1>4. CASE op[t] = "delete"
  <2>1. Contains(old, arg[t])
    BY <1>4 DEF Refused
  <2>2. new = Without(old, arg[t])
    BY <1>4 DEF WriteSeed
  <2>3. Without(old, arg[t]) \in Stored /\ \A q : Contains(Without(old, arg[t]), q) <=> Contains(old, q) /\ q # arg[t]
    BY <1>1, <2>1, WithoutStored
  <2>4. old # <<>>
    BY <2>1, EmptyStored
  <2> QED  BY <1>4, <2>2, <2>3, <2>4
<1>5. CASE op[t] = "erase"
  <2>1. new = <<>>
    BY <1>5 DEF WriteSeed
  <2> QED  BY <1>5, <2>1, EmptyStored
<1> QED  BY <1>3, <1>4, <1>5 DEF Writing

(* A write reported as done survives what the other sessions do. *)
LEMMA MovesWritesLast ==
  ASSUME SessionTypes, CardTypes, WritesLast, NEW t \in Sessions, Moves(t)
  PROVE  WritesLast'
<1> DEFINE Others(u) == {op[w] : w \in {v \in Sessions \ {u} : pc[v] # "off"}}
           Kept(u, e) ==
             /\ op[u] = "write" /\ Others(u) \cap {"delete", "erase"} = {} => Contains(e, arg[u])
             /\ op[u] = "delete" /\ "write" \notin Others(u) => ~Contains(e, arg[u])
             /\ op[u] = "erase" /\ "write" \notin Others(u) => e = <<>>
<1>1. op' = op /\ arg' = arg /\ pc[t] # "off"
  BY DEF Moves
<1>2. \A u \in Sessions : Others(u)' = Others(u)
  <2>1. \A v \in Sessions : pc'[v] # "off" <=> pc[v] # "off"
    BY DEF Moves
  <2> QED  BY <1>1, <2>1
<1>3. \A u \in Sessions : pc[u] = "ok" => Kept(u, entries[reader[u]])
  BY DEF WritesLast
<1>4. \A u \in Sessions \ {t} : op[t] \in Others(u)
  BY <1>1
<1> HIDE DEF Others
<1>5. ASSUME NEW u \in Sessions, pc'[u] = "ok" PROVE Kept(u, entries'[reader'[u]])
  <2>1. CASE u = t
    <3>1. CASE op[u] \in Writing
      <4>1. Wrote(t)
        BY <1>5, <2>1, <3>1 DEF Moves
      <4>2. entries'[reader'[u]] = WriteSeed(t, entries[reader[t]])
        BY <2>1, <4>1 DEF Wrote, SessionTypes, CardTypes
      <4> QED  BY <2>1, <4>1, <4>2, WriteSeedProperties DEF Wrote
    <3>2. CASE op[u] \notin Writing
      BY <3>2 DEF Writing
    <3> QED  BY <3>1, <3>2
  <2>2. CASE u # t
    <3>1. pc[u] = "ok" /\ reader'[u] = reader[u]
      BY <1>5, <2>2 DEF Moves
    <3>2. Kept(u, entries[reader[u]])
      BY <1>3, <3>1
    <3>3. CASE entries'[reader[u]] = entries[reader[u]]
      BY <3>1, <3>2, <3>3
    <3>4. CASE Wrote(t) /\ reader[t] = reader[u]
      <4>1. entries'[reader'[u]] = WriteSeed(t, entries[reader[u]])
        BY <3>1, <3>4 DEF Wrote, SessionTypes, CardTypes
      <4>2. op[t] \in Others(u) /\ op[t] \in Writing /\ ~Refused(t)
        BY <1>4, <2>2, <3>4 DEF Wrote
      <4> DEFINE old == entries[reader[u]]  new == WriteSeed(t, old)
      <4>3. /\ op[t] = "write"  => \A q : Contains(new, q) <=> Contains(old, q) \/ q = arg[t]
            /\ op[t] = "delete" => /\ old # <<>>
                                   /\ \A q : Contains(new, q) <=> Contains(old, q) /\ q # arg[t]
            /\ op[t] = "erase"  => new = <<>>
        BY <3>4, <4>2, WriteSeedProperties
      <4> HIDE DEF new
      <4>4. CASE op[u] = "write"
        <5>1. Others(u) \cap {"delete", "erase"} = {} => op[t] = "write"
          BY <4>2 DEF Writing
        <5> QED  BY <3>2, <4>1, <4>3, <4>4, <5>1 DEF new
      <4>5. CASE op[u] = "delete"
        <5>1. "write" \notin Others(u) => op[t] \in {"delete", "erase"}
          BY <4>2 DEF Writing
        <5> QED  BY <3>2, <4>1, <4>3, <4>5, <5>1, EmptyStored DEF new
      <4>6. CASE op[u] = "erase"
        <5>1. "write" \notin Others(u) => op[t] \in {"delete", "erase"}
          BY <4>2 DEF Writing
        <5> QED  BY <3>2, <4>1, <4>3, <4>6, <5>1 DEF new
      <4> QED  BY <4>4, <4>5, <4>6
    <3>5. CASE Wrote(t) /\ reader[t] # reader[u]
      <4>1. entries'[reader[u]] = entries[reader[u]]
        BY <3>5 DEF Wrote, SessionTypes, CardTypes
      <4> QED  BY <3>3, <4>1
    <3> QED  BY <3>3, <3>4, <3>5 DEF Moves
  <2> QED  BY <2>1, <2>2
<1>6. \A u \in Sessions : pc'[u] = "ok" => Kept(u, entries'[reader'[u]])
  BY <1>5
<1> QED  BY <1>1, <1>2, <1>6 DEF WritesLast, Others

-----------------------------------------------------------------------------
(* The three ways a step ends: at another exchange, at another reader, or with *)
(* a result.                                                                   *)

StepDone(t) == SessionTypes' /\ LocalInv(t)' /\ Moves(t)

LEMMA KeepMoves ==
  ASSUME NEW t \in Sessions, NEW step \in Steps \ {"off", "ok", "legacy_otp"},
         SessionTypes, LocalInv(t), pc[t] \notin {"off", "ok", "err"},
         Goto(t, step), Keep, list' \in [Sessions -> Seq(Profiles)],
         serial' \in [Sessions -> 0..NReaders], \A u \in Sessions \ {t} : serial'[u] = serial[u],
         serial'[t] \in {0, reader[t]},
         step \in Late /\ iface[t] # "Auto" => serial'[t] = reader[t],
         PathAt(op[t], step), entries' = entries
  PROVE  StepDone(t)
<1>1. /\ pc' = [pc EXCEPT ![t] = step]
      /\ UNCHANGED <<reader, op, arg, iface, found, broken>>
  BY DEF Goto, Keep
<1>2. /\ pc' \in [Sessions -> Steps] /\ pc'[t] = step
      /\ \A u \in Sessions \ {t} : pc'[u] = pc[u]
  BY <1>1 DEF SessionTypes
<1>3. SessionTypes'
  BY <1>1, <1>2 DEF SessionTypes
<1>4. LocalInv(t)'
  BY <1>1, <1>2 DEF LocalInv
<1>5. Moves(t)
  BY <1>1, <1>2 DEF Moves
<1> QED  BY <1>3, <1>4, <1>5 DEF StepDone

LEMMA NextReaderMoves ==
  ASSUME NEW t \in Sessions, SessionTypes, LocalInv(t),
         pc[t] \in {"probe_otp", "probe_serial", "probe_again", "legacy_otp"},
         NextReader(t), found' \in [Sessions -> SUBSET Readers], entries' = entries
  PROVE  StepDone(t)
<1>1. /\ broken' = [broken EXCEPT ![t] = FALSE] /\ serial' = [serial EXCEPT ![t] = 0]
      /\ UNCHANGED <<op, arg, iface, list>>
  BY DEF NextReader
<1>2. PICK step \in {"probe_otp", "legacy_otp", "ok", "err"} :
        /\ pc' = [pc EXCEPT ![t] = step]
        /\ step = "ok" => op[t] = "readers"
        /\ step = "legacy_otp" => iface[t] = "Auto" /\ op[t] # "readers"
  BY DEF NextReader, Goto, LegacyFollows, LocalInv, PathAt
<1>3. /\ reader' \in [Sessions -> Readers]
      /\ \A u \in Sessions \ {t} : reader'[u] = reader[u]
  <2>1. CASE ~LastReader(t) /\ reader' = [reader EXCEPT ![t] = @ + 1]
    <3>1. reader[t] \in Readers /\ reader[t] # NReaders
      BY <2>1 DEF LastReader, SessionTypes
    <3>2. reader[t] + 1 \in Readers
      BY <3>1, PcscAssumption DEF Readers
    <3> QED  BY <2>1, <3>2 DEF SessionTypes
  <2>2. CASE reader' = [reader EXCEPT ![t] = 1]
    <3>1. 1 \in Readers
      BY PcscAssumption DEF Readers
    <3> QED  BY <2>2, <3>1 DEF SessionTypes
  <2>3. CASE reader' = reader
    BY <2>3 DEF SessionTypes
  <2> QED  BY <2>1, <2>2, <2>3 DEF NextReader
<1>4. /\ pc' \in [Sessions -> Steps] /\ pc'[t] = step
      /\ \A u \in Sessions \ {t} : pc'[u] = pc[u]
  BY <1>2 DEF SessionTypes, Steps, ProbeSteps
<1>5. /\ serial' \in [Sessions -> 0..NReaders] /\ serial'[t] = 0
      /\ \A u \in Sessions \ {t} : serial'[u] = serial[u]
  <2>1. 0 \in 0..NReaders
    BY PcscAssumption
  <2> QED  BY <1>1, <2>1 DEF SessionTypes
<1>6. SessionTypes'
  BY <1>1, <1>3, <1>4, <1>5 DEF SessionTypes
<1>7. LocalInv(t)'
  BY <1>1, <1>2, <1>4, <1>5 DEF LocalInv, PathAt, Late, SerialSteps, OtpSteps
<1>8. Moves(t)
  <2>1. ~(pc'[t] = "ok" /\ op[t] \in Writing)
    BY <1>2, <1>4 DEF Writing
  <2> QED  BY <1>1, <1>2, <1>3, <1>4, <1>5, <2>1 DEF Moves
<1> QED  BY <1>6, <1>7, <1>8 DEF StepDone

LEMMA ReturnMoves ==
  ASSUME NEW t \in Sessions, NEW step \in {"ok", "err"}, SessionTypes, LocalInv(t),
         pc[t] \in OtpSteps, Return(t, step), list' \in [Sessions -> Seq(Profiles)],
         \/ entries' = entries /\ ~(step = "ok" /\ op[t] \in Writing)
         \/ /\ op[t] \in Writing /\ ~Refused(t)
            /\ entries' = [entries EXCEPT ![reader[t]] = WriteSeed(t, @)]
  PROVE  StepDone(t)
<1>1. /\ pc' = [pc EXCEPT ![t] = step] /\ UNCHANGED <<reader, op, arg, iface, serial, found, kind>>
      /\ broken' \in [Sessions -> BOOLEAN]
  BY DEF Return, Goto, Drop, SessionTypes, Sharing
<1>2. /\ pc' \in [Sessions -> Steps] /\ pc'[t] = step
      /\ \A u \in Sessions \ {t} : pc'[u] = pc[u]
  BY <1>1 DEF SessionTypes, Steps
<1>3. SessionTypes'
  BY <1>1, <1>2 DEF SessionTypes
<1>4. LocalInv(t)'
  BY <1>1, <1>2 DEF LocalInv, PathAt, Late, SerialSteps, OtpSteps
<1>5. Moves(t)
  BY <1>1, <1>2 DEF Moves, Wrote, OtpSteps
<1> QED  BY <1>3, <1>4, <1>5 DEF StepDone

-----------------------------------------------------------------------------
(* What they leave of the cards. *)

LEMMA SelectCards ==
  ASSUME NEW r \in Readers, NEW a \in {"OTP", "FIDO"}, CardTypes, Select(r, a)
  PROVE  CardTypes' /\ entries' = entries
<1>1. 0 \in 0..Capacity
  BY PcscAssumption
<1> QED  BY <1>1 DEF CardTypes, Select

LEMMA ReturnCards ==
  ASSUME NEW t \in Sessions, NEW step, SessionTypes, CardTypes, Return(t, step),
         entries' \in [Readers -> Stored]
  PROVE  CardTypes'
<1>1. 0 \in 0..Capacity /\ reader[t] \in Readers
  BY PcscAssumption DEF SessionTypes
<1>2. /\ kind' = kind
      /\ \/ applet' = [applet EXCEPT ![reader[t]] = "none"] /\ cursor' = [cursor EXCEPT ![reader[t]] = 0]
         \/ UNCHANGED <<applet, cursor>>
  BY DEF Return, Drop
<1> QED  BY <1>1, <1>2 DEF CardTypes

LEMMA AfterSerialIs ==
  ASSUME NEW t \in Sessions, op[t] \in {"load", "info"}
  PROVE  AfterSerial(t) \in {"config", "enum"} /\ PathAt(op[t], AfterSerial(t))
BY DEF AfterSerial, PathAt, SerialSteps

LEMMA FirstStepIs ==
  ASSUME NEW t \in Sessions, SessionTypes, op[t] # "readers", NEW known \in BOOLEAN
  PROVE  FirstStep(t, known) \in SerialSteps \cup OtpSteps /\ PathAt(op[t], FirstStep(t, known))
<1>1. op[t] \in AllOps \ {"readers"}
  BY PcscAssumption DEF SessionTypes
<1>2. CASE op[t] \in {"load", "info"}
  <2>1. FirstStep(t, known) = IF known THEN AfterSerial(t) ELSE "serial_fido"
    BY <1>2 DEF FirstStep
  <2> QED  BY <1>2, <2>1, AfterSerialIs DEF PathAt, SerialSteps, OtpSteps
<1>3. CASE op[t] = "list"
  BY <1>3 DEF FirstStep, PathAt, SerialSteps, OtpSteps
<1>4. CASE op[t] = "read"
  BY <1>4 DEF FirstStep, PathAt, SerialSteps, OtpSteps
<1>5. CASE op[t] \in {"write", "delete"}
  BY <1>5 DEF FirstStep, PathAt, SerialSteps, OtpSteps
<1>6. CASE op[t] = "erase"
  BY <1>6 DEF FirstStep, PathAt, SerialSteps, OtpSteps
<1> QED  BY <1>1, <1>2, <1>3, <1>4, <1>5, <1>6 DEF AllOps

-----------------------------------------------------------------------------
(* One lemma per part of a session: opening it, READ_SERIAL, the operations, *)
(* a failed exchange.                                                        *)

StepInv(t) == StepDone(t) /\ CardTypes'

LEMMA TryNextMoves ==
  ASSUME NEW t \in Sessions, SessionTypes, CardTypes, LocalInv(t),
         pc[t] \in {"probe_otp", "probe_serial", "probe_again", "legacy_otp"}, TryNext(t)
  PROVE  StepInv(t)
<1>1. NextReader(t) /\ found' = found /\ entries' = entries /\ CardTypes'
  BY DEF TryNext, cardVars, CardTypes
<1>2. StepDone(t)
  BY <1>1, NextReaderMoves DEF SessionTypes
<1> QED  BY <1>1, <1>2 DEF StepInv

LEMMA OpenInv ==
  ASSUME NEW t \in Sessions, SessionTypes, CardTypes, LocalInv(t), Open(t)
  PROVE  StepInv(t)
<1>0. reader[t] \in Readers /\ reader[t] \in 0..NReaders /\ 0 \in 0..NReaders
  BY PcscAssumption DEF SessionTypes, Readers
<1>1. CASE ProbeOtp(t)
  <2>1. CASE HasOtp(reader[t])
    <3>1. CardTypes' /\ entries' = entries
      BY <1>0, <1>1, <2>1, SelectCards DEF ProbeOtp
    <3>2. StepDone(t)
      BY <1>1, <2>1, <3>1, KeepMoves
      DEF ProbeOtp, AtStep, SessionTypes, LocalInv, PathAt, Late, Steps, ProbeSteps, SerialSteps, OtpSteps
    <3> QED  BY <3>1, <3>2 DEF StepInv
  <2>2. CASE ~HasOtp(reader[t])
    BY <1>1, <2>2, TryNextMoves DEF ProbeOtp, AtStep
  <2> QED  BY <2>1, <2>2
<1>2. CASE ProbeFido(t)
  <2>1. CardTypes' /\ entries' = entries
    BY <1>0, <1>2, SelectCards DEF ProbeFido
  <2>2. StepDone(t)
    BY <1>2, <2>1, KeepMoves
    DEF ProbeFido, AtStep, SessionTypes, LocalInv, PathAt, Late, Steps, ProbeSteps, SerialSteps, OtpSteps
  <2> QED  BY <2>1, <2>2 DEF StepInv
<1>3. CASE ProbeSerial(t)
  <2>1. CASE AnswersSerial(reader[t])
    <3>1. CardTypes' /\ entries' = entries
      BY <1>3, <2>1 DEF ProbeSerial, cardVars, CardTypes
    <3>2. /\ serial' \in [Sessions -> 0..NReaders] /\ serial'[t] = reader[t]
          /\ \A u \in Sessions \ {t} : serial'[u] = serial[u]
      BY <1>0, <1>3, <2>1 DEF ProbeSerial, SessionTypes
    <3>3. StepDone(t)
      BY <1>3, <2>1, <3>1, <3>2, KeepMoves
      DEF ProbeSerial, AtStep, SessionTypes, PathAt, Steps, ProbeSteps, SerialSteps, OtpSteps
    <3> QED  BY <3>1, <3>3 DEF StepInv
  <2>2. CASE ~AnswersSerial(reader[t])
    BY <1>3, <2>2, TryNextMoves DEF ProbeSerial, AtStep
  <2> QED  BY <2>1, <2>2
<1>4. CASE ProbeAgain(t)
  <2>1. CardTypes' /\ entries' = entries
    BY <1>0, <1>4, SelectCards DEF ProbeAgain
  <2>2. CASE op[t] = "readers"
    <3>1. found' \in [Sessions -> SUBSET Readers]
      <4>1. found' = [found EXCEPT ![t] = @ \cup {reader[t]}] /\ found[t] \in SUBSET Readers
        BY <1>4, <2>2 DEF ProbeAgain, SessionTypes
      <4>2. found[t] \cup {reader[t]} \in SUBSET Readers
        BY <1>0, <4>1
      <4> QED  BY <4>1, <4>2 DEF SessionTypes
    <3>2. StepDone(t)
      BY <1>4, <2>1, <2>2, <3>1, NextReaderMoves DEF ProbeAgain, AtStep
    <3> QED  BY <2>1, <3>2 DEF StepInv
  <2>3. CASE op[t] # "readers"
    <3>1. FirstStep(t, TRUE) \in SerialSteps \cup OtpSteps /\ PathAt(op[t], FirstStep(t, TRUE))
      BY <2>3, FirstStepIs
    <3>2. StepDone(t)
      BY <1>4, <2>1, <2>3, <3>1, KeepMoves
      DEF ProbeAgain, AtStep, SessionTypes, LocalInv, Late, Steps, SerialSteps, OtpSteps
    <3> QED  BY <2>1, <3>2 DEF StepInv
  <2> QED  BY <2>2, <2>3
<1>5. CASE LegacyOtp(t)
  <2>1. CASE HasOtp(reader[t])
    <3>1. CardTypes' /\ entries' = entries
      BY <1>0, <1>5, <2>1, SelectCards DEF LegacyOtp
    <3>2. /\ serial' \in [Sessions -> 0..NReaders] /\ serial'[t] = 0
          /\ \A u \in Sessions \ {t} : serial'[u] = serial[u]
      BY <1>0, <1>5, <2>1 DEF LegacyOtp, SessionTypes
    <3>3. iface[t] = "Auto" /\ op[t] # "readers" /\ pc[t] = "legacy_otp"
      BY <1>5 DEF LegacyOtp, AtStep, LocalInv, PathAt
    <3>4. FirstStep(t, FALSE) \in SerialSteps \cup OtpSteps /\ PathAt(op[t], FirstStep(t, FALSE))
      BY <3>3, FirstStepIs
    <3>5. StepDone(t)
      BY <1>5, <2>1, <3>1, <3>2, <3>3, <3>4, KeepMoves
      DEF LegacyOtp, SessionTypes, Steps, SerialSteps, OtpSteps
    <3> QED  BY <3>1, <3>5 DEF StepInv
  <2>2. CASE ~HasOtp(reader[t])
    BY <1>5, <2>2, TryNextMoves DEF LegacyOtp, AtStep
  <2> QED  BY <2>1, <2>2
<1> QED  BY <1>1, <1>2, <1>3, <1>4, <1>5 DEF Open

LEMMA ReadSerialInv ==
  ASSUME NEW t \in Sessions, SessionTypes, CardTypes, LocalInv(t), ReadSerial(t)
  PROVE  StepInv(t)
<1>0. /\ reader[t] \in Readers /\ reader[t] \in 0..NReaders
      /\ pc[t] \in SerialSteps /\ op[t] \in {"load", "info"} /\ "info" # "readers"
  BY DEF SessionTypes, Readers, ReadSerial, SerialFido, SerialRead, SerialRestore, AtStep,
         SerialSteps, LocalInv, PathAt
<1>1. AfterSerial(t) \in {"config", "enum"} /\ PathAt(op[t], AfterSerial(t))
  BY <1>0, AfterSerialIs
<1>2. CASE SerialFido(t)
  <2>1. CardTypes' /\ entries' = entries
    BY <1>0, <1>2, SelectCards DEF SerialFido
  <2>2. StepDone(t)
    BY <1>0, <1>2, <2>1, KeepMoves
    DEF SerialFido, SessionTypes, LocalInv, PathAt, Late, Steps, SerialSteps, OtpSteps
  <2> QED  BY <2>1, <2>2 DEF StepInv
<1>3. CASE SerialRead(t)
  <2>1. CardTypes' /\ entries' = entries
    BY <1>3 DEF SerialRead, cardVars, CardTypes
  <2>2. /\ serial' \in [Sessions -> 0..NReaders] /\ serial'[t] \in {serial[t], reader[t]}
        /\ \A u \in Sessions \ {t} : serial'[u] = serial[u]
    BY <1>0, <1>3 DEF SerialRead, SessionTypes
  <2>3. iface[t] # "Auto" => serial'[t] = reader[t]
    BY <1>0, <2>2 DEF LocalInv, Late
  <2>4. PICK step \in {"serial_restore", AfterSerial(t)} : Goto(t, step) /\ Keep /\ list' = list
    BY <1>3 DEF SerialRead
  <2>5. PathAt(op[t], step) /\ step \in {"serial_restore", "config", "enum"}
    BY <1>0, <1>1, <2>4 DEF PathAt, SerialSteps
  <2>6. StepDone(t)
    BY <1>0, <2>1, <2>2, <2>3, <2>4, <2>5, KeepMoves
    DEF SessionTypes, LocalInv, Steps, SerialSteps, OtpSteps
  <2> QED  BY <2>1, <2>6 DEF StepInv
<1>4. CASE SerialRestore(t)
  <2>1. CardTypes' /\ entries' = entries
    BY <1>0, <1>4, SelectCards DEF SerialRestore
  <2>2. StepDone(t)
    BY <1>0, <1>1, <1>4, <2>1, KeepMoves
    DEF SerialRestore, SessionTypes, LocalInv, Late, Steps, SerialSteps, OtpSteps
  <2> QED  BY <2>1, <2>2 DEF StepInv
<1> QED  BY <1>2, <1>3, <1>4 DEF ReadSerial

LEMMA PageTypes ==
  ASSUME NEW r \in Readers, NEW from \in Nat, CardTypes
  PROVE  Page(r, from) \in Seq(Profiles) /\ PageEnd(r, from) \in 0..Capacity
<1>1. entries[r] \in Seq(Profiles) /\ Len(entries[r]) \in 0..Capacity
  BY StoredProperties DEF CardTypes
<1>2. PageEnd(r, from) \in Nat /\ PageEnd(r, from) <= Len(entries[r])
  BY <1>1, PcscAssumption DEF PageEnd
<1>3. \A i \in from + 1..PageEnd(r, from) : entries[r][i] \in Profiles
  <2> TAKE i \in from + 1..PageEnd(r, from)
  <2>1. i \in 1..Len(entries[r])
    BY <1>1, <1>2
  <2> QED  BY <1>1, <2>1, ElementOfSeq
<1>4. from + 1 \in Int /\ PageEnd(r, from) \in Int
  BY <1>2
<1>5. Page(r, from) \in Seq(Profiles)
  BY <1>3, <1>4, SubSeqProperties DEF Page
<1> QED  BY <1>1, <1>2, <1>5, PcscAssumption

LEMMA ServeInv ==
  ASSUME NEW t \in Sessions, NEW from \in Nat, SessionTypes, CardTypes, LocalInv(t),
         pc[t] \in {"enum", "continue"}, Serve(t, from)
  PROVE  StepInv(t)
<1> DEFINE r == reader[t]
<1>0. r \in Readers /\ op[t] \in {"load", "list"} \cup {"info"} /\ op[t] \notin Writing
  BY DEF SessionTypes, LocalInv, PathAt, Writing
<1>1. Page(r, from) \in Seq(Profiles) /\ PageEnd(r, from) \in 0..Capacity
  BY <1>0, PageTypes
<1>2. list' \in [Sessions -> Seq(Profiles)]
  <2>1. list[t] \in Seq(Profiles) /\ list' = [list EXCEPT ![t] = @ \o Page(r, from)]
    BY DEF Serve, SessionTypes
  <2>2. list[t] \o Page(r, from) \in Seq(Profiles)
    BY <1>1, <2>1, ConcatProperties
  <2> QED  BY <2>1, <2>2 DEF SessionTypes
<1>3. CASE MorePages(r, from)
  <2>1. /\ Goto(t, "continue") /\ Keep /\ cursor' = [cursor EXCEPT ![r] = PageEnd(r, from)]
        /\ UNCHANGED <<serial, kind, applet, entries>>
    BY <1>3 DEF Serve
  <2>2. CardTypes'
    BY <1>0, <1>1, <2>1 DEF CardTypes
  <2>3. op[t] \in {"load", "list"} /\ PathAt(op[t], "continue")
    BY DEF LocalInv, PathAt, SerialSteps
  <2>4. StepDone(t)
    BY <1>2, <2>1, <2>3, KeepMoves DEF SessionTypes, LocalInv, Late, Steps, OtpSteps
  <2> QED  BY <2>2, <2>4 DEF StepInv
<1>4. CASE ~MorePages(r, from)
  <2>1. Return(t, "ok") /\ entries' = entries
    BY <1>4 DEF Serve
  <2>2. CardTypes'
    BY <2>1, ReturnCards DEF CardTypes
  <2>3. StepDone(t)
    BY <1>0, <1>2, <2>1, ReturnMoves DEF OtpSteps
  <2> QED  BY <2>2, <2>3 DEF StepInv
<1> QED  BY <1>3, <1>4

(* An operation returns without having written. *)
LEMMA ReturnInv ==
  ASSUME NEW t \in Sessions, NEW step \in {"ok", "err"}, SessionTypes, CardTypes, LocalInv(t),
         pc[t] \in OtpSteps, Return(t, step), list' \in [Sessions -> Seq(Profiles)],
         entries' = entries, step = "ok" => op[t] \notin Writing
  PROVE  StepInv(t)
<1>1. CardTypes'
  BY ReturnCards DEF CardTypes
<1>2. StepDone(t)
  BY ReturnMoves
<1> QED  BY <1>1, <1>2 DEF StepInv

LEMMA ReturnErrInv ==
  ASSUME NEW t \in Sessions, SessionTypes, CardTypes, LocalInv(t),
         pc[t] \in OtpSteps, ReturnErr(t), UNCHANGED <<list, entries>>
  PROVE  StepInv(t)
<1>1. pc[t] = "config" => op[t] \notin Writing
  BY DEF LocalInv, PathAt, Writing
<1> QED  BY <1>1, ReturnInv DEF ReturnErr, SessionTypes

(* WRITE_SEED is done; the session hears of it, or does not. *)
LEMMA WriteInv ==
  ASSUME NEW t \in Sessions, NEW step \in {"ok", "err"}, SessionTypes, CardTypes, LocalInv(t),
         pc[t] \in {"write_seed", "erase_seed"}, ~Refused(t), Return(t, step), list' = list,
         entries' = [entries EXCEPT ![reader[t]] = WriteSeed(t, @)]
  PROVE  StepInv(t)
<1>1. op[t] \in Writing /\ reader[t] \in Readers
  BY DEF LocalInv, PathAt, Writing, SessionTypes
<1>2. WriteSeed(t, entries[reader[t]]) \in Stored
  BY <1>1, WriteSeedProperties
<1>3. CardTypes'
  <2>1. entries' \in [Readers -> Stored]
    BY <1>2 DEF CardTypes
  <2> QED  BY <2>1, ReturnCards
<1>4. StepDone(t)
  BY <1>1, ReturnMoves DEF OtpSteps, SessionTypes
<1> QED  BY <1>3, <1>4 DEF StepInv

LEMMA OperateInv ==
  ASSUME NEW t \in Sessions, SessionTypes, CardTypes, LocalInv(t), Operate(t)
  PROVE  StepInv(t)
<1>0. reader[t] \in Readers /\ 0 \in Nat
  BY DEF SessionTypes
<1>1. CASE WrongApplet(t)
  BY <1>1, ReturnErrInv DEF WrongApplet
<1>2. CASE Enumerate(t)
  BY <1>0, <1>2, ServeInv DEF Enumerate, OtpCommand, AtStep
<1>3. CASE EnumContinue(t)
  <2>1. pc[t] = "continue" /\ cursor[reader[t]] \in Nat
    BY <1>0, <1>3, PcscAssumption DEF EnumContinue, OtpCommand, AtStep, CardTypes
  <2>2. CASE Serve(t, cursor[reader[t]])
    BY <2>1, <2>2, ServeInv
  <2>3. CASE Return(t, "err") /\ UNCHANGED <<list, entries>>
    BY <2>1, <2>3, ReturnInv DEF OtpSteps, SessionTypes
  <2> QED  BY <1>3, <2>2, <2>3 DEF EnumContinue
<1>4. CASE ReadConfig(t)
  <2>1. pc[t] = "config" /\ op[t] \notin Writing
    BY <1>4 DEF ReadConfig, OtpCommand, AtStep, LocalInv, PathAt, Writing
  <2> QED  BY <1>4, <2>1, ReturnInv DEF ReadConfig, OtpSteps, SessionTypes
<1>5. CASE ReadEntry(t)
  <2>1. pc[t] = "read_one" /\ op[t] \notin Writing
    BY <1>5 DEF ReadEntry, OtpCommand, AtStep, LocalInv, PathAt, Writing
  <2>2. PICK step \in {"ok", "err"} : Return(t, step)
    BY <1>5 DEF ReadEntry
  <2>3. list' \in [Sessions -> Seq(Profiles)]
    <3>1. <<arg[t]>> \in Seq(Profiles)
      BY DEF SessionTypes
    <3> QED  BY <1>5, <3>1 DEF ReadEntry, SessionTypes
  <2> QED  BY <1>5, <2>1, <2>2, <2>3, ReturnInv DEF ReadEntry, OtpSteps
<1>6. CASE Seal(t)
  <2>1. CardTypes' /\ entries' = entries
    BY <1>6 DEF Seal, cardVars, CardTypes
  <2>2. pc[t] = "pubkey" /\ PathAt(op[t], "write_seed")
    BY <1>6 DEF Seal, OtpCommand, AtStep, LocalInv, PathAt, SerialSteps
  <2>3. StepDone(t)
    BY <1>6, <2>1, <2>2, KeepMoves
    DEF Seal, SessionTypes, LocalInv, PathAt, Late, Steps, OtpSteps
  <2> QED  BY <2>1, <2>3 DEF StepInv
<1>7. CASE Write(t)
  <2>1. pc[t] \in {"write_seed", "erase_seed"} /\ list' = list
    BY <1>7 DEF Write, OtpCommand, AtStep
  <2>2. CASE Refused(t)
    BY <1>7, <2>1, <2>2, ReturnInv DEF Write, OtpSteps, SessionTypes
  <2>3. CASE ~Refused(t)
    BY <1>7, <2>1, <2>3, WriteInv DEF Write
  <2> QED  BY <2>2, <2>3
<1> QED  BY <1>1, <1>2, <1>3, <1>4, <1>5, <1>6, <1>7 DEF Operate

LEMMA FailedInv ==
  ASSUME NEW t \in Sessions, SessionTypes, CardTypes, LocalInv(t), FailedExchange(t)
  PROVE  StepInv(t)
<1>1. CASE pc[t] \in {"probe_otp", "probe_serial", "probe_again", "legacy_otp"} /\ TryNext(t)
  BY <1>1, TryNextMoves
<1>2. CASE pc[t] \in OtpSteps /\ ReturnErr(t) /\ UNCHANGED <<list, entries>>
  BY <1>2, ReturnErrInv
<1>3. CASE /\ pc[t] \in {"probe_fido", "serial_fido", "serial_read", "serial_restore"}
           /\ Goto(t, ToleratedStep(t)) /\ Keep /\ UNCHANGED <<serial, list, cardVars>>
  <2>1. CardTypes' /\ entries' = entries
    BY <1>3 DEF cardVars, CardTypes
  <2>2. /\ ToleratedStep(t) \in {"probe_serial", "serial_read", "config", "enum"}
        /\ PathAt(op[t], ToleratedStep(t))
    <3>1. CASE pc[t] = "probe_fido"
      BY <3>1 DEF ToleratedStep, PathAt, SerialSteps
    <3>2. CASE pc[t] = "serial_fido"
      BY <3>2 DEF ToleratedStep, LocalInv, PathAt, SerialSteps
    <3>3. CASE pc[t] \in {"serial_read", "serial_restore"}
      <4>1. op[t] \in {"load", "info"} /\ ToleratedStep(t) = AfterSerial(t)
        BY <3>3 DEF ToleratedStep, LocalInv, PathAt, SerialSteps
      <4> QED  BY <4>1, AfterSerialIs
    <3> QED  BY <1>3, <3>1, <3>2, <3>3
  <2>3. ToleratedStep(t) \in Late /\ iface[t] # "Auto" => serial[t] = reader[t]
    <3>1. CASE pc[t] = "probe_fido"
      BY <3>1 DEF ToleratedStep, Late, SerialSteps, OtpSteps
    <3>2. CASE pc[t] \in SerialSteps
      BY <3>2 DEF LocalInv, PathAt, Late
    <3> QED  BY <1>3, <3>1, <3>2 DEF SerialSteps
  <2>4. ToleratedStep(t) \in Steps \ {"off", "ok", "legacy_otp"}
    BY <2>2 DEF Steps, ProbeSteps, SerialSteps, OtpSteps
  <2>5. StepDone(t)
    BY <1>3, <2>1, <2>2, <2>3, <2>4, KeepMoves DEF SessionTypes, LocalInv
  <2> QED  BY <2>1, <2>5 DEF StepInv
<1> QED  BY <1>1, <1>2, <1>3 DEF FailedExchange

LEMMA LostAnswerInv ==
  ASSUME NEW t \in Sessions, SessionTypes, CardTypes, LocalInv(t), LostAnswer(t)
  PROVE  StepInv(t)
<1>1. pc[t] \in {"write_seed", "erase_seed"}
  BY DEF LostAnswer, OtpCommand, AtStep
<1> QED  BY <1>1, WriteInv DEF LostAnswer

-----------------------------------------------------------------------------
(* The invariant is inductive. *)

LEMMA InitInv == Init => IInv
<1> SUFFICES ASSUME Init PROVE IInv
  OBVIOUS
<1>1. /\ 1 \in Readers /\ 0 \in 0..NReaders /\ 0 \in 0..Capacity /\ 0 \in 0..MaxFaults
      /\ <<>> \in Seq(Profiles) /\ {} \in SUBSET Readers
  BY PcscAssumption DEF Readers
<1>2. TypeOK
  <2>1. reader \in [Sessions -> Readers]
    BY <1>1 DEF Init
  <2>2. pc \in [Sessions -> Steps]
    BY DEF Init, Steps, ProbeSteps
  <2>3. LegacyTypes
    BY DEF Init, LegacyTypes
  <2>4. SessionTypes /\ CardTypes /\ faults \in 0..MaxFaults
    BY <1>1, <2>1, <2>2 DEF Init, SessionTypes, CardTypes
  <2> QED  BY <2>3, <2>4, TypeOKIff
<1>3. ASSUME NEW t \in Sessions PROVE LocalInv(t)
  <2>1. pc[t] \in {"off", "probe_otp"} /\ serial[t] = 0
    BY DEF Init
  <2> QED  BY <2>1 DEF LocalInv, PathAt, Late, SerialSteps, OtpSteps
<1>4. WritesLast
  <2>1. \A t \in Sessions : pc[t] # "ok"
    BY DEF Init
  <2> QED  BY <2>1 DEF WritesLast
<1> QED  BY <1>2, <1>3, <1>4 DEF IInv

LEMMA NextInv == IInv /\ [Next]_vars => IInv'
<1> SUFFICES ASSUME IInv, [Next]_vars PROVE IInv'
  OBVIOUS
<1>0. /\ SessionTypes /\ CardTypes /\ faults \in 0..MaxFaults /\ WritesLast
      /\ \A t \in Sessions : LocalInv(t)
  BY TypeOKIff DEF IInv
<1>1. ASSUME NEW t \in Sessions, StepInv(t), faults' \in 0..MaxFaults PROVE IInv'
  <2>1. SessionTypes' /\ CardTypes' /\ LocalInv(t)' /\ Moves(t)
    BY <1>1 DEF StepInv, StepDone
  <2>2. \A u \in Sessions : LocalInv(u)'
    <3>1. ASSUME NEW u \in Sessions \ {t} PROVE LocalInv(u)'
      BY <1>0, <2>1 DEF Moves, LocalInv
    <3> QED  BY <2>1, <3>1
  <2>3. TypeOK'
    <3>1. LegacyTypes'
      BY <2>2 DEF LocalInv, PathAt, LegacyTypes
    <3> QED  BY <1>1, <2>1, <3>1 DEF TypeOK, SessionTypes, CardTypes, LegacyTypes
  <2>4. WritesLast'
    BY <1>0, <2>1, MovesWritesLast
  <2> QED  BY <2>2, <2>3, <2>4 DEF IInv
<1>2. ASSUME NEW t \in Sessions, Step(t) PROVE IInv'
  BY <1>0, <1>1, <1>2, OpenInv, ReadSerialInv, OperateInv DEF Step
<1>3. ASSUME NEW t \in Sessions, Reset(t) PROVE IInv'
  BY <1>0, <1>1, <1>3, FailedInv DEF Reset
<1>4. ASSUME NEW t \in Sessions, Fault(t) PROVE IInv'
  <2>1. faults' \in 0..MaxFaults
    BY <1>0, <1>4, PcscAssumption DEF Fault
  <2> QED  BY <1>0, <1>1, <1>4, <2>1, FailedInv, LostAnswerInv DEF Fault
<1>5. CASE UNCHANGED vars
  <2>1. UNCHANGED <<pc, reader, serial, op, arg, iface, list, found, broken,
                    kind, applet, cursor, entries, faults>>
    BY <1>5 DEF vars, sessionVars, cardVars
  <2>2. TypeOK'
    <3>1. TypeOK
      BY <1>0, TypeOKIff, LegacyLocal
    <3> QED  BY <2>1, <3>1 DEF TypeOK
  <2>3. \A t \in Sessions : LocalInv(t)'
    BY <1>0, <2>1 DEF LocalInv
  <2>4. WritesLast'
    BY <1>0, <2>1 DEF WritesLast
  <2> QED  BY <2>2, <2>3, <2>4 DEF IInv
<1> QED  BY <1>2, <1>3, <1>4, <1>5 DEF Next, Done

\* Whatever the sessions, the cards and the failures do, the invariant holds.
THEOREM IndInv == Spec => []IInv
<1>1. Init => IInv
  BY InitInv
<1>2. IInv /\ [Next]_vars => IInv'
  BY NextInv
<1> QED  BY <1>1, <1>2, PTL DEF Spec

\* Sessions and cards stay in states the code and the card can be in: every scan
\* stays within the readers, and only detect() goes on to the legacy scan,
\* whatever fails under it.
THEOREM TypeCorrect == Spec => []TypeOK
<1>1. IInv => TypeOK
  BY DEF IInv
<1> QED  BY <1>1, IndInv, PTL

\* Over Nfc or a named reader a session opens only a key that gave its serial
\* number, and holds no other key's, however many sessions interleave.
THEOREM SerialIsConfirmed == Spec => []SerialConfirmed
<1>1. IInv => SerialConfirmed
  <2> SUFFICES ASSUME IInv, NEW t \in Sessions, Opened(t)
               PROVE  /\ iface[t] \in {"Nfc", "Named"} => serial[t] = reader[t]
                      /\ serial[t] \in {0, reader[t]}
    BY DEF SerialConfirmed
  <2>1. LocalInv(t) /\ pc[t] \in Late /\ op[t] # "readers"
    BY DEF IInv, Opened, Late
  <2> QED  BY <2>1 DEF LocalInv
<1> QED  BY <1>1, IndInv, PTL

\* A write, delete or erase reported as done is on the key, unless the operation
\* of another session undid it: an answer is lost, a result is never invented.
THEOREM WritesStay == Spec => []WritesLast
<1>1. IInv => WritesLast
  BY DEF IInv
<1> QED  BY <1>1, IndInv, PTL

=============================================================================
