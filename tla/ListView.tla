------------------------------ MODULE ListView ------------------------------
(***************************************************************************)
(* What the window promises about the list it shows: at every moment the    *)
(* rows, the serial number and the transport are those of one read of one   *)
(* key that was reachable when it was read, or the list is empty.  A read   *)
(* may be shown late, after a later one, or never.                          *)
(***************************************************************************)
CONSTANTS Keys, NoKey, Ports, Profiles

VARIABLES at,       \* the key each port reaches
          content,  \* the profiles stored on each key
          pool,     \* reads that may still be shown
          view      \* what the window shows

vars == <<at, content, pool, view>>

\* The list as one read gives it.  A serial number that could not be read is NoKey.
Snapshot(k, q, serial) ==
  [rows |-> {[profile |-> p, from |-> k] : p \in content[k]}, serial |-> serial, active |-> q]

EmptyView == [rows |-> {}, serial |-> NoKey, active |-> "none"]

Init ==
  /\ at \in [Ports -> Keys \cup {NoKey}]
  /\ content \in [Keys -> SUBSET Profiles]
  /\ pool = {EmptyView}
  /\ view = EmptyView

\* Keys come and go, and profiles are written.
World == UNCHANGED <<pool, view>>

Read ==
  /\ \E q \in Ports : \E serial \in {at[q], NoKey} :
       at[q] # NoKey /\ pool' = pool \cup {Snapshot(at[q], q, serial)}
  /\ UNCHANGED <<at, content, view>>

Show ==
  /\ view' \in pool \cup {EmptyView}
  /\ pool' \subseteq pool \cup {view'}
  /\ UNCHANGED <<at, content>>

Next == World \/ Read \/ Show

Spec == Init /\ [][Next]_vars
=============================================================================
