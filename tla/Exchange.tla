------------------------------ MODULE Exchange ------------------------------
(***************************************************************************)
(* What one transmit promises its caller, whatever carries the command: the *)
(* device executes the command at most once, and an Ok holds the device's   *)
(* whole answer to a command it did execute.  A failure promises nothing    *)
(* about the execution: it may have happened, and may still happen later.   *)
(***************************************************************************)
EXTENDS Naturals

CONSTANT Answers

VARIABLES reply,     \* what the device answers to this command
          executed,  \* the device has executed the command
          outcome    \* what the caller got

vars == <<reply, executed, outcome>>

Pending   == [tag |-> "pending"]
Failed    == [tag |-> "failed"]
Ok(a)     == [tag |-> "ok", answer |-> a]

Init == reply \in Answers /\ executed = FALSE /\ outcome = Pending

Execute == /\ ~executed
           /\ executed' = TRUE
           /\ UNCHANGED <<reply, outcome>>

Answer == /\ outcome = Pending /\ executed
          /\ outcome' = Ok(reply)
          /\ UNCHANGED <<reply, executed>>

Fail == /\ outcome = Pending
        /\ outcome' = Failed
        /\ UNCHANGED <<reply, executed>>

Next == Execute \/ Answer \/ Fail

Spec == Init /\ [][Next]_vars
=============================================================================
