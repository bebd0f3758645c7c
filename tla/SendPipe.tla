------------------------------ MODULE SendPipe ------------------------------
(***************************************************************************)
(* What a TCPConnection promises to those who send on it, without the      *)
(* goroutines, the buffers and the locks: accepted messages reach the      *)
(* socket in order and once, nothing is accepted after the pipe was shut,  *)
(* a pipe that was shut ends, and it ends with everything delivered unless *)
(* there was a fault: the connection broke, the socket was closed under    *)
(* the writer, or a message was too large to be written.                   *)
(***************************************************************************)
EXTENDS Naturals, Sequences, Functions

CONSTANT Msgs

VARIABLES
    accepted,  \* messages for which Send returned true, in order
    wire,      \* messages handed to the socket, in order
    shut,      \* no more messages are accepted
    faulty,    \* something may keep messages from being delivered
    ended      \* the writer is done

vars == <<accepted, wire, shut, faulty, ended>>

Init ==
    /\ accepted = <<>>
    /\ wire = <<>>
    /\ shut = FALSE
    /\ faulty = FALSE
    /\ ended = FALSE

\* The message may be one that cannot be written.
Accept(m) ==
    /\ ~shut
    /\ m \notin Range(accepted)
    /\ accepted' = Append(accepted, m)
    /\ faulty' \in {faulty, TRUE}
    /\ UNCHANGED <<wire, shut, ended>>

Deliver ==
    /\ ~ended
    /\ \E n \in Len(wire) + 1 .. Len(accepted) : wire' = SubSeq(accepted, 1, n)
    /\ UNCHANGED <<accepted, shut, faulty, ended>>

Shut ==
    /\ ~shut
    /\ shut' = TRUE
    /\ UNCHANGED <<accepted, wire, faulty, ended>>

Fault ==
    /\ ~faulty
    /\ faulty' = TRUE
    /\ UNCHANGED <<accepted, wire, shut, ended>>

\* The last messages are delivered as the pipe ends.
Finish ==
    /\ shut /\ ~ended
    /\ wire' = accepted
    /\ ended' = TRUE
    /\ UNCHANGED <<accepted, shut, faulty>>

Fail ==
    /\ faulty /\ ~ended
    /\ shut' = TRUE
    /\ ended' = TRUE
    /\ UNCHANGED <<accepted, wire, faulty>>

Next == (\E m \in Msgs : Accept(m)) \/ Deliver \/ Shut \/ Fault \/ Finish \/ Fail

SafeSpec == Init /\ [][Next]_vars
Spec     == SafeSpec /\ WF_vars(Finish)
=============================================================================
