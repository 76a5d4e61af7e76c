---------------------------- MODULE BatchPromise ----------------------------
(***************************************************************************)
(* What a bulk batch promises to the people on its list and to the person  *)
(* who cancels it: the messages go out in the order of the request, none   *)
(* twice, and none is begun after the cancellation has been signalled.     *)
(***************************************************************************)
EXTENDS Naturals, Sequences

CONSTANT N      \* messages of the batch

VARIABLES
    log,        \* positions of the messages begun so far, in order
    halted      \* a cancellation was signalled

Init == log = <<>> /\ halted = FALSE

Begin ==
    /\ ~halted
    /\ Len(log) < N
    /\ log' = Append(log, Len(log))
    /\ UNCHANGED halted

\* The message on the wire when the cancellation comes is not called back.
Halt == halted' = TRUE /\ UNCHANGED log

Next == Begin \/ Halt

Spec == Init /\ [][Next]_<<log, halted>>
=============================================================================
