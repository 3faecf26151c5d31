-------------------------------- MODULE MCWeb --------------------------------
(* A small instance of Web: two places under the limiter, two connections of *)
(* the event stream and one of the log stream.                               *)
EXTENDS Web

MCSlots == [events |-> 2, logs |-> 1]
=============================================================================
