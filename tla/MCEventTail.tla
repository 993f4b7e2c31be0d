----------------------------- MODULE MCEventTail -----------------------------
(* EventTail with a run of three events.                                     *)
EXTENDS EventTail

MCScript == <<[event |-> "progress", n |-> 1], [event |-> "watchdog", n |-> 0],
              [event |-> "progress", n |-> 2]>>
=============================================================================
