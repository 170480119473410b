------------------------------- MODULE EventLog -------------------------------
(***************************************************************************)
(* What the event tables promise their readers, the streamed views and the  *)
(* projection workers: a log that only grows, in which an event appears     *)
(* once, with one set of facts, and after the events its transaction        *)
(* emitted before it.                                                       *)
(***************************************************************************)
CONSTANTS
    Events,   \* event keys
    Facts,    \* what an event can say
    Earlier   \* [Events -> the events its transaction emitted before it]

VARIABLE log  \* the facts published, as <<event, facts>>

Published(e) == \E f \in Facts : <<e, f>> \in log

Init == log = {}

Publish(e, f) ==
    /\ ~Published(e)
    /\ \A d \in Earlier[e] : Published(d)
    /\ log' = log \cup {<<e, f>>}

Next == \E e \in Events, f \in Facts : Publish(e, f)

Spec == Init /\ [][Next]_log
=============================================================================
