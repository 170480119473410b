----------------------------- MODULE MCStreams ------------------------------
(***************************************************************************)
(* Small instances of the API's streams: ChangeFeed, and SnapshotHub beside *)
(* it.  They share no state; a behaviour is one of theirs, which `part`     *)
(* chooses.                                                                 *)
(*                                                                          *)
(* Of a feed, the second commit carries a lower slot than the first, as a   *)
(* catch-up's does.  Every fault frees one client and may start two         *)
(* connect() calls, so 1 + MaxFaults clients are enough.                    *)
(*                                                                          *)
(* Of a hub, there are two replicas, of which one may create a second       *)
(* topic, one SSE stream and one Socket.IO subscription, for which the      *)
(* third capture is too large.                                              *)
(***************************************************************************)
EXTENDS ChangeFeed, SnapshotHub

CONSTANTS c1, c2, c3, f1, r1, r2, sse, socket

VARIABLE part

TwoCommits == <<2, 1>>
ThreeClients == {c1, c2, c3}
OneFeed == {f1}
ThreeTopics == {<<r1, 1>>, <<r1, 2>>, <<r2, 1>>}

PartInit == part \in {"feeds", "hub"} /\ Init /\ HubInit

PartNext ==
    /\ UNCHANGED part
    /\ \/ part = "feeds" /\ Next /\ UNCHANGED hubVars
       \/ part = "hub" /\ HubNext /\ UNCHANGED vars

\* The pool and the network answer the listener, and its timer fires.  A feed's
\* timers fire, and bounded() ends every observation one way or the
\* other.  A topic's tick goes on: its timers fire, awaits settle, and the 14 s
\* abort of capturePayload ends every capture.  Nothing is assumed of the
\* readers.
PartSpec ==
    /\ PartInit /\ [][PartNext]_<<part, vars, hubVars>>
    /\ WF_listenerVars(part = "feeds" /\ \E c \in Clients : ReconnectFires(c))
    /\ \A c \in Clients :
          /\ WF_listenerVars(part = "feeds" /\ Acquired(c))
          /\ WF_listenerVars(part = "feeds" /\ Listens(c))
          /\ WF_listenerVars(part = "feeds" /\ Connected(c))
          /\ WF_listenerVars(part = "feeds" /\ Notified(c))
          /\ WF_listenerVars(part = "feeds" /\ Disconnects(c))
          /\ WF_listenerVars(part = "feeds" /\ FailureSettles(c))
    /\ \A f \in Feeds :
          /\ WF_vars(part = "feeds" /\ Send(f))
          /\ WF_vars(part = "feeds" /\ (Initialized(f) \/ Write(f)))
    /\ \A t \in Topics : WF_hubVars(part = "hub" /\ TickStep(t))
=============================================================================
