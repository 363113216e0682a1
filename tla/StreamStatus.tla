--------------------------- MODULE StreamStatus ---------------------------
(***************************************************************************)
(* What a host application may hear about the stream it publishes, from    *)
(* the moment it asks for it to the moment it has stopped it.              *)
(***************************************************************************)
EXTENDS Naturals

CONSTANT MaxRetry   \* attempts after the first before the stream is given up

VARIABLES heard,    \* the last callback
          tries     \* attempts since the stream was last up

Init == heard = "nothing" /\ tries = 0

\* OnRtmpStreamOK
Ok ==
    /\ heard \in {"nothing", "reconnecting"}
    /\ heard' = "ok" /\ tries' = 0

\* OnRtmpStreamReconnecting(times)
Reconnecting ==
    /\ heard # "failed" /\ tries < MaxRetry
    /\ heard' = "reconnecting" /\ tries' = tries + 1

\* OnRtmpStreamFailed
Failed ==
    /\ heard # "failed" /\ tries = MaxRetry
    /\ heard' = "failed" /\ tries' = tries + 1

Next == Ok \/ Reconnecting \/ Failed

Spec == Init /\ [][Next]_<<heard, tries>>
=============================================================================
