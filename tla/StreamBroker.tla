---------------------------- MODULE StreamBroker ----------------------------
(***************************************************************************)
(* What the registry of Node-Media-Server promises: a path has at most one *)
(* owner, a session owns at most one path and wants at most one, and the   *)
(* audience of an owner is at every moment the set of sessions that want   *)
(* the path it owns.  When an owner lets its path go, the RTMP sessions in *)
(* its audience go on wanting it and the FLV sessions give up.             *)
(***************************************************************************)
CONSTANTS Rtmp, Flv, Paths, NoPath, Nobody

VARIABLES owner,      \* path -> the session that publishes it, or Nobody
          wants,      \* session -> the path it plays or waits for, or NoPath
          audience    \* session -> the sessions its stream is sent to

bvars == <<owner, wants, audience>>

Owners(s) == {path \in Paths : owner[path] = s}

\* The audience of s when o says who owns a path and w who wants it.
AudienceOf(o, w, s) ==
    {p \in Rtmp \cup Flv : w[p] \in Paths /\ o[w[p]] = s}

Settle == audience' = [s \in Rtmp |-> AudienceOf(owner', wants', s)]

Init ==
    /\ owner = [path \in Paths |-> Nobody]
    /\ wants = [p \in Rtmp \cup Flv |-> NoPath]
    /\ audience = [s \in Rtmp |-> {}]

Claim(s, path) ==
    /\ owner[path] = Nobody
    /\ Owners(s) = {}
    /\ owner' = [owner EXCEPT ![path] = s]
    /\ wants' = wants
    /\ Settle

Want(p, path) ==
    /\ wants[p] = NoPath
    /\ wants' = [wants EXCEPT ![p] = path]
    /\ owner' = owner
    /\ Settle

GiveUp(p) ==
    /\ wants' = [wants EXCEPT ![p] = NoPath]
    /\ owner' = owner
    /\ Settle

\* s lets its path go; L is the set of RTMP sessions that stop wanting at the
\* same moment: nobody, or s itself.
Release(s, L) ==
    /\ Owners(s) # {}
    /\ owner' = [path \in Paths |-> IF owner[path] = s THEN Nobody ELSE owner[path]]
    /\ wants' = [p \in Rtmp \cup Flv |->
                   IF p \in L \cup (audience[s] \cap Flv) THEN NoPath ELSE wants[p]]
    /\ Settle

Next ==
    \/ \E s \in Rtmp, path \in Paths : Claim(s, path)
    \/ \E p \in Rtmp \cup Flv, path \in Paths : Want(p, path)
    \/ \E p \in Rtmp \cup Flv : GiveUp(p)
    \/ \E s \in Rtmp : Release(s, {}) \/ Release(s, {s})

Spec == Init /\ [][Next]_bvars
=============================================================================
