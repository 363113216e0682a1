-------------------------- MODULE MCStreamRegistry --------------------------
(* Small instances of StreamRegistry for TLC.                              *)
EXTENDS StreamRegistry, TLC

\* Sessions of one kind and paths are interchangeable: no definition of the
\* specification tells two of them apart.
Symmetry == Permutations(Rtmp) \cup Permutations(Flv) \cup Permutations(Paths)

\* The fields of an object that has left the map and whose socket is closed
\* are read by no action and no property: states that differ only there are
\* one state.
View ==
    LET held == sessions \cup open
    IN  <<fresh, open, sessions, publishers, idlePlayers, starting, publishing,
          playing \cap held, idling \cap held, uncaught,
          [s \in Rtmp \cap held |->
              <<publishStreamId[s], publishStreamPath[s], playStreamId[s], players[s]>>],
          [s \in held |-> playStreamPath[s]]>>
=============================================================================
