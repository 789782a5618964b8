---------------------------- MODULE MCNodeMirror ----------------------------
(* A small instance of NodeMirror for TLC.                                  *)
EXTENDS NodeMirror

\* The server gives out the lowest ids that are free, so an id comes back as
\* soon as its object is gone.
MCOffered(S, n) == {i \in S : Cardinality({j \in S : j < i}) < n}
=============================================================================
