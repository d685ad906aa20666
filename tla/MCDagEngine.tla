---------------------------- MODULE MCDagEngine ----------------------------
(* Instances of DagEngine for TLC.                                         *)
EXTENDS DagEngine, TLC

\* The topology of dag-engine.js without its first node, which adds a claim
\* before `investigate` and nothing else.
FactoryEdge == {<<"investigate", "remediate">>, <<"investigate", "notify">>,
                <<"remediate", "verify">>, <<"notify", "verify">>}
\* Its tail below `investigate`: an agent node and a backend node in
\* parallel, joined by the sink.
TailEdge == {<<"remediate", "verify">>, <<"notify", "verify">>}
\* The smallest cascade: an agent node and the sink.
PairEdge == {<<"remediate", "verify">>}

\* Requests in flight are interchangeable.
ThreadSymmetry == Permutations(Thread)
=============================================================================
