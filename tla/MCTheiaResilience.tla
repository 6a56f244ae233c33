-------------------------- MODULE MCTheiaResilience --------------------------
(* A root and two partitions: one with a file the check watches and one it *)
(* does not, one with a custom signature.                                  *)
EXTENDS TheiaResilience

CONSTANTS root, plain, custom, stamp, dump, log, wal

MCUnit ==
  [f \in Files |-> CASE f = stamp -> root [] f = wal -> custom [] OTHER -> plain]

\* The files and the signature of the plain partition do not arrive together.
MCPieces == {{<<root, "data">>, <<root, "signature">>}, {<<plain, "data">>},
             {<<custom, "data">>}, {<<plain, "signature">>, <<custom, "signature">>}}

\* The signatures of the partitions arrive apart from everything else.
MCTwoPieces == {{<<root, "data">>, <<root, "signature">>, <<plain, "data">>, <<custom, "data">>},
                {<<plain, "signature">>, <<custom, "signature">>}}
=============================================================================
