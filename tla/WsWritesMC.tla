----------------------------- MODULE WsWritesMC -----------------------------
(* WsWrites on two envelopes, which nothing tells apart.                    *)
EXTENDS WsWrites, TLC

Symmetry == Permutations(Requests)

=============================================================================
