---------------------------- MODULE MCIngestion ----------------------------
(* Instances of Ingestion for TLC.                                         *)
EXTENDS Ingestion, TLC

CONSTANTS h1, h2, h3, b1, b2, x, y, f

ThreeHandlers == {h1, h2, h3}
TwoBodies == {b1, b2}
Ids == {x, y}
Fingerprints == {f}

\* Two bodies with the same two messages in opposite orders, one of them with
\* a repetition, and the same status in both.
Overlapping == (b1 :> <<x, y, x>>) @@ (b2 :> <<y, x>>)
SharedStatus == (b1 :> <<f>>) @@ (b2 :> <<f>>)
=============================================================================
