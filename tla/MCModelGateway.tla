--------------------------- MODULE MCModelGateway ---------------------------
(***************************************************************************)
(* ModelGateway for TLC: requests of one to four units in a context of     *)
(* three.                                                                  *)
(***************************************************************************)
EXTENDS ModelGateway, TLC

CONSTANTS h1, h2

\* A request always small, one that the context or the budget cuts at a row
\* limit, and one that never fits.
MCSampleSizes == {<<1, 1, 1, 1>>, <<1, 2, 4, 4>>, <<4, 4, 4, 4>>}
\* One hunt is executed while another is planned.
MCStepsOf == h1 :> (Kinds \ {"none"}) @@ h2 :> {"draft"}
=============================================================================
