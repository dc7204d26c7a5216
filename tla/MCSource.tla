------------------------------ MODULE MCSource -------------------------------
(* Readings of each kind of OCR service, of a document with two pages, of  *)
(* which the image of the second one may be lost.  The digits of the total *)
(* stand in the number, too; a remote box has its corners in no order; the *)
(* subtotal is too narrow to be cut out.                                   *)
EXTENDS SourceHighlights, TLC

CONSTANTS n1, a1

Text(label, reads, within, bulk) ==
  [label |-> label, alone |-> {}, bulk |-> bulk, within |-> within,
   shows |-> DOMAIN reads,
   reads |-> [v \in Value |-> IF v \in DOMAIN reads THEN reads[v] ELSE 0]]

TotalLine == Text("total", a1 :> 1, {}, 0)
Subtotal  == Text("charge", a1 :> 2, {}, 0)
Heading   == Text("number", n1 :> 1, {a1}, 1)

Some ==
  {<<GroundedBlock(Subtotal, 1, <<118, 0, 176, 333>>),
     GroundedBlock(TotalLine, 2, <<500, 600, 1200, 999>>)>>,
   <<VisionBlock(Heading, 2, <<10, 500, 333, 1000>>)>>,
   <<RemoteBlock(TotalLine, 1, <<9, 8, 2, 3>>)>>}

Pictures == {Page, {1}}

Symmetry == Permutations(Run)
=============================================================================
