------------------------------- MODULE MCCoff -------------------------------
(***************************************************************************)
(* COFF objects of a program of two sections and some symbols, one of them *)
(* that may be an equate of the external symbol.                           *)
(***************************************************************************)
EXTENDS CoffObject

TextSegment == <<".text", "NONE">>
MCExterns == {<<"ext", "ext">>}
MCNoSegment == <<"none", "none">>
MCSections ==
    {[name |-> n, comdat |-> "NONE", selection |-> 0] : n \in {".text", ".bss"}}
MCDefinitions ==
    {[name |-> x[1], segment |-> x[2], offset |-> x[3], is_global |-> x[4]] :
       x \in {<<"foo", TextSegment, 3, 1>>, <<"bar", TextSegment, 0, 0>>,
              <<"bar", <<"ext", "ext">>, 0, 0>>, <<"ext", <<"ext", "ext">>, 0, 1>>}}
MCReferences ==
    {[op |-> x[1], segto |-> TextSegment, segment |-> x[2], addr |-> 0,
      wrt |-> "NONE", bytes |-> 4, size |-> 4] :
       x \in {<<"data", MCNoSegment>>, <<"address", <<"ext", "ext">>>>}}
=============================================================================
