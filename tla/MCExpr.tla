------------------------------- MODULE MCExpr -------------------------------
(* Short texts: alone, after the definition of a macro that has the name   *)
(* of the function f, inside a call, as a macro definition, and after two  *)
(* operators.                                                              *)
EXTENDS Expr

MCPreambles ==
  {<< >>, <<"$", "(", "f", ",", "$1", "*", "x", ")", ",">>, <<"x", "=", "2", "*", "f", "(">>,
   <<"$", "(">>, <<"2", "*", "x", "-">>}
=============================================================================
