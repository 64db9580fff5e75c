------------------------- MODULE MCProtocolRegistry ------------------------
(* ProtocolRegistry for TLC: three interfaces, and seven beans that        *)
(* publish by both protocols, by one, by none, by the default "" of the    *)
(* annotation, by "default", or cannot be provided at all; b4 shares its   *)
(* interface with b2, b5 with b1. A context has up to four of them.        *)
EXTENDS ProtocolRegistry, FiniteSetsExt, TLC

CONSTANTS i1, i2, i3, b1, b2, b3, b4, b5, b6, b7

\* Overlapping packages to scan find an interface twice.
Scans == {<<>>, <<i1, i2>>, <<i1, i1>>}

SomeBeans == UNION {kSubset(k, Beans) : k \in 0 .. 4}

MCInterfaces == (b1 :> i1) @@ (b2 :> i2) @@ (b3 :> i3) @@ (b4 :> i2)
                  @@ (b5 :> i1) @@ (b6 :> i3) @@ (b7 :> i3)

MCProtocols == (b1 :> <<"webservice", "restful">>) @@ (b2 :> <<"restful">>)
                 @@ (b3 :> <<>>) @@ (b4 :> <<>>) @@ (b5 :> <<"">>)
                 @@ (b6 :> <<"default">>) @@ (b7 :> <<>>)
=============================================================================
