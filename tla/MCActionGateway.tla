--------------------------- MODULE MCActionGateway ---------------------------
(***************************************************************************)
(* ActionGateway with four requests: a call and its retry on one incident, *)
(* an unkeyed call on the same incident, and a call that uses the same key *)
(* from another correlation.                                               *)
(***************************************************************************)
EXTENDS ActionGateway

CONSTANTS call, retry, other, stray, k1, incident, adhoc

MCRequests      == {call, retry, other, stray}
MCKeys          == {k1}
MCKeyOf         == [r \in MCRequests |-> IF r = other THEN None ELSE k1]
MCCorrelations  == {incident, adhoc}
MCCorrelationOf == [r \in MCRequests |-> IF r = stray THEN adhoc ELSE incident]
=============================================================================
