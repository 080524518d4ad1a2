--------------------------- MODULE MCNegotiation ---------------------------
(***************************************************************************)
(* Instances of Negotiation for TLC.  MaxNegotiations is large enough that *)
(* no passing run meets it.                                                *)
(***************************************************************************)
EXTENDS NegotiationProperties

Both == Roles
Nobody == {}
=============================================================================
