----------------------------- MODULE MCOrderEntry -----------------------------
(***************************************************************************)
(* Order entry with two calls, each of which may choose the ClOrdID that   *)
(* the other one uses as well.                                             *)
(***************************************************************************)
EXTENDS OrderEntry

CONSTANTS own

MCOwnIds == {own}
=============================================================================
