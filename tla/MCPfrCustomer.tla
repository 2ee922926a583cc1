--------------------------- MODULE MCPfrCustomer ---------------------------
(***************************************************************************)
(* Octets of two bits: an address has eight, and every length, split octet *)
(* and sign occurs.  All well-formed rows and entries, and a few rows      *)
(* without length or with an impossible one.                               *)
(***************************************************************************)
EXTENDS PfrCustomer

MCRows == [addr : Address, len : 0..Width]
              \cup [addr : {0, 65, 200}, len : {Width + 1, NoLen}]
MCEntries == [addr : Address, len : 0..Width]
=============================================================================
