--------------------------- MODULE MCRequestTimeout ---------------------------
(****************************************************************************)
(* The small instance of RequestTimeout.                                    *)
(****************************************************************************)
EXTENDS RequestTimeout

(* A success and the refusal of an operand.                                 *)
MCStatus == {200, 422}
=============================================================================
