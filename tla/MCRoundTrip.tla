------------------------------ MODULE MCRoundTrip ------------------------------
(****************************************************************************)
(* RoundTrip for every calculation with finite operands, some with others,  *)
(* the query for the operations, and a choice of requests that the page     *)
(* never sends: each part of a request wrong on its own and in pairs.       *)
(****************************************************************************)
EXTENDS RoundTrip

Calculation(op, a, b) == [kind |-> "calculate", operation |-> op, a |-> a, b |-> b]

Finite == {x \in Float : isFinite(x)}

MCCall ==
  {Calculation(op, a, b) : op \in Binary, a \in Finite, b \in Finite}
  \cup {Calculation("sqrt", a, Null) : a \in Float}
  \cup {Calculation("divide", NaN, One), Calculation("power", One, Infinity(-1))}
  \cup {[kind |-> "operations", operation |-> Null, a |-> Null, b |-> Null]}

MCBody ==
  [first : {"object", "null", "bad", "tooLarge"}, rest : {"eof", "more", "tooLarge"},
   operation : {"", "divide", "sqrt", "modulo"}, a : {Null, One}, b : {Null, Zero(1)}]

MCOtherRequest ==
  [method : {"POST"}, path : {"/v1/calculate"}, media : {"application/json"}, body : MCBody]
  \cup [method : {"POST"}, path : {"/v1/calculate"}, media : {"text/plain"},
        body : [first : {"object", "bad"}, rest : {"eof"}, operation : {"sqrt"}, a : {One}, b : {Null}]]
  \cup [method : {"GET", "HEAD", "DELETE", "OPTIONS"},
        path : {"/v1/calculate", "/v1/operations", "/v2"}, media : {Null}, body : {Null}]
=============================================================================
