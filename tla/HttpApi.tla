-------------------------------- MODULE HttpApi --------------------------------
(****************************************************************************)
(* internal/httpapi: what the router and its handlers make of one request.  *)
(*                                                                          *)
(* A body is what its JSON decoder will find in it: `first`, the outcome of *)
(* decoding one value into a CalculateRequest ("object", "null", "bad" or   *)
(* "tooLarge", by where the 4096 bytes end), `rest`, what a second Decode   *)
(* reports ("eof", "more", "tooLarge"), and the members, a missing one and  *)
(* a null being the same.                                                   *)
(****************************************************************************)
EXTENDS Arithmetic

Code ==
  {"INVALID_BODY", "VALIDATION_FAILED", "UNSUPPORTED_OPERATION", "UNEXPECTED_OPERAND",
   "DIVISION_BY_ZERO", "DOMAIN_ERROR", "RESULT_NOT_FINITE", "UNSUPPORTED_MEDIA_TYPE",
   "PAYLOAD_TOO_LARGE", "NOT_FOUND", "NOT_READY", "METHOD_NOT_ALLOWED", "RATE_LIMITED",
   "TIMEOUT", "INTERNAL"}

Status(code) ==
  CASE code \in {"INVALID_BODY", "VALIDATION_FAILED"} -> 400
    [] code \in {"UNSUPPORTED_OPERATION", "UNEXPECTED_OPERAND", "DIVISION_BY_ZERO",
                 "DOMAIN_ERROR", "RESULT_NOT_FINITE"} -> 422
    [] code = "UNSUPPORTED_MEDIA_TYPE" -> 415
    [] code = "PAYLOAD_TOO_LARGE"      -> 413
    [] code = "NOT_FOUND"              -> 404
    [] code = "METHOD_NOT_ALLOWED"     -> 405
    [] code = "RATE_LIMITED"           -> 429
    [] code \in {"TIMEOUT", "NOT_READY"} -> 503
    [] OTHER                           -> 500

(* The code of the problem with the body, or Null.                          *)
decodeJSON(media, body) ==
  IF media # "application/json" THEN "UNSUPPORTED_MEDIA_TYPE"
  ELSE IF body.first = "tooLarge" THEN "PAYLOAD_TOO_LARGE"
  ELSE IF body.first # "object" THEN "INVALID_BODY"
  ELSE IF body.rest = "tooLarge" THEN "PAYLOAD_TOO_LARGE"
  ELSE IF body.rest # "eof" THEN "INVALID_BODY"
  ELSE Null

(* A mistake: an operand too many is left for Evaluate to find.             *)
validateTooFew(body) ==
  IF \/ body.operation = "" \/ body.a = Null
     \/ body.operation \in Binary /\ body.b = Null
  THEN "VALIDATION_FAILED"
  ELSE IF body.operation \notin Registry THEN "UNSUPPORTED_OPERATION"
  ELSE Null

(* encoding/json never produces a non-finite float64, so the finiteness     *)
(* checks of validate() find nothing.                                       *)
validate(body) ==
  LET known == body.operation \in Registry
  IN  IF \/ body.operation = ""
         \/ body.a = Null
         \/ known /\ Arity(body.operation) = 2 /\ body.b = Null
      THEN "VALIDATION_FAILED"
      ELSE IF ~known THEN "UNSUPPORTED_OPERATION"
      ELSE IF Arity(body.operation) = 1 /\ body.b # Null THEN "UNEXPECTED_OPERAND"
      ELSE Null

mapError(error) ==
  CASE error = "ErrDivisionByZero"  -> "DIVISION_BY_ZERO"
    [] error = "ErrDomain"          -> "DOMAIN_ERROR"
    [] error = "ErrNotFinite"       -> "RESULT_NOT_FINITE"
    [] error = "ErrUnknownOperation" -> "UNSUPPORTED_OPERATION"
    [] OTHER                        -> "INTERNAL"

(* The outcome of evaluate(): the code of the problem or Null, and the      *)
(* response.                                                                *)
evaluate(request) ==
  LET body == request.body
      bad == IF decodeJSON(request.media, body) # Null THEN decodeJSON(request.media, body)
             ELSE validate(body)
      res == Evaluate(body.operation, body.a, body.b)
  IN  IF bad # Null THEN [code |-> bad, response |-> Null]
      ELSE [code |-> IF res.error = Null THEN Null ELSE mapError(res.error),
            response |-> IF res.error # Null THEN Null
                         ELSE [operation |-> body.operation, a |-> body.a, b |-> body.b,
                               result |-> res.value]]

operations == {[name |-> op, arity |-> Arity(op)] : op \in Registry}

(* The mux: a pattern with GET takes HEAD too, any other method gets a 405, *)
(* any other path a 404.                                                    *)
Route(request) ==
  LET Problem(code) == [code |-> code, response |-> Null]
      reads == request.method \in {"GET", "HEAD"}
  IN  CASE request.path = "/v1/calculate" ->
             IF request.method = "POST" THEN evaluate(request) ELSE Problem("METHOD_NOT_ALLOWED")
        [] request.path = "/v1/operations" ->
             IF reads THEN [code |-> Null, response |-> operations]
             ELSE Problem("METHOD_NOT_ALLOWED")
        [] OTHER -> Problem("NOT_FOUND")
=============================================================================
