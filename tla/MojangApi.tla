------------------------------ MODULE MojangApi ------------------------------
(***************************************************************************)
(* The two requests of src/api/mojang/mojang.go, as what they make of a    *)
(* response: its status, and whether its body is read and decodes. What a  *)
(* body holds is up to the module that asks.                               *)
(***************************************************************************)
EXTENDS Naturals

\* A status for each case of validateResponse, one for which there is none, and
\* 0 for HttpClient.Do that returns an error.
Responses == [status : {0, 200, 204, 400, 403, 404, 429, 500}, decodes : BOOLEAN]

\* validateResponse. The error a body of status 400 is decoded into stays nil
\* if it does not decode, and reading its fields panics.
ValidateResponse(response) ==
  CASE response.status = 204 -> "EmptyResponse"
    [] response.status = 400 -> IF response.decodes THEN "BadRequestError" ELSE "panic"
    [] response.status = 403 -> "ForbiddenError"
    [] response.status = 429 -> "TooManyRequestsError"
    [] response.status >= 500 -> "ServerError"
    [] OTHER -> "nil"

\* The error either request returns.
Error(response) == IF response.status = 0 THEN "transport" ELSE ValidateResponse(response)

\* What is decoded from the body of any status that validateResponse lets
\* through, or nothing: errors of reading and decoding are ignored.
Decoded(response, body, nothing) ==
  IF Error(response) = "nil" /\ response.decodes THEN body ELSE nothing

\* UsernamesToUuids, where the body lists the given profiles.
UsernamesToUuids(response, profiles) ==
  [error |-> Error(response), profiles |-> Decoded(response, profiles, << >>)]

\* UuidToTextures, where the body holds the given textures.
UuidToTextures(response, textures, nil) ==
  [error |-> Error(response), textures |-> Decoded(response, textures, nil)]

=============================================================================
