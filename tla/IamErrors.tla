------------------------------ MODULE IamErrors ------------------------------
(***************************************************************************)
(* The errors an IAM call can return, as the code tells them apart, and    *)
(* what isTransientIAMError (pkg/infra/iam/retry.go) and wrapAuthError     *)
(* (pkg/gcp/iam/client.go) make of them.  isNotFoundError and              *)
(* isAlreadyExistsError are tests for notFound and conflict.               *)
(*                                                                         *)
(*   notFound      googleapi.Error 404                                     *)
(*   rateLimited   googleapi.Error 429                                     *)
(*   iamNotReady   googleapi.Error 400 whose message names IAM, a policy,  *)
(*                 a permission or a missing service account               *)
(*   permission    googleapi.Error 403 whose message names Permission or   *)
(*                 policy                                                  *)
(*   forbidden     any other googleapi.Error 403                           *)
(*   conflict      googleapi.Error 409: the name exists, or the etag of a  *)
(*                 policy has moved on                                     *)
(*   unavailable   any other googleapi.Error (bad request, 5xx)            *)
(*   untyped       no googleapi.Error in the chain: transport failure,     *)
(*                 cancelled context, operation that timed out or failed   *)
(***************************************************************************)

ErrorKinds == {"notFound", "rateLimited", "iamNotReady", "permission",
               "forbidden", "conflict", "unavailable", "untyped"}

isTransientIAMError(e) ==
    e \in {"notFound", "rateLimited", "iamNotReady", "permission"}

(* A 403 is formatted with %v: the message survives, the type does not.    *)
wrapAuthError(e) == IF e \in {"permission", "forbidden"} THEN "untyped" ELSE e
=============================================================================
