------------------------------ MODULE Delivery ------------------------------
(***************************************************************************)
(* What a client is told: the gRPC handlers of both services, their error  *)
(* mapping and interceptors, and the gateway that turns a gRPC code into   *)
(* an HTTP status.  Errors are named as in the source; "nil" is success,   *)
(* "required" the error of a missing field, "internal" any other error.    *)
(***************************************************************************)
EXTENDS Naturals

-----------------------------------------------------------------------------
(* The errors each method of the identity service can return: those of its *)
(* own checks, then those of the use case.                                 *)

RequestOtpErrors == {"required", "otp.ErrRateLimited", "internal"}

VerifyOtpErrors ==
    {"required", "otp.ErrInvalidCode", "otp.ErrTooManyAttempts",
     "domain.ErrLoginNotAllowed", "internal"}

CompleteSignupErrors ==
    {"required", "token.ErrInvalidFlowToken", "domain.ErrCredentialConflict", "internal"}

CompleteReactivationErrors ==
    {"required", "usecase.ErrConsentRequired", "token.ErrInvalidFlowToken",
     "domain.ErrUserNotFound", "domain.ErrInvalidTransition", "internal"}

VerifyDeviceErrors ==
    {"required", "token.ErrInvalidFlowToken", "devverify.ErrTooManyAttempts",
     "domain.ErrUserNotFound", "usecase.ErrDeviceVerifyFailed", "internal"}

\* Refresh before the rotation (the grant is the supported one), and after it:
\* the user and the profile are loaded when the presented token is spent.
RotateErrors == {"internal"}
IssueTokenErrors == {"domain.ErrUserNotFound", "internal"}

Outcome(err, effect) == [err |-> err, effect |-> effect]

\* The INSERT may fail, and so may the SELECT that reads the post back, or it
\* no longer finds the post.
CreateOutcomes ==
    {Outcome("nil", TRUE), Outcome("internal", FALSE), Outcome("internal", TRUE),
     Outcome("domain.ErrPostNotFound", TRUE)}

InvalidPost == Outcome("domain.ErrInvalidPost", FALSE)

\* CreatePost with a verified author.
CreatePostOutcomes == {InvalidPost} \cup CreateOutcomes

-----------------------------------------------------------------------------

\* mapErr of the identity service and of the board.
mapErr(err) ==
    CASE err = "nil" -> "OK"
      [] err \in {"required", "usecase.ErrConsentRequired", "usecase.ErrUnsupportedGrant"}
            -> "InvalidArgument"
      [] err = "otp.ErrRateLimited" -> "ResourceExhausted"
      [] err \in {"otp.ErrInvalidCode", "otp.ErrTooManyAttempts", "rtr.ErrInvalidToken",
                  "rtr.ErrReuseDetected", "token.ErrInvalidFlowToken",
                  "usecase.ErrDeviceVerifyFailed", "devverify.ErrTooManyAttempts",
                  "domain.ErrUserNotFound"} -> "Unauthenticated"
      [] err = "domain.ErrInvalidTransition" -> "FailedPrecondition"
      [] err = "domain.ErrLoginNotAllowed" -> "PermissionDenied"
      [] err = "domain.ErrCredentialConflict" -> "AlreadyExists"
      [] OTHER -> "Internal"

mapPostErr(err) ==
    CASE err = "nil" -> "OK"
      [] err = "domain.ErrInvalidPost" -> "InvalidArgument"
      [] err = "domain.ErrPostNotFound" -> "NotFound"
      [] err = "domain.ErrNotAuthorized" -> "PermissionDenied"
      [] OTHER -> "Internal"

HTTPStatusFromCode(code) ==
    CASE code = "OK" -> 200
      [] code \in {"InvalidArgument", "FailedPrecondition"} -> 400
      [] code = "Unauthenticated" -> 401
      [] code = "PermissionDenied" -> 403
      [] code = "NotFound" -> 404
      [] code = "AlreadyExists" -> 409
      [] code = "ResourceExhausted" -> 429
      [] OTHER -> 500

-----------------------------------------------------------------------------
(* Whole requests, as sets of the replies they can get: the HTTP status    *)
(* and whether the request had its effect.                                 *)

PostReply(o) == [status |-> HTTPStatusFromCode(mapPostErr(o.err)), effect |-> o.effect]

Unauthenticated == [status |-> 401, effect |-> FALSE]

\* Mutant: the token is looked at when the handler has run.
AuthInterceptor_Late(bearer, replies) ==
    {[r EXCEPT !.status = 401] : r \in replies} \cup (IF bearer THEN replies ELSE {})

\* A method that requires a token runs its handler only for a verified one.
\* A token that is there may have expired or lack a key to verify it with.
AuthInterceptor(bearer, replies) ==
    {Unauthenticated} \cup (IF bearer THEN replies ELSE {})

CreatePostReplies(bearer) ==
    AuthInterceptor(bearer, {PostReply(o) : o \in CreatePostOutcomes})

LoginStatuses ==
    {HTTPStatusFromCode(mapErr(err)) :
        err \in {"nil"} \cup RequestOtpErrors \cup VerifyOtpErrors \cup CompleteSignupErrors
                        \cup CompleteReactivationErrors \cup VerifyDeviceErrors}
=============================================================================
