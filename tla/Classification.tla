--------------------------- MODULE Classification --------------------------
(***************************************************************************)
(* How the SDK reads what came back from an attempt to reach the server:   *)
(* raise_for_status, _classify and translate_request_error of              *)
(* _transport.py, and _is_retryable of resilience.py.                      *)
(***************************************************************************)

(* ok: 2xx.  redirect: 3xx.  auth: 401, 403.  rejected: 400, 404, 422.     *)
(* other4xx: the rest of 4xx.  server: 5xx.  timeout, transport: httpx     *)
(* errors.                                                                 *)
(* discovery: the endpoint could not be resolved.  broken: an exception    *)
(* that is not a LogDBError (the body cannot be serialised, the HTTP       *)
(* client is closed).  interrupt: KeyboardInterrupt, or a cancelled task.  *)
AllAnswers == {"ok", "redirect", "auth", "rejected", "other4xx", "server",
               "timeout", "transport", "discovery", "broken", "interrupt"}

PassesStatus(a) == a \in {"ok", "redirect"}     \* raise_for_status: < 400

HttpError(a) == CASE a = "auth"     -> "auth"   \* _classify
                  [] a = "rejected" -> "config"
                  [] a \in {"other4xx", "server"} -> "network"

RequestError(a) == IF a = "timeout" THEN "timeout" ELSE "network"

ErrorOf(a) ==
  CASE PassesStatus(a) -> "none"
    [] a \in {"auth", "rejected", "other4xx", "server"} -> HttpError(a)
    [] a \in {"timeout", "transport"} -> RequestError(a)
    [] a = "discovery" -> "config"
    [] a = "broken"    -> "exception"
    [] a = "interrupt" -> "base"

Retryable_Config(e) == e \notin {"none", "auth", "base"}   \* fault
Retryable(e) == e \notin {"none", "auth", "config", "base"}

IsLogDBError_NoConfig(e) ==                  \* fault: another base class
  e \in {"auth", "network", "timeout"}
IsLogDBError(e) == e \in {"auth", "config", "network", "timeout"}
=============================================================================
