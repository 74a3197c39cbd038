--------------------------- MODULE RequestLedger ---------------------------
(***************************************************************************)
(* What the experience-map request table promises to its readers (GET      *)
(* /state, GET /requests/{id}, the chat and retry endpoints), without      *)
(* leases, owner tokens, workers or messages.                              *)
(*                                                                         *)
(*  - A session works on at most one request at a time.                    *)
(*  - A request starts once, ends completed or failed, and only a failed   *)
(*    request still marked retryable may run again.                        *)
(*  - A completed request keeps its status and its result for ever.  The   *)
(*    changes it shows are held by the main server and were made in the    *)
(*    same session.                                                        *)
(*                                                                         *)
(* ExperienceRequest implements this specification.                        *)
(***************************************************************************)
CONSTANTS Request, NoRequest, SessionOf

VARIABLES
  status,      (* [Request -> {"absent", "running", "completed", "failed"}] *)
  retryable,   (* may a failed request run again?                          *)
  shown,       (* whose commit a completed request shows, or NoRequest      *)
  committed    (* the main server applied the request's changes            *)

vars == <<status, retryable, shown, committed>>

Idle(s) == \A r \in Request : SessionOf[r] = s => status[r] # "running"

Init ==
  /\ status    = [r \in Request |-> "absent"]
  /\ retryable = [r \in Request |-> FALSE]
  /\ shown     = [r \in Request |-> NoRequest]
  /\ committed = [r \in Request |-> FALSE]

Start(r) ==
  /\ status[r] = "absent"
  /\ Idle(SessionOf[r])
  /\ status' = [status EXCEPT ![r] = "running"]
  /\ UNCHANGED <<retryable, shown, committed>>

Retry(r) ==
  /\ status[r] = "failed"
  /\ retryable[r]
  /\ Idle(SessionOf[r])
  /\ status' = [status EXCEPT ![r] = "running"]
  /\ retryable' = [retryable EXCEPT ![r] = FALSE]
  /\ UNCHANGED <<shown, committed>>

Complete(r, c) ==
  /\ status[r] = "running"
  /\ c # NoRequest => committed[c] /\ SessionOf[c] = SessionOf[r]
  /\ status' = [status EXCEPT ![r] = "completed"]
  /\ shown' = [shown EXCEPT ![r] = c]
  /\ UNCHANGED <<retryable, committed>>

Fail(r, again) ==
  /\ status[r] = "running"
  /\ status' = [status EXCEPT ![r] = "failed"]
  /\ retryable' = [retryable EXCEPT ![r] = again]
  /\ UNCHANGED <<shown, committed>>

(* A newer request of the session takes away the retry of the failed ones.  *)
Forfeit(newer) ==
  /\ retryable' = [r \in Request |->
       IF SessionOf[r] = SessionOf[newer] /\ r # newer /\ status[r] = "failed"
       THEN FALSE ELSE retryable[r]]
  /\ UNCHANGED <<status, shown, committed>>

(* The window in which the request can be retried closes.                  *)
Expire(r) ==
  /\ status[r] = "failed"
  /\ retryable' = [retryable EXCEPT ![r] = FALSE]
  /\ UNCHANGED <<status, shown, committed>>

(* The map changes, possibly long after the request stopped waiting.       *)
Commit(r) ==
  /\ status[r] # "absent"
  /\ committed' = [committed EXCEPT ![r] = TRUE]
  /\ UNCHANGED <<status, retryable, shown>>

Next ==
  \E r \in Request :
    \/ Start(r)
    \/ Retry(r)
    \/ \E c \in Request \cup {NoRequest} : Complete(r, c)
    \/ \E again \in BOOLEAN : Fail(r, again)
    \/ Commit(r)
    \/ Forfeit(r)
    \/ Expire(r)

Spec == Init /\ [][Next]_vars
=============================================================================
