--------------------------- MODULE RequestSnapshot ---------------------------
(***************************************************************************)
(* tracer.requestBody and captureRequestBody (pkg/httpdebug): before a     *)
(* traced request is sent, a worker makes a copy of its body and reads it. *)
(* Neither making, reading nor closing the copy need ever return; the      *)
(* request waits for the worker no longer than its context lives, and the  *)
(* end of the context closes the copy, to end a read of it.                *)
(***************************************************************************)
EXTENDS Naturals

VARIABLES
    cancelled,   \* the context of the request is over
    request,     \* the goroutine of the request
    worker,      \* the goroutine of the snapshot
    hook,        \* the function that runs when the context ends (AfterFunc)
    copy         \* the copy: whether there is one, closes begun and done

vars == <<cancelled, request, worker, hook, copy>>

Outcomes == {"none", "data", "canceled", "unavailable", "failed"}

TypeOK ==
    /\ cancelled \in BOOLEAN
    /\ request \in [at : {"check", "select", "shown", "sending", "aborted"}, shown : Outcomes]
    /\ worker \in [at : {"idle", "getBody", "open", "read", "close", "closing", "done"},
                   outcome : Outcomes]
    /\ hook \in {"none", "set", "close", "closing", "done", "stopped"}
    /\ copy \in [is : {"none", "open", "closed"}, closing : BOOLEAN, closes : 0 .. 2]

Init ==
    /\ cancelled \in BOOLEAN
    /\ request = [at |-> "check", shown |-> "none"]
    /\ worker = [at |-> "idle", outcome |-> "none"]
    /\ hook = "none"
    /\ copy = [is |-> "none", closing |-> FALSE, closes |-> 0]

Cancel ==
    /\ ~cancelled /\ cancelled' = TRUE
    /\ UNCHANGED <<request, worker, hook, copy>>

-----------------------------------------------------------------------------
(* What is logged of the body.                                             *)
Show(outcome) == request' = [at |-> "shown", shown |-> outcome]

requestBody ==
    /\ request.at = "check"
    /\ IF cancelled THEN Show("canceled") /\ UNCHANGED worker
       ELSE /\ request' = [request EXCEPT !.at = "select"]
            /\ worker' = [worker EXCEPT !.at = "getBody"]
    /\ UNCHANGED <<cancelled, hook, copy>>

(* Mutant: the request waits for its snapshot only.                        *)
SelectSnapshot ==
    /\ request.at = "select"
    /\ worker.at = "done" /\ Show(IF cancelled THEN "canceled" ELSE worker.outcome)
    /\ UNCHANGED <<cancelled, worker, hook, copy>>

Select ==
    /\ request.at = "select"
    /\ \/ worker.at = "done" /\ Show(IF cancelled THEN "canceled" ELSE worker.outcome)
       \/ cancelled /\ Show("canceled")
    /\ UNCHANGED <<cancelled, worker, hook, copy>>

(* The context is looked at once more before the request is sent.          *)
RoundTrip ==
    /\ request.at = "shown"
    /\ request' = [request EXCEPT !.at = IF cancelled THEN "aborted" ELSE "sending"]
    /\ UNCHANGED <<cancelled, worker, hook, copy>>

-----------------------------------------------------------------------------
WorkerAt(place, outcome) == worker' = [at |-> place, outcome |-> outcome]

(* The context is looked at again, GetBody may block for ever.             *)
GetBody ==
    /\ worker.at = "getBody"
    /\ \/ cancelled /\ WorkerAt("done", "canceled") /\ UNCHANGED <<hook, copy>>
       \/ WorkerAt("done", "unavailable") /\ UNCHANGED <<hook, copy>>
       \/ /\ copy' = [copy EXCEPT !.is = "open"]
          /\ hook' = "set"
          /\ WorkerAt("open", "none")
    /\ UNCHANGED <<cancelled, request>>

(* GetBody took until after the end, or failed with a copy: it is closed   *)
(* unread.                                                                 *)
CheckAgain ==
    /\ worker.at = "open"
    /\ IF cancelled THEN WorkerAt("close", "canceled")
       ELSE WorkerAt("read", "none") \/ WorkerAt("close", "unavailable")
    /\ UNCHANGED <<cancelled, request, hook, copy>>

ReadCopy ==
    /\ worker.at = "read"
    /\ \/ copy.is = "open" /\ WorkerAt("close", "data")
       \/ WorkerAt("close", "failed")
    /\ UNCHANGED <<cancelled, request, hook, copy>>

(* closeBody: the first closes, and the other does not wait.               *)
CloseByWorker ==
    /\ worker.at = "close"
    /\ IF copy.closing
       THEN WorkerAt("done", worker.outcome) /\ UNCHANGED copy
       ELSE /\ copy' = [copy EXCEPT !.closing = TRUE, !.closes = @ + 1]
            /\ WorkerAt("closing", worker.outcome)
    /\ UNCHANGED <<cancelled, request, hook>>

(* stop keeps a hook from running that does not run yet.                   *)
WorkerClosed ==
    /\ worker.at = "closing"
    /\ copy' = [copy EXCEPT !.is = "closed"]
    /\ WorkerAt("done", worker.outcome)
    /\ hook' = IF hook = "set" THEN "stopped" ELSE hook
    /\ UNCHANGED <<cancelled, request>>

HookRuns ==
    /\ hook = "set" /\ cancelled
    /\ hook' = "close"
    /\ UNCHANGED <<cancelled, request, worker, copy>>

CloseByHook ==
    /\ hook = "close"
    /\ IF copy.closing THEN hook' = "done" /\ UNCHANGED copy
       ELSE /\ copy' = [copy EXCEPT !.closing = TRUE, !.closes = @ + 1]
            /\ hook' = "closing"
    /\ UNCHANGED <<cancelled, request, worker>>

HookClosed ==
    /\ hook = "closing"
    /\ copy' = [copy EXCEPT !.is = "closed"]
    /\ hook' = "done"
    /\ UNCHANGED <<cancelled, request, worker>>

Next ==
    \/ Cancel \/ requestBody \/ Select \/ RoundTrip \/ GetBody \/ CheckAgain \/ ReadCopy
    \/ CloseByWorker \/ WorkerClosed \/ HookRuns \/ CloseByHook \/ HookClosed

(* The program runs; the copy need not.                                    *)
Fairness ==
    /\ WF_vars(requestBody) /\ WF_vars(Select) /\ WF_vars(RoundTrip)
    /\ WF_vars(CheckAgain \/ CloseByWorker) /\ WF_vars(HookRuns \/ CloseByHook)
    /\ WF_vars(copy.is = "closed" /\ ReadCopy)

Spec == Init /\ [][Next]_vars

-----------------------------------------------------------------------------
(* A copy is closed by one of the two that may, never by both, and the     *)
(* worker does not end before one of them has begun to, at whatever point  *)
(* of either the context ends (body.go:91-104).                            *)
ClosedOnce ==
    /\ copy.closes <= 1
    /\ worker.at = "done" /\ copy.is # "none" => copy.closes = 1

(* A request whose context ends is not held by its snapshot, even if the   *)
(* copy never comes, or never lets go (body.go:59-61).                     *)
RequestsGoOn == cancelled ~> request.at \in {"sending", "aborted"}
=============================================================================
