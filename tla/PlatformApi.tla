----------------------------- MODULE PlatformApi -----------------------------
(***************************************************************************)
(* The typed REST client of the platform API (pkg/platformapi) and the     *)
(* server behind it.  The client sends each write once (MaxRetries(0)) and *)
(* turns the result into a verdict: success, a definite failure, or an     *)
(* uncertain outcome that asks the user to look before he retries.         *)
(*                                                                         *)
(* A request may be carried out long after the client gave up on it, and   *)
(* an answer may be lost or unreadable.  The server is external: it keeps  *)
(* Kubernetes-style objects, refuses a POST of a name that is taken and a  *)
(* PUT whose resource version is not the current one with 409, an answer   *)
(* below 500 tells what it did, and one from 500 on tells nothing.         *)
(*                                                                         *)
(* One object of each kind is enough, for names do not interact.  Its      *)
(* contents are three groups of fields, each as the version of the last    *)
(* write that meant it: own is what the commands set, extra an optional    *)
(* part of it (the exclusions of an upgrade policy), rest everything else. *)
(***************************************************************************)
EXTENDS Naturals

CONSTANT Commands      \* invocations of the program

ASSUME CommandsAssumption == "others" \notin Commands

VARIABLES
    at,          \* at[c]: what the invocation does next
    store,       \* store[k]: the object of kind k, as the server has it
    version,     \* resource version of the last write
    sent,        \* sent[c]: the write of c that the server has not handled
    reply,       \* reply[c]: the server's answer to it, not yet received
    effect       \* commands whose write was carried out (for the properties)

serverVars == <<store, version, sent, reply, effect>>

Kinds == {"clusters", "nodepools", "controlplaneupgradepolicies", "roles", "rolebindings"}
Fields == {"own", "extra", "rest"}

Objects == [is : {"none", "live", "deleting"}, rv : Nat,
            maker : Commands \cup {"others"}, fields : [Fields -> Nat]]

Absent == [is |-> "none", rv |-> 0, maker |-> "others", fields |-> [f \in Fields |-> 0]]

-----------------------------------------------------------------------------
(* The calls: method, resource and the flag nonIdempotent, which each call *)
(* site states for itself.                                                 *)
Calls == [method : {"none", "POST", "PUT", "PATCH", "DELETE"}, resource : Kinds,
          nonIdempotent : BOOLEAN]

NoCall == [method |-> "none", resource |-> "clusters", nonIdempotent |-> FALSE]

ClusterCreate == [method |-> "POST", resource |-> "clusters", nonIdempotent |-> TRUE]
ClusterDelete == [method |-> "DELETE", resource |-> "clusters", nonIdempotent |-> FALSE]
NodePoolCreate == [method |-> "POST", resource |-> "nodepools", nonIdempotent |-> TRUE]
NodePoolPatch == [method |-> "PATCH", resource |-> "nodepools", nonIdempotent |-> FALSE]
NodePoolDelete == [method |-> "DELETE", resource |-> "nodepools", nonIdempotent |-> FALSE]
PolicyCreate == [method |-> "POST", resource |-> "controlplaneupgradepolicies",
                 nonIdempotent |-> TRUE]
PolicyPatch == [method |-> "PATCH", resource |-> "controlplaneupgradepolicies",
                nonIdempotent |-> FALSE]
PolicyDelete == [method |-> "DELETE", resource |-> "controlplaneupgradepolicies",
                 nonIdempotent |-> FALSE]
RoleCreate == [method |-> "POST", resource |-> "roles", nonIdempotent |-> TRUE]
RoleUpdate == [method |-> "PUT", resource |-> "roles", nonIdempotent |-> TRUE]
RoleDelete == [method |-> "DELETE", resource |-> "roles", nonIdempotent |-> FALSE]
RoleBindingCreate == [method |-> "POST", resource |-> "rolebindings", nonIdempotent |-> TRUE]
RoleBindingDelete == [method |-> "DELETE", resource |-> "rolebindings", nonIdempotent |-> FALSE]

(* What travels: the call, the fields a PATCH names, and the object a PUT  *)
(* was made from.                                                          *)
Requests == [call : Calls, fields : SUBSET Fields, base : Objects]

NoRequest == [call |-> NoCall, fields |-> {}, base |-> Absent]

(* Status 0: no answer; 400: any refusal but a conflict; 500: any failure  *)
(* of the server or of something before it.  An answer is valid if it      *)
(* decodes as the kind that was asked for.                                 *)
Statuses == {0, 200, 400, 409, 500}
Replies == [status : Statuses, valid : BOOLEAN]
NoReply == [status |-> 0, valid |-> FALSE]

-----------------------------------------------------------------------------
(* Mutant: an answer from 500 on counts as a definite failure.             *)
normalizeIgnoring5xx(call, status) ==
    IF status = 200 THEN "ok"
    ELSE IF call.nonIdempotent
            /\ (status = 0 \/ (status = 409 /\ call.method # "PUT"))
         THEN "uncertain"
         ELSE "failed"

(* A failed result as the caller sees it.                                  *)
normalizeResult(call, status) ==
    IF status = 200 THEN "ok"
    ELSE IF call.nonIdempotent
            /\ (status = 0 \/ status >= 500 \/ (status = 409 /\ call.method # "PUT"))
         THEN "uncertain"
         ELSE "failed"

(* Mutant: a success whose body is not understood is a failure.            *)
decodeResultDefinite(call, r) ==
    IF normalizeResult(call, r.status) # "ok" \/ call.method = "DELETE" \/ r.valid
    THEN normalizeResult(call, r.status)
    ELSE "failed"

(* Every result, with the answer's body; a DELETE needs none.              *)
decodeResult(call, r) ==
    IF normalizeResult(call, r.status) # "ok" \/ call.method = "DELETE" \/ r.valid
    THEN normalizeResult(call, r.status)
    ELSE IF call.nonIdempotent THEN "uncertain" ELSE "failed"

-----------------------------------------------------------------------------
InFlight(c) == sent[c].call # NoCall

Target(c) == store[sent[c].call.resource]

ServerInit ==
    /\ store \in [Kinds -> {Absent, [Absent EXCEPT !.is = "live"]}]
    /\ version = 0
    /\ sent = [c \in Commands |-> NoRequest]
    /\ reply = [c \in Commands |-> NoReply]
    /\ effect = {}

(* The client sends its request.                                           *)
Send(c, call, fields, base) ==
    /\ sent' = [sent EXCEPT ![c] = [call |-> call, fields |-> fields, base |-> base]]
    /\ UNCHANGED <<store, version, reply, effect>>

(* The server is done with the request; its answer finds the client, or    *)
(* the client has given up.                                                *)
Answer(c, statuses) ==
    /\ sent' = [sent EXCEPT ![c] = NoRequest]
    /\ IF at[c] = "wait"
       THEN \E s \in statuses, v \in BOOLEAN :
                /\ s # 200 => ~v
                /\ reply' = [reply EXCEPT ![c] = [status |-> s, valid |-> v]]
       ELSE UNCHANGED reply

(* The request is carried out; the server may still fail afterwards.       *)
CarryOut(c, o) ==
    /\ store' = [store EXCEPT ![sent[c].call.resource] = o]
    /\ version' = version + 1
    /\ effect' = effect \cup {c}
    /\ Answer(c, {200, 500})

Post(c) ==
    /\ InFlight(c) /\ sent[c].call.method = "POST"
    /\ Target(c).is = "none"
    /\ CarryOut(c, [is |-> "live", rv |-> version + 1, maker |-> c,
                    fields |-> [f \in Fields |-> version + 1]])

(* A PUT replaces the object by the one the client read, changed.          *)
Put(c) ==
    /\ InFlight(c) /\ sent[c].call.method = "PUT"
    /\ Target(c).is # "none"
    /\ Target(c).rv = sent[c].base.rv
    /\ CarryOut(c, [Target(c) EXCEPT !.rv = version + 1,
                        !.fields = [sent[c].base.fields EXCEPT !["own"] = version + 1]])

(* A merge patch changes the fields it names.                              *)
Patch(c) ==
    /\ InFlight(c) /\ sent[c].call.method = "PATCH"
    /\ Target(c).is # "none"
    /\ CarryOut(c, [Target(c) EXCEPT !.rv = version + 1,
                        !.fields = [f \in Fields |-> IF f \in sent[c].fields
                                                     THEN version + 1 ELSE @[f]]])

(* A deletion is accepted and takes its time.                              *)
Delete(c) ==
    /\ InFlight(c) /\ sent[c].call.method = "DELETE"
    /\ Target(c).is # "none"
    /\ CarryOut(c, [Target(c) EXCEPT !.is = "deleting", !.rv = version + 1])

Conflict(c) ==
    /\ Target(c).is # "none"
    /\ \/ sent[c].call.method = "POST"
       \/ sent[c].call.method = "PUT" /\ Target(c).rv # sent[c].base.rv

(* Conflict, nothing there, or refused for another reason: no effect.      *)
Refusals(c) == {400, 500} \cup {s \in {409} : Conflict(c)}

Refuse(c) ==
    /\ InFlight(c)
    /\ Answer(c, Refusals(c))
    /\ UNCHANGED <<store, version, effect>>

(* The request never arrives.                                              *)
Vanish(c) ==
    /\ InFlight(c)
    /\ sent' = [sent EXCEPT ![c] = NoRequest]
    /\ UNCHANGED <<store, version, reply, effect>>

(* Somebody else creates or changes an object, means any of its fields, or *)
(* deletes it; a deletion completes.                                       *)
OthersWrite(k) ==
    /\ version' = version + 1
    /\ \/ /\ store[k].is = "none"
          /\ store' = [store EXCEPT ![k] = [is |-> "live", rv |-> version + 1,
                           maker |-> "others", fields |-> [f \in Fields |-> version + 1]]]
       \/ /\ store[k].is = "live"
          /\ \E f \in Fields : store' =
                [store EXCEPT ![k].rv = version + 1, ![k].fields[f] = version + 1]
       \/ /\ store[k].is = "live"
          /\ store' = [store EXCEPT ![k].rv = version + 1, ![k].is = "deleting"]
    /\ UNCHANGED <<sent, reply, effect>>

DeletionDone(k) ==
    /\ store[k].is = "deleting"
    /\ store' = [store EXCEPT ![k] = Absent]
    /\ UNCHANGED <<version, sent, reply, effect>>

Serve(c) == Post(c) \/ Put(c) \/ Patch(c) \/ Delete(c) \/ Refuse(c) \/ Vanish(c)

ServerTypeOK ==
    /\ store \in [Kinds -> Objects]
    /\ version \in Nat
    /\ sent \in [Commands -> Requests]
    /\ reply \in [Commands -> Replies]
    /\ effect \in SUBSET Commands
=============================================================================
