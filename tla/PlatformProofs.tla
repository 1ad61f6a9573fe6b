---------------------------- MODULE PlatformProofs ----------------------------
(***************************************************************************)
(* Proofs about the commands over the platform API, for any number of      *)
(* invocations, any command lines and any catalog.                         *)
(*                                                                         *)
(* The invariant has four parts beside the types.  Dated: no version is    *)
(* from the future.  FreshBase: a role that was read and still has its     *)
(* version has its contents, so a PUT that is accepted puts back nothing   *)
(* old.  Protocol, for each invocation: it is where its command line leads *)
(* (Placed); its request is in flight, answered or given up, and what its  *)
(* answer may be tells what it did (Exchange); so its verdict is true      *)
(* (VerdictTrue); and the resources of an attempt are complete from the    *)
(* moment its cluster may come to exist (Backed).  Made: a cluster that    *)
(* one of them made is an effect of its request.                           *)
(***************************************************************************)
EXTENDS PlatformCommands, TLAPS

Dated ==
    /\ \A k \in Kinds :
        /\ store[k].rv <= version
        /\ \A f \in Fields : store[k].fields[f] <= version
        /\ store[k].rv = 0 => store[k].fields = Absent.fields
    /\ \A c \in Commands : seen[c].rv <= version /\ sent[c].base.rv <= version

FreshBase ==
    store["roles"].is # "none" =>
        \A c \in Commands :
            /\ seen[c].rv = store["roles"].rv => seen[c].fields = store["roles"].fields
            /\ sent[c].base.rv = store["roles"].rv
                  => sent[c].base.fields = store["roles"].fields

Placed(c) ==
    /\ at[c] \in {"send", "wait"} => CallOf(line[c].name) # NoCall
    /\ at[c] = "page" => line[c].name \in Listings
    /\ at[c] = "version" => line[c].name = "create cluster"
    /\ at[c] \in {"iam", "network"} => line[c].form = "setupInfra"
    /\ at[c] = "configs" => line[c].name = "create cluster" /\ line[c].form # "setupInfra"
    /\ at[c] = "get" => line[c].name \in DOMAIN ReadBy

Exchange(c) ==
    /\ InFlight(c) => sent[c].call = CallOf(line[c].name) /\ c \notin effect
    /\ at[c] \notin {"wait", "end"} => ~InFlight(c) /\ c \notin effect
    /\ at[c] # "wait" => reply[c] = NoReply
    /\ reply[c].status = 0 => reply[c] = NoReply
    /\ reply[c] # NoReply => ~InFlight(c)
    /\ reply[c].status = 200 => c \in effect
    /\ reply[c].status \in {400, 409} => c \notin effect

VerdictTrue(c) ==
    /\ verdict[c] = "ok" /\ line[c].name \notin Listings => c \in effect
    /\ verdict[c] = "failed" /\ CallOf(line[c].name).nonIdempotent
          => c \notin effect /\ ~InFlight(c)

Complete(c) == infra[c] = [iam |-> "full", network |-> "full"]

Backed(c) ==
    /\ at[c] = "network" => infra[c].iam = "full"
    /\ line[c].form = "setupInfra" /\ (at[c] \in {"send", "wait"} \/ InFlight(c) \/ c \in effect)
          => Complete(c)

Protocol == \A c \in Commands : Placed(c) /\ Exchange(c) /\ VerdictTrue(c) /\ Backed(c)

Made ==
    store["clusters"].is # "none" /\ store["clusters"].maker # "others"
        => store["clusters"].maker \in effect

Inv == TypeOK /\ Dated /\ FreshBase /\ Protocol /\ Made

-----------------------------------------------------------------------------
(* The calls are calls.                                                    *)
LEMMA CallTypes ==
  ASSUME NEW name
  PROVE  CallOf(name) \in Calls
  BY DEF CallOf, Calls, Kinds, NoCall, ClusterCreate, ClusterDelete, NodePoolCreate,
         NodePoolPatch, NodePoolDelete, PolicyCreate, PolicyPatch, PolicyDelete, RoleCreate,
         RoleUpdate, RoleDelete, RoleBindingCreate, RoleBindingDelete

(* Only roles are put.                                                     *)
LEMMA OnlyRolesPut ==
  ASSUME NEW name, CallOf(name).method = "PUT"
  PROVE  CallOf(name).resource = "roles"
  BY DEF CallOf, NoCall, ClusterCreate, ClusterDelete, NodePoolCreate,
         NodePoolPatch, NodePoolDelete, PolicyCreate, PolicyPatch, PolicyDelete, RoleCreate,
         RoleUpdate, RoleDelete, RoleBindingCreate, RoleBindingDelete

(* Only create cluster posts a cluster.                                    *)
LEMMA OnlyCreatePosts ==
  ASSUME NEW name, CallOf(name).method = "POST", CallOf(name).resource = "clusters"
  PROVE  name = "create cluster"
  BY DEF CallOf, NoCall, ClusterCreate, ClusterDelete, NodePoolCreate,
         NodePoolPatch, NodePoolDelete, PolicyCreate, PolicyPatch, PolicyDelete, RoleCreate,
         RoleUpdate, RoleDelete, RoleBindingCreate, RoleBindingDelete

(* What is not a listing has a call.                                       *)
LEMMA WritersCall ==
  ASSUME NEW l \in Lines, l.name \notin Listings
  PROVE  CallOf(l.name) # NoCall
  BY DEF Lines, Names, Listings, CallOf, NoCall, ClusterCreate, ClusterDelete, NodePoolCreate,
         NodePoolPatch, NodePoolDelete, PolicyCreate, PolicyPatch, PolicyDelete, RoleCreate,
         RoleUpdate, RoleDelete, RoleBindingCreate, RoleBindingDelete

LEMMA AbsentType == Absent \in Objects
  BY DEF Absent, Objects

(* A verdict is one of three.                                              *)
LEMMA DecodedTypes ==
  ASSUME NEW call, NEW r
  PROVE  decodeResult(call, r) \in {"ok", "failed", "uncertain"}
  BY DEF decodeResult, normalizeResult

-----------------------------------------------------------------------------
(* The initial state.                                                      *)
LEMMA InitInv == Init => Inv
  <1> SUFFICES ASSUME Init PROVE Inv
    OBVIOUS
  <1> USE DEF Init, ServerInit
  <1>0. \A k \in Kinds : /\ store[k] \in Objects
                         /\ store[k].rv = 0 /\ store[k].maker = "others"
                         /\ store[k].fields = Absent.fields
    BY DEF Absent, Objects
  <1>a. \A f \in Fields : Absent.fields[f] = 0
    BY DEF Absent
  <1>b. NoRequest.base = Absent /\ NoRequest.call = NoCall /\ NoReply.status = 0
    BY DEF NoRequest, NoReply
  <1>c. Absent.rv = 0
    BY DEF Absent
  <1>1. TypeOK
    <2>1. NoCall \in Calls
      BY DEF NoCall, Calls, Kinds
    <2>2. NoRequest \in Requests /\ NoReply \in Replies
      BY <2>1, AbsentType DEF NoRequest, Requests, NoReply, Replies, Statuses
    <2>3. ServerTypeOK
      BY <1>0, <2>2 DEF ServerTypeOK
    <2>4. <<>> \in Seq(Nat)
      OBVIOUS
    <2>5. NoListing \in Listed /\ NothingYet \in Provisioned
      BY <2>4 DEF NoListing, Listed, NothingYet, Provisioned, Extent
    <2>6. QED
      BY <2>3, <2>5, AbsentType DEF TypeOK, Places, Verdicts, NoLine
  <1>2. Dated
    BY <1>0, <1>a, <1>b, <1>c DEF Dated
  <1>3. FreshBase
    BY <1>0, <1>a, <1>b, <1>c DEF FreshBase, Kinds
  <1>4. Protocol
    <2>1. ASSUME NEW c \in Commands PROVE Placed(c)
      BY DEF Placed
    <2>2. ASSUME NEW c \in Commands PROVE Exchange(c)
      <3>1. sent[c] = NoRequest /\ reply[c] = NoReply /\ effect = {}
        OBVIOUS
      <3>2. QED
        BY <3>1, <1>b DEF Exchange, InFlight
    <2>3. ASSUME NEW c \in Commands PROVE VerdictTrue(c)
      BY DEF VerdictTrue
    <2>4. ASSUME NEW c \in Commands PROVE Backed(c)
      BY DEF Backed, NoLine
    <2>5. QED
      BY <2>1, <2>2, <2>3, <2>4 DEF Protocol
  <1>5. Made
    BY <1>0 DEF Made, Kinds
  <1>6. QED
    BY <1>1, <1>2, <1>3, <1>4, <1>5 DEF Inv
-----------------------------------------------------------------------------
(* Types.                                                                  *)
LEMMA NothingTypes == NoRequest \in Requests /\ NoReply \in Replies /\ NoCall \in Calls
  BY AbsentType DEF NoCall, Calls, Kinds, NoRequest, Requests, NoReply, Replies, Statuses

LEMMA AnswerTypes ==
  ASSUME ServerTypeOK, NEW c \in Commands, NEW S \in SUBSET Statuses, Answer(c, S)
  PROVE  sent' \in [Commands -> Requests] /\ reply' \in [Commands -> Replies]
  BY NothingTypes DEF ServerTypeOK, Answer, Replies

LEMMA CarryOutTypes ==
  ASSUME ServerTypeOK, NEW c \in Commands, NEW o \in Objects, CarryOut(c, o)
  PROVE  ServerTypeOK'
  <1>1. {200, 500} \in SUBSET Statuses
    BY DEF Statuses
  <1>2. sent' \in [Commands -> Requests] /\ reply' \in [Commands -> Replies]
    BY <1>1, AnswerTypes DEF CarryOut
  <1>3. sent[c].call.resource \in Kinds
    BY DEF ServerTypeOK, Requests, Calls
  <1>4. QED
    BY <1>2, <1>3 DEF ServerTypeOK, CarryOut

LEMMA ServeTypes ==
  ASSUME ServerTypeOK, NEW c \in Commands, Serve(c)
  PROVE  ServerTypeOK'
  <1>1. Target(c) \in Objects /\ sent[c].base \in Objects
    BY DEF ServerTypeOK, Requests, Calls, Target
  <1>2. version + 1 \in Nat
    BY DEF ServerTypeOK
  <1>3. CASE Post(c)
    <2>1. [is |-> "live", rv |-> version + 1, maker |-> c,
           fields |-> [f \in Fields |-> version + 1]] \in Objects
      BY <1>2 DEF Objects
    <2>2. QED
      BY <1>3, <2>1, CarryOutTypes DEF Post
  <1>4. CASE Put(c)
    <2>1. [Target(c) EXCEPT !.rv = version + 1,
              !.fields = [sent[c].base.fields EXCEPT !["own"] = version + 1]] \in Objects
      BY <1>1, <1>2 DEF Objects, Fields
    <2>2. QED
      BY <1>4, <2>1, CarryOutTypes DEF Put
  <1>5. CASE Patch(c)
    <2>1. [Target(c) EXCEPT !.rv = version + 1,
              !.fields = [f \in Fields |-> IF f \in sent[c].fields
                                           THEN version + 1 ELSE @[f]]] \in Objects
      BY <1>1, <1>2 DEF Objects
    <2>2. QED
      BY <1>5, <2>1, CarryOutTypes DEF Patch
  <1>6. CASE Delete(c)
    <2>1. [Target(c) EXCEPT !.is = "deleting", !.rv = version + 1] \in Objects
      BY <1>1, <1>2 DEF Objects
    <2>2. QED
      BY <1>6, <2>1, CarryOutTypes DEF Delete
  <1>7. CASE Refuse(c)
    <2>1. Refusals(c) \in SUBSET Statuses
      BY DEF Refusals, Statuses
    <2>2. QED
      BY <1>7, <2>1, AnswerTypes DEF Refuse, ServerTypeOK
  <1>8. CASE Vanish(c)
    BY <1>8, NothingTypes DEF Vanish, ServerTypeOK
  <1>9. QED
    BY <1>3, <1>4, <1>5, <1>6, <1>7, <1>8 DEF Serve

LEMMA OthersTypes ==
  ASSUME ServerTypeOK, NEW k \in Kinds, OthersWrite(k) \/ DeletionDone(k)
  PROVE  ServerTypeOK'
  <1>1. CASE OthersWrite(k)
    <2>1. version + 1 \in Nat /\ store[k] \in Objects
      BY DEF ServerTypeOK
    <2>2. [is |-> "live", rv |-> version + 1, maker |-> "others",
           fields |-> [f \in Fields |-> version + 1]] \in Objects
      BY <2>1 DEF Objects
    <2>3. store' \in [Kinds -> Objects]
      <3>1. ASSUME NEW o \in Objects, store' = [store EXCEPT ![k] = o]
            PROVE  store' \in [Kinds -> Objects]
        BY <3>1 DEF ServerTypeOK
      <3>2. ASSUME NEW f \in Fields
            PROVE  [store[k] EXCEPT !.rv = version + 1, !.fields[f] = version + 1] \in Objects
        BY <2>1 DEF Objects
      <3>3. ASSUME NEW f \in Fields,
                   store' = [store EXCEPT ![k].rv = version + 1, ![k].fields[f] = version + 1]
            PROVE  store' \in [Kinds -> Objects]
        BY <3>1, <3>2, <3>3, <2>1 DEF ServerTypeOK, Objects
      <3>4. [store[k] EXCEPT !.rv = version + 1, !.is = "deleting"] \in Objects
        BY <2>1 DEF Objects
      <3>5. QED
        BY <1>1, <2>1, <2>2, <3>1, <3>3, <3>4 DEF OthersWrite, ServerTypeOK
    <2>4. QED
      BY <1>1, <2>1, <2>3 DEF OthersWrite, ServerTypeOK
  <1>2. CASE DeletionDone(k)
    BY <1>2, AbsentType DEF DeletionDone, ServerTypeOK
  <1>3. QED
    BY <1>1, <1>2
(* The client's frame: what the actions of an invocation keep well formed. *)
LEMMA GoToTypes ==
  ASSUME TypeOK, NEW c \in Commands, NEW p \in Places \ {"idle", "end"}, GoTo(c, p),
         at[c] # "end"
  PROVE  /\ at' \in [Commands -> Places]
         /\ verdict' \in [Commands -> Verdicts]
         /\ \A d \in Commands : at'[d] = "end" <=> verdict'[d] # "none"
         /\ \A d \in Commands \ {c} : at'[d] = at[d]
         /\ at'[c] = p
  BY DEF TypeOK, GoTo

LEMMA EndWithTypes ==
  ASSUME TypeOK, NEW c \in Commands, NEW v \in Verdicts \ {"none"}, EndWith(c, v)
  PROVE  /\ at' \in [Commands -> Places]
         /\ verdict' \in [Commands -> Verdicts]
         /\ \A d \in Commands : at'[d] = "end" <=> verdict'[d] # "none"
         /\ \A d \in Commands \ {c} : at'[d] = at[d]
         /\ at'[c] = "end"
  BY DEF TypeOK, EndWith, Places

(* Verdicts and places move on together, and nobody goes back to idle.     *)
Onward(c) ==
    /\ at' \in [Commands -> Places]
    /\ verdict' \in [Commands -> Verdicts]
    /\ \A d \in Commands : at'[d] = "end" <=> verdict'[d] # "none"
    /\ \A d \in Commands \ {c} : at'[d] = at[d]
    /\ at'[c] # "idle"

LEMMA OnwardTypes ==
  ASSUME TypeOK, NEW c \in Commands, at[c] # "idle", Onward(c), ServerTypeOK',
         UNCHANGED <<line, catalog>>, seen' \in [Commands -> Objects],
         \A d \in Commands : seen'[d] # Absent => line[d].name = "update role",
         infra' \in [Commands -> Provisioned], listing' \in [Commands -> Listed]
  PROVE  TypeOK'
  <1>1. \A d \in Commands : at'[d] = "idle" <=> line'[d] = NoLine
    <2>1. \A d \in Commands : at'[d] = "idle" <=> at[d] = "idle"
      BY DEF Onward
    <2>2. line' = line
      OBVIOUS
    <2>3. QED
      BY <2>1, <2>2 DEF TypeOK
  <1>2. \A d \in Commands : at'[d] = "end" <=> verdict'[d] # "none"
    BY DEF Onward
  <1>3. at' \in [Commands -> Places] /\ verdict' \in [Commands -> Verdicts]
    BY DEF Onward
  <1>4. line' \in [Commands -> CommandLines \cup {NoLine}] /\ catalog' \in Catalogs
    BY DEF TypeOK
  <1>5. \A d \in Commands : seen'[d] # Absent => line'[d].name = "update role"
    OBVIOUS
  <1>6. QED
    BY <1>1, <1>2, <1>3, <1>4, <1>5 DEF TypeOK

LEMMA StartTypes ==
  ASSUME TypeOK, NEW c \in Commands, Start(c)
  PROVE  TypeOK'
  <1>1. PICK l \in CommandLines : line' = [line EXCEPT ![c] = l] /\ GoTo(c, FirstPlace(l.name))
    BY DEF Start
  <1>2. FirstPlace(l.name) \in Places \ {"idle", "end"}
    BY DEF FirstPlace, Places
  <1>3. l \in CommandLines /\ l # NoLine
    <2>1. l.name \in Names
      BY LinesAssumption DEF Lines
    <2>2. NoLine.name \notin Names
      BY DEF NoLine, Names, Listings
    <2>3. QED
      BY <2>1, <2>2
  <1>4. /\ at' \in [Commands -> Places] /\ verdict' \in [Commands -> Verdicts]
        /\ \A d \in Commands : at'[d] = "end" <=> verdict'[d] # "none"
        /\ \A d \in Commands \ {c} : at'[d] = at[d]
        /\ at'[c] # "idle"
    BY <1>1, <1>2, GoToTypes DEF Start
  <1>5. seen[c] = Absent /\ at[c] = "idle" /\ line[c] = NoLine
    <2>1. line[c] = NoLine
      BY DEF TypeOK, Start
    <2>2. line[c].name # "update role"
      BY <2>1 DEF NoLine
    <2>3. QED
      BY <2>1, <2>2 DEF TypeOK, Start
  <1>6. ServerTypeOK'
    BY DEF Start, serverVars, TypeOK, ServerTypeOK
  <1>7. line' \in [Commands -> CommandLines \cup {NoLine}]
    BY <1>1, <1>3 DEF TypeOK
  <1>8. \A d \in Commands : at'[d] = "idle" <=> line'[d] = NoLine
    BY <1>1, <1>3, <1>4 DEF TypeOK
  <1>9. UNCHANGED <<seen, infra, listing, catalog>>
    BY DEF Start
  <1>10. \A d \in Commands : seen'[d] # Absent => line'[d].name = "update role"
    BY <1>1, <1>5, <1>9 DEF TypeOK
  <1>11. QED
    BY <1>4, <1>6, <1>7, <1>8, <1>9, <1>10 DEF TypeOK

LEMMA ProceedsTypes ==
  ASSUME TypeOK, NEW c \in Commands, Proceeds(c) \/ GiveUp(c) \/ Killed(c)
  PROVE  TypeOK'
  <1> USE DEF Places
  <1>1. ASSUME NEW p \in Places \ {"idle", "end"}, GoTo(c, p), at[c] # "end"
        PROVE  Onward(c)
    BY <1>1, GoToTypes DEF Onward
  <1>2. ASSUME NEW v \in Verdicts \ {"none"}, EndWith(c, v)
        PROVE  Onward(c)
    BY <1>2, EndWithTypes DEF Onward
  <1>3. UNCHANGED serverVars => ServerTypeOK'
    BY DEF TypeOK, ServerTypeOK, serverVars
  <1>4. CASE validateVersion(c)
    <2>1. Onward(c)
      BY <1>1, <1>2, <1>4 DEF validateVersion, Verdicts
    <2>2. QED
      BY <1>3, <1>4, <2>1, OnwardTypes DEF validateVersion, TypeOK
  <1>5. CASE buildPayloadFromConfigs(c)
    <2>1. Onward(c)
      BY <1>1, <1>2, <1>5 DEF buildPayloadFromConfigs, Verdicts
    <2>2. QED
      BY <1>3, <1>5, <2>1, OnwardTypes DEF buildPayloadFromConfigs, TypeOK
  <1>6. CASE CreateIAM(c)
    <2>1. Onward(c)
      BY <1>1, <1>2, <1>6 DEF CreateIAM, Verdicts
    <2>2. infra' \in [Commands -> Provisioned]
      <3>1. ASSUME NEW r \in Extent PROVE [infra[c] EXCEPT !.iam = r] \in Provisioned
        BY <3>1 DEF TypeOK, Provisioned
      <3>2. PICK r \in Extent : infra' = [infra EXCEPT ![c].iam = r]
        BY <1>6 DEF CreateIAM, Extent
      <3>3. QED
        BY <3>1, <3>2 DEF TypeOK
    <2>3. QED
      BY <1>3, <1>6, <2>1, <2>2, OnwardTypes DEF CreateIAM, TypeOK
  <1>7. CASE CreateNetwork(c)
    <2>1. Onward(c)
      BY <1>1, <1>2, <1>7 DEF CreateNetwork, Verdicts
    <2>2. infra' \in [Commands -> Provisioned]
      <3>1. ASSUME NEW r \in Extent PROVE [infra[c] EXCEPT !.network = r] \in Provisioned
        BY <3>1 DEF TypeOK, Provisioned
      <3>2. PICK r \in Extent : infra' = [infra EXCEPT ![c].network = r]
        BY <1>7 DEF CreateNetwork, Extent
      <3>3. QED
        BY <3>1, <3>2 DEF TypeOK
    <2>3. QED
      BY <1>3, <1>7, <2>1, <2>2, OnwardTypes DEF CreateNetwork, TypeOK
  <1>8. CASE ReadFirst(c)
    <2>1. Onward(c)
      BY <1>1, <1>2, <1>8 DEF ReadFirst, Verdicts
    <2>2. /\ seen' \in [Commands -> Objects]
          /\ \A d \in Commands : seen'[d] # Absent => line[d].name = "update role"
      <3>1. line[c].name = "update role" => store["roles"] \in Objects
        BY DEF TypeOK, ServerTypeOK, Kinds
      <3>2. line[c].name = "update role" => ReadBy[line[c].name] = "roles"
        BY DEF ReadBy
      <3>3. CASE UNCHANGED seen
        BY <3>3 DEF TypeOK
      <3>4. CASE seen' = [seen EXCEPT ![c] = Absent]
        BY <3>4, AbsentType DEF TypeOK
      <3>5. CASE /\ line[c].name = "update role"
                 /\ seen' = [seen EXCEPT ![c] = store["roles"]]
        BY <3>1, <3>5 DEF TypeOK
      <3>6. QED
        BY <1>8, <3>2, <3>3, <3>4, <3>5 DEF ReadFirst
    <2>3. QED
      BY <1>3, <1>8, <2>1, <2>2, OnwardTypes DEF ReadFirst, TypeOK
  <1>9. CASE SendWrite(c)
    <2>1. Onward(c)
      BY <1>1, <1>9 DEF SendWrite
    <2>2. PatchedFields(line[c]) \in SUBSET Fields
      BY DEF PatchedFields, Fields
    <2>3. [call |-> CallOf(line[c].name), fields |-> PatchedFields(line[c]), base |-> seen[c]]
              \in Requests
      BY <2>2, CallTypes DEF Requests, TypeOK
    <2>4. ServerTypeOK'
      BY <1>9, <2>3 DEF SendWrite, Send, TypeOK, ServerTypeOK
    <2>5. QED
      BY <1>9, <2>1, <2>4, AbsentType, OnwardTypes DEF SendWrite, TypeOK
  <1>10. CASE Receive(c) \/ GiveUp(c) \/ Killed(c)
    <2>1. Onward(c)
      BY <1>2, <1>10, DecodedTypes DEF Receive, GiveUp, Killed, Verdicts
    <2>2. ServerTypeOK'
      BY <1>10, NothingTypes DEF Receive, GiveUp, Killed, TypeOK, ServerTypeOK
    <2>3. QED
      BY <1>10, <2>1, <2>2, OnwardTypes DEF Receive, GiveUp, Killed, TypeOK
  <1>11. CASE FetchPage(c)
    <2>1. Onward(c)
      BY <1>1, <1>2, <1>11 DEF FetchPage, Verdicts
    <2>2. listing' \in [Commands -> Listed]
      <3>1. listing[c] \in Listed
        BY DEF TypeOK
      <3>2. ASSUME NEW t \in NextTokens(listing[c].token)
            PROVE  t \in Nat
        <4>1. listing[c].token \in Nat /\ catalog \in Nat
          BY <3>1, ListAssumption DEF Listed, TypeOK
        <4>2. CASE ~(catalog > 0)
          BY <3>2, <4>2, ListAssumption DEF NextTokens
        <4>3. CASE catalog > 0
          BY <3>2, <4>1, <4>3 DEF NextTokens
        <4>4. QED
          BY <4>2, <4>3
      <3>3. ASSUME NEW t \in Nat PROVE WithPage(c, t) \in Listed
        <4>1. /\ listing[c].seen \cup {u \in {t} : ~NeverSent(u)} \in SUBSET Nat
              /\ Append(listing[c].items, listing[c].token) \in Seq(Nat)
              /\ listing[c].items \in Seq(Nat)
              /\ listing[c].pages \in Nat /\ listing[c].pages + 1 \in Nat
          BY <3>1, <3>3 DEF Listed
        <4>2. QED
          BY <3>3, <4>1 DEF WithPage, Listed
      <3>4. CASE UNCHANGED listing
        BY <3>4 DEF TypeOK
      <3>5. CASE \E t \in NextTokens(listing[c].token) :
                    listing' = [listing EXCEPT ![c] = WithPage(c, t)]
        <4>1. PICK t \in NextTokens(listing[c].token) :
                  listing' = [listing EXCEPT ![c] = WithPage(c, t)]
          BY <3>5
        <4>2. WithPage(c, t) \in Listed
          BY <3>2, <3>3
        <4>3. QED
          BY <4>1, <4>2 DEF TypeOK
      <3>6. QED
        BY <1>11, <3>4, <3>5 DEF FetchPage
    <2>3. QED
      BY <1>3, <1>11, <2>1, <2>2, OnwardTypes DEF FetchPage, TypeOK
  <1>12. QED
    BY <1>4, <1>5, <1>6, <1>7, <1>8, <1>9, <1>10, <1>11 DEF Proceeds

LEMMA TypeStep == TypeOK /\ [Next]_vars => TypeOK'
  <1> SUFFICES ASSUME TypeOK, [Next]_vars PROVE TypeOK'
    OBVIOUS
  <1>1. ASSUME NEW c \in Commands, Start(c) PROVE TypeOK'
    BY <1>1, StartTypes
  <1>2. ASSUME NEW c \in Commands, Proceeds(c) \/ GiveUp(c) \/ Killed(c) PROVE TypeOK'
    BY <1>2, ProceedsTypes
  <1>3. ASSUME NEW c \in Commands, CleanUp(c) PROVE TypeOK'
    BY <1>3 DEF CleanUp, TypeOK, ServerTypeOK, serverVars, Provisioned, Extent, NothingYet
  <1>4. ASSUME NEW c \in Commands, Serve(c), UNCHANGED clientVars PROVE TypeOK'
    <2>1. ServerTypeOK'
      BY <1>4, ServeTypes DEF TypeOK
    <2>2. QED
      BY <1>4, <2>1 DEF TypeOK, clientVars
  <1>5. ASSUME NEW k \in Kinds, OthersWrite(k) \/ DeletionDone(k), UNCHANGED clientVars
        PROVE  TypeOK'
    <2>1. ServerTypeOK'
      BY <1>5, OthersTypes DEF TypeOK
    <2>2. QED
      BY <1>5, <2>1 DEF TypeOK, clientVars
  <1>6. CASE UNCHANGED vars
    BY <1>6 DEF vars, serverVars, clientVars, TypeOK, ServerTypeOK
  <1>7. QED
    BY <1>1, <1>2, <1>3, <1>4, <1>5, <1>6 DEF Next

-----------------------------------------------------------------------------
(* Protocol speaks of one invocation at a time, and only that one moves.   *)
Same(d) ==
    /\ UNCHANGED <<at[d], line[d], infra[d], verdict[d], sent[d], reply[d]>>
    /\ d \in effect' <=> d \in effect

LEMMA SameKeeps ==
  ASSUME NEW d \in Commands, Same(d), Placed(d), Exchange(d), VerdictTrue(d), Backed(d)
  PROVE  Placed(d)' /\ Exchange(d)' /\ VerdictTrue(d)' /\ Backed(d)'
  <1>1. /\ at'[d] = at[d] /\ line'[d] = line[d] /\ infra'[d] = infra[d]
        /\ verdict'[d] = verdict[d] /\ sent'[d] = sent[d] /\ reply'[d] = reply[d]
        /\ d \in effect' <=> d \in effect
    BY DEF Same
  <1>2. Placed(d)'
    BY <1>1 DEF Placed
  <1>3. InFlight(d)' <=> InFlight(d)
    BY <1>1 DEF InFlight
  <1>4. Exchange(d)'
    BY <1>1, <1>3 DEF Exchange
  <1>5. VerdictTrue(d)'
    BY <1>1, <1>3 DEF VerdictTrue
  <1>6. Backed(d)'
    BY <1>1, <1>3 DEF Backed, Complete
  <1>7. QED
    BY <1>2, <1>4, <1>5, <1>6

Steps(c) ==
    \/ Start(c) \/ Proceeds(c) \/ GiveUp(c) \/ CleanUp(c) \/ Killed(c)
    \/ Serve(c) /\ UNCHANGED clientVars

(* What the server does to the exchange with c: the request is gone, and   *)
(* an answer, if any, finds c waiting.                                     *)
Answered(c, S) ==
    \/ UNCHANGED reply
    \/ /\ at[c] = "wait"
       /\ \E r \in Replies : r.status \in S /\ reply' = [reply EXCEPT ![c] = r]

Moves(c) ==
    /\ InFlight(c)
    /\ sent' = [sent EXCEPT ![c] = NoRequest]
    /\ \/ effect' = effect \cup {c} /\ Answered(c, {200, 500})
       \/ UNCHANGED effect /\ Answered(c, {400, 409, 500})

LEMMA ServeMoves ==
  ASSUME NEW c \in Commands, Serve(c)
  PROVE  Moves(c)
  <1>1. ASSUME NEW S \in SUBSET {200, 400, 409, 500}, Answer(c, S)
        PROVE  sent' = [sent EXCEPT ![c] = NoRequest] /\ Answered(c, S)
    <2>1. ASSUME NEW st \in S, NEW v \in BOOLEAN,
                 reply' = [reply EXCEPT ![c] = [status |-> st, valid |-> v]], at[c] = "wait"
          PROVE  Answered(c, S)
      <3>1. [status |-> st, valid |-> v] \in Replies
        BY DEF Replies, Statuses
      <3>2. QED
        BY <2>1, <3>1 DEF Answered
    <2>2. CASE UNCHANGED reply
      BY <1>1, <2>2 DEF Answered, Answer
    <2>3. QED
      BY <1>1, <2>1, <2>2 DEF Answer
  <1>2. ASSUME NEW o, CarryOut(c, o), InFlight(c) PROVE Moves(c)
    BY <1>1, <1>2 DEF CarryOut, Moves
  <1>3. CASE Post(c) \/ Put(c) \/ Patch(c) \/ Delete(c)
    BY <1>2, <1>3 DEF Post, Put, Patch, Delete
  <1>4. CASE Refuse(c)
    <2>1. Refusals(c) \in SUBSET {200, 400, 409, 500}
      BY DEF Refusals
    <2>2. Answered(c, Refusals(c)) => Answered(c, {400, 409, 500})
      BY DEF Answered, Refusals
    <2>3. QED
      BY <1>1, <1>4, <2>1, <2>2 DEF Refuse, Moves
  <1>5. CASE Vanish(c)
    BY <1>5 DEF Vanish, Moves, Answered
  <1>6. QED
    BY <1>3, <1>4, <1>5 DEF Serve

LEMMA Bystander ==
  ASSUME TypeOK, NEW c \in Commands, NEW d \in Commands \ {c}, Steps(c)
  PROVE  Same(d)
  <1> USE DEF TypeOK, ServerTypeOK, Same
  <1>1. CASE Start(c)
    BY <1>1 DEF Start, GoTo, serverVars
  <1>2. CASE validateVersion(c) \/ buildPayloadFromConfigs(c)
    BY <1>2 DEF validateVersion, buildPayloadFromConfigs, GoTo, EndWith, serverVars
  <1>3. CASE CreateIAM(c) \/ CreateNetwork(c)
    BY <1>3 DEF CreateIAM, CreateNetwork, GoTo, EndWith, serverVars
  <1>4. CASE ReadFirst(c) \/ FetchPage(c)
    BY <1>4 DEF ReadFirst, FetchPage, GoTo, EndWith, serverVars
  <1>5. CASE SendWrite(c)
    BY <1>5 DEF SendWrite, Send, GoTo
  <1>6. CASE Receive(c) \/ GiveUp(c) \/ Killed(c)
    BY <1>6 DEF Receive, GiveUp, Killed, EndWith
  <1>7. CASE CleanUp(c)
    BY <1>7 DEF CleanUp, serverVars
  <1>8. CASE Serve(c) /\ UNCHANGED clientVars
    <2>1. UNCHANGED <<at, line, infra, verdict>>
      BY <1>8 DEF clientVars
    <2>2. sent'[d] = sent[d] /\ reply'[d] = reply[d] /\ (d \in effect' <=> d \in effect)
      <3>1. sent' = [sent EXCEPT ![c] = NoRequest]
        BY <1>8, ServeMoves DEF Moves
      <3>2. effect' = effect \/ effect' = effect \cup {c}
        BY <1>8, ServeMoves DEF Moves
      <3>3. reply' = reply \/ \E r \in Replies : reply' = [reply EXCEPT ![c] = r]
        <4>1. Answered(c, {200, 500}) \/ Answered(c, {400, 409, 500})
          BY <1>8, ServeMoves DEF Moves
        <4>2. QED
          BY <4>1 DEF Answered
      <3>4. sent \in [Commands -> Requests] /\ reply \in [Commands -> Replies]
        OBVIOUS
      <3>5. sent'[d] = sent[d]
        BY <3>1, <3>4
      <3>6. reply'[d] = reply[d]
        BY <3>3, <3>4
      <3>7. QED
        BY <3>2, <3>5, <3>6
    <2>3. QED
      BY <2>1, <2>2
  <1>9. QED
    BY <1>1, <1>2, <1>3, <1>4, <1>5, <1>6, <1>7, <1>8 DEF Steps, Proceeds

(* The part of Protocol that is about c.                                   *)
Own(c) == Placed(c) /\ Exchange(c) /\ VerdictTrue(c) /\ Backed(c)

LEMMA FormsTypes ==
  ASSUME TypeOK, NEW c \in Commands, at[c] # "idle"
  PROVE  /\ line[c] \in Lines
         /\ line[c].name = "create cluster" <=> line[c].form \in {"setupInfra", "configs", "dryRun"}
  BY LinesAssumption DEF TypeOK, Lines

LEMMA StartOwn ==
  ASSUME TypeOK, NEW c \in Commands, Own(c), Start(c)
  PROVE  Own(c)'
  <1>1. PICK l \in CommandLines : line' = [line EXCEPT ![c] = l] /\ GoTo(c, FirstPlace(l.name))
    BY DEF Start
  <1>2. /\ at[c] = "idle" /\ verdict[c] = "none" /\ line'[c] = l
        /\ at'[c] = FirstPlace(l.name) /\ verdict'[c] = "none"
    BY <1>1 DEF Start, GoTo, TypeOK
  <1>3. ~InFlight(c) /\ c \notin effect /\ reply[c] = NoReply
    BY <1>2 DEF Own, Exchange
  <1>4. UNCHANGED <<sent, reply, effect, infra>>
    BY DEF Start, serverVars
  <1>5. l \in Lines
    BY LinesAssumption
  <1>6. Placed(c)'
    <2>1. FirstPlace(l.name) \in {"send", "wait"} => l.name \notin Listings
      BY DEF FirstPlace
    <2>2. l.name = "create cluster" => FirstPlace(l.name) = "version"
      BY DEF FirstPlace, Listings
    <2>3. /\ FirstPlace(l.name) = "page" => l.name \in Listings
          /\ FirstPlace(l.name) = "version" => l.name = "create cluster"
          /\ FirstPlace(l.name) = "get" => l.name \in DOMAIN ReadBy
          /\ FirstPlace(l.name) \notin {"iam", "network", "configs"}
      BY DEF FirstPlace
    <2>4. QED
      BY <1>2, <1>5, <2>1, <2>3, WritersCall DEF Placed
  <1>7. Exchange(c)'
    <2>1. ~InFlight(c)' /\ c \notin effect' /\ reply'[c] = NoReply /\ NoReply.status = 0
      BY <1>3, <1>4 DEF InFlight, NoReply
    <2>2. QED
      BY <2>1 DEF Exchange
  <1>8. VerdictTrue(c)'
    BY <1>2 DEF VerdictTrue
  <1>9. Backed(c)'
    <2>1. FirstPlace(l.name) \notin {"network", "wait"}
      BY DEF FirstPlace
    <2>2. FirstPlace(l.name) = "send" => l.form # "setupInfra"
      BY <1>5 DEF FirstPlace, Listings, Lines
    <2>3. QED
      BY <1>2, <1>3, <1>4, <2>1, <2>2 DEF Backed, InFlight
  <1>10. QED
    BY <1>6, <1>7, <1>8, <1>9 DEF Own

(* Before its write an invocation has sent nothing, and may well fail.     *)
LEMMA LocalOwn ==
  ASSUME TypeOK, NEW c \in Commands, Own(c), at[c] \notin {"idle", "wait", "end"},
         UNCHANGED <<serverVars, line>>,
         NEW p \in {"iam", "network", "configs", "send", "page", "end"}, at'[c] = p,
         verdict'[c] \in {"none", "failed", "shown", "killed"}
                             \cup {v \in {"ok"} : line[c].name \in Listings},
         Placed(c)', Backed(c)'
  PROVE  Own(c)'
  <1>1. ~InFlight(c) /\ c \notin effect /\ reply[c] = NoReply
    BY DEF Own, Exchange
  <1>2. UNCHANGED <<sent, reply, effect, line>>
    BY DEF serverVars
  <1>3. Exchange(c)'
    <2>1. ~InFlight(c)' /\ c \notin effect' /\ reply'[c] = NoReply /\ NoReply.status = 0
      BY <1>1, <1>2 DEF InFlight, NoReply
    <2>2. QED
      BY <2>1 DEF Exchange
  <1>4. VerdictTrue(c)'
    BY <1>1, <1>2 DEF VerdictTrue, InFlight
  <1>5. QED
    BY <1>3, <1>4 DEF Own

LEMMA BeforeOwn ==
  ASSUME TypeOK, NEW c \in Commands, Own(c),
         validateVersion(c) \/ buildPayloadFromConfigs(c) \/ CreateIAM(c) \/ CreateNetwork(c)
             \/ ReadFirst(c) \/ FetchPage(c)
  PROVE  Own(c)'
  <1>1. /\ line[c] \in Lines
        /\ line[c].name = "create cluster" <=> line[c].form \in {"setupInfra", "configs", "dryRun"}
    BY FormsTypes DEF validateVersion, buildPayloadFromConfigs, CreateIAM, CreateNetwork,
       ReadFirst, FetchPage
  <1>2. CallOf("create cluster") # NoCall
    BY DEF CallOf, ClusterCreate, NoCall
  <1>3. ~InFlight(c) /\ c \notin effect
    BY DEF Own, Exchange, validateVersion, buildPayloadFromConfigs, CreateIAM, CreateNetwork,
       ReadFirst, FetchPage
  <1>4. UNCHANGED serverVars => ~InFlight(c)' /\ c \notin effect'
    BY <1>3 DEF serverVars, InFlight
  <1> USE DEF GoTo, EndWith
  <1>5. CASE validateVersion(c)
    <2>1. at'[c] \in {"iam", "configs", "end"} /\ verdict'[c] \in {"none", "failed"}
      BY <1>5 DEF validateVersion, TypeOK
    <2>2. Placed(c)' /\ Backed(c)'
      <3>1. /\ line'[c].name = "create cluster"
            /\ at'[c] = "iam" => line'[c].form = "setupInfra"
            /\ at'[c] = "configs" => line'[c].form # "setupInfra"
        BY <1>5 DEF validateVersion, TypeOK, Own, Placed
      <3>2. QED
        BY <1>4, <1>5, <2>1, <3>1 DEF validateVersion, Placed, Backed
    <2>3. QED
      BY <1>5, <2>1, <2>2, LocalOwn DEF validateVersion
  <1>6. CASE buildPayloadFromConfigs(c)
    <2>1. at'[c] \in {"send", "end"} /\ verdict'[c] \in {"none", "failed", "shown"}
      BY <1>6 DEF buildPayloadFromConfigs, TypeOK
    <2>2. line[c].form # "setupInfra" /\ line[c].name = "create cluster"
      BY <1>1, <1>6 DEF buildPayloadFromConfigs, Own, Placed
    <2>3. Placed(c)' /\ Backed(c)'
      BY <1>2, <1>6, <2>1, <2>2 DEF buildPayloadFromConfigs, Placed, Backed
    <2>4. QED
      BY <1>6, <2>1, <2>3, LocalOwn DEF buildPayloadFromConfigs
  <1>7. CASE CreateIAM(c)
    <2>1. /\ at'[c] \in {"network", "end"} /\ verdict'[c] \in {"none", "failed"}
          /\ at'[c] = "network" => infra'[c].iam = "full"
      <3>1. CASE infra' = [infra EXCEPT ![c].iam = "full"] /\ GoTo(c, "network")
        <4>1. infra'[c] = [infra[c] EXCEPT !.iam = "full"]
          BY <3>1 DEF TypeOK
        <4>2. QED
          BY <1>7, <3>1, <4>1 DEF CreateIAM, TypeOK, Provisioned
      <3>2. CASE EndWith(c, "failed")
        BY <3>2 DEF TypeOK
      <3>3. QED
        BY <1>7, <3>1, <3>2 DEF CreateIAM
    <2>2. Placed(c)' /\ Backed(c)'
      BY <1>4, <1>7, <2>1 DEF CreateIAM, Own, Placed, Backed
    <2>3. QED
      BY <1>7, <2>1, <2>2, LocalOwn DEF CreateIAM
  <1>8. CASE CreateNetwork(c)
    <2>1. /\ at'[c] \in {"send", "end"} /\ verdict'[c] \in {"none", "failed"}
          /\ at'[c] = "send" => /\ infra'[c].network = "full" /\ infra'[c].iam = infra[c].iam
                                /\ infra'[c] \in Provisioned
      <3>1. CASE infra' = [infra EXCEPT ![c].network = "full"] /\ GoTo(c, "send")
        <4>1. infra'[c] = [infra[c] EXCEPT !.network = "full"]
          BY <3>1 DEF TypeOK
        <4>2. infra[c] \in Provisioned /\ "full" \in Extent
          BY DEF TypeOK, Extent
        <4>3. /\ infra'[c].network = "full" /\ infra'[c].iam = infra[c].iam
              /\ infra'[c] \in Provisioned
          BY <4>1, <4>2 DEF Provisioned
        <4>4. QED
          BY <1>8, <3>1, <4>3 DEF CreateNetwork, TypeOK
      <3>2. CASE EndWith(c, "failed")
        BY <1>8, <3>2 DEF TypeOK
      <3>3. QED
        BY <1>8, <3>1, <3>2 DEF CreateNetwork
    <2>2. infra[c].iam = "full" /\ line[c].form = "setupInfra"
      BY <1>8 DEF CreateNetwork, Own, Backed, Placed
    <2>3. at'[c] = "send" => Complete(c)'
      BY <2>1, <2>2 DEF Complete, Provisioned
    <2>4. Placed(c)'
      BY <1>1, <1>2, <1>8, <2>1, <2>2 DEF CreateNetwork, Placed
    <2>5. Backed(c)'
      BY <1>4, <1>8, <2>1, <2>3 DEF CreateNetwork, Backed
    <2>6. QED
      BY <1>8, <2>1, <2>4, <2>5, LocalOwn DEF CreateNetwork
  <1>9. CASE ReadFirst(c)
    <2>1. at'[c] \in {"send", "end"} /\ verdict'[c] \in {"none", "failed"}
      BY <1>9 DEF ReadFirst, TypeOK
    <2>2. line[c].name \in DOMAIN ReadBy
      BY <1>9 DEF ReadFirst, Own, Placed
    <2>3. line[c].name \notin Listings /\ line[c].form # "setupInfra"
      BY <1>1, <2>2 DEF ReadBy, Listings
    <2>4. Placed(c)' /\ Backed(c)'
      BY <1>1, <1>4, <1>9, <2>1, <2>3, WritersCall DEF ReadFirst, Placed, Backed
    <2>5. QED
      BY <1>9, <2>1, <2>4, LocalOwn DEF ReadFirst
  <1>10. CASE FetchPage(c)
    <2>1. line[c].name \in Listings /\ at[c] = "page"
      BY <1>10 DEF FetchPage, Own, Placed
    <2>2. at'[c] \in {"page", "end"} /\ verdict'[c] \in {"none", "failed", "ok"}
      BY <1>10 DEF FetchPage, TypeOK
    <2>3. Placed(c)' /\ Backed(c)'
      BY <1>4, <1>10, <2>1, <2>2 DEF FetchPage, Placed, Backed
    <2>4. QED
      BY <1>10, <2>1, <2>2, <2>3, LocalOwn DEF FetchPage
  <1>11. QED
    BY <1>5, <1>6, <1>7, <1>8, <1>9, <1>10

(* The write.                                                              *)
LEMMA SendOwn ==
  ASSUME TypeOK, NEW c \in Commands, Own(c), SendWrite(c)
  PROVE  Own(c)'
  <1>1. /\ at[c] = "send" /\ at'[c] = "wait" /\ verdict'[c] = "none"
        /\ UNCHANGED <<line, infra, reply, effect>>
    BY DEF SendWrite, Send, GoTo, TypeOK
  <1>2. sent'[c].call = CallOf(line[c].name)
    BY DEF SendWrite, Send, TypeOK, ServerTypeOK
  <1>3. c \notin effect /\ reply[c] = NoReply /\ CallOf(line[c].name) # NoCall
    BY <1>1 DEF Own, Exchange, Placed
  <1>4. NoReply.status = 0
    BY DEF NoReply
  <1>5. Placed(c)'
    BY <1>1, <1>3 DEF Placed
  <1>6. Exchange(c)'
    BY <1>1, <1>2, <1>3, <1>4 DEF Exchange
  <1>7. VerdictTrue(c)'
    BY <1>1 DEF VerdictTrue
  <1>8. Backed(c)'
    <2>1. line[c].form = "setupInfra" => Complete(c)
      BY <1>1 DEF Own, Backed
    <2>2. QED
      BY <1>1, <2>1 DEF Backed, Complete
  <1>9. QED
    BY <1>5, <1>6, <1>7, <1>8 DEF Own

(* What a verdict on an answer says, by Exchange.                          *)
LEMMA VerdictMeans ==
  ASSUME TypeOK, NEW c \in Commands, Exchange(c), at[c] \in {"send", "wait"},
         NEW r \in {reply[c], NoReply},
         reply[c] # NoReply \/ r = NoReply
  PROVE  LET v == decodeResult(CallOf(line[c].name), r) IN
         /\ v = "ok" => r.status = 200
         /\ v = "failed" /\ CallOf(line[c].name).nonIdempotent => r.status \in {400, 409}
  <1>1. r \in Replies
    BY NothingTypes DEF TypeOK, ServerTypeOK
  <1>2. r.status \in {0, 200, 400, 409, 500}
    BY <1>1 DEF Replies, Statuses
  <1>3. QED
    BY <1>2 DEF decodeResult, normalizeResult

LEMMA EndOwn ==
  ASSUME TypeOK, NEW c \in Commands, Own(c), Receive(c) \/ GiveUp(c) \/ Killed(c)
  PROVE  Own(c)'
  <1>1. /\ at[c] \notin {"idle", "end"} /\ at'[c] = "end" /\ reply'[c] = NoReply
        /\ UNCHANGED <<line, infra, sent, effect>>
    BY DEF Receive, GiveUp, Killed, EndWith, TypeOK, ServerTypeOK
  <1>2. Placed(c)'
    BY <1>1 DEF Placed
  <1>3. Exchange(c)'
    <2>1. NoReply.status = 0
      BY DEF NoReply
    <2>2. InFlight(c)' <=> InFlight(c)
      BY <1>1 DEF InFlight
    <2>3. InFlight(c) => sent[c].call = CallOf(line[c].name) /\ c \notin effect
      BY DEF Own, Exchange
    <2>4. QED
      BY <1>1, <2>1, <2>2, <2>3 DEF Exchange
  <1>4. Backed(c)'
    <2>1. InFlight(c)' <=> InFlight(c)
      BY <1>1 DEF InFlight
    <2>2. QED
      BY <1>1, <2>1 DEF Own, Backed, Complete
  <1>5. VerdictTrue(c)'
    <2>1. CASE Receive(c)
      <3>1. verdict'[c] = decodeResult(CallOf(line[c].name), reply[c])
        BY <2>1 DEF Receive, EndWith, TypeOK
      <3>2. reply[c] # NoReply /\ at[c] = "wait"
        BY <2>1 DEF Receive
      <3>3. /\ verdict'[c] = "ok" => reply[c].status = 200
            /\ verdict'[c] = "failed" /\ CallOf(line[c].name).nonIdempotent
                  => reply[c].status \in {400, 409}
        BY <3>1, <3>2, VerdictMeans DEF Own
      <3>4. /\ reply[c].status = 200 => c \in effect
            /\ reply[c].status \in {400, 409} => c \notin effect
            /\ ~InFlight(c)
        BY <3>2 DEF Own, Exchange
      <3>5. QED
        BY <1>1, <3>3, <3>4 DEF VerdictTrue, InFlight
    <2>2. CASE GiveUp(c)
      <3>1. verdict'[c] = decodeResult(CallOf(line[c].name), NoReply)
        BY <2>2 DEF GiveUp, EndWith, TypeOK
      <3>2. /\ verdict'[c] = "ok" => NoReply.status = 200
            /\ verdict'[c] = "failed" /\ CallOf(line[c].name).nonIdempotent
                  => NoReply.status \in {400, 409}
        BY <2>2, <3>1, VerdictMeans DEF Own, GiveUp
      <3>3. NoReply.status = 0
        BY DEF NoReply
      <3>4. QED
        BY <1>1, <3>2, <3>3 DEF VerdictTrue
    <2>3. CASE Killed(c)
      BY <2>3 DEF Killed, EndWith, TypeOK, VerdictTrue
    <2>4. QED
      BY <2>1, <2>2, <2>3
  <1>6. QED
    BY <1>2, <1>3, <1>4, <1>5 DEF Own

(* Only a POST that certainly had no effect is cleaned up after.           *)
LEMMA CleanUpOwn ==
  ASSUME TypeOK, NEW c \in Commands, Own(c), CleanUp(c)
  PROVE  Own(c)'
  <1>1. /\ line[c].form = "setupInfra" /\ verdict[c] = "failed" /\ at[c] = "end"
        /\ UNCHANGED <<serverVars, line, at, verdict>>
    BY DEF CleanUp, TypeOK
  <1>2. line[c].name = "create cluster"
    BY <1>1, FormsTypes
  <1>3. CallOf(line[c].name).nonIdempotent
    BY <1>2 DEF CallOf, ClusterCreate
  <1>4. c \notin effect /\ ~InFlight(c)
    BY <1>1, <1>3 DEF Own, VerdictTrue
  <1>5. UNCHANGED <<sent, reply, effect>>
    BY <1>1 DEF serverVars
  <1>6. ~InFlight(c)'
    BY <1>4, <1>5 DEF InFlight
  <1>7. Backed(c)'
    BY <1>1, <1>4, <1>5, <1>6 DEF Backed
  <1>8. Placed(c)' /\ Exchange(c)' /\ VerdictTrue(c)'
    BY <1>1, <1>4, <1>5, <1>6 DEF Own, Placed, Exchange, VerdictTrue
  <1>9. QED
    BY <1>7, <1>8 DEF Own

(* The server.                                                             *)
LEMMA ServeOwn ==
  ASSUME TypeOK, NEW c \in Commands, Own(c), Serve(c), UNCHANGED clientVars
  PROVE  Own(c)'
  <1>1. Moves(c)
    BY ServeMoves
  <1>2. /\ UNCHANGED <<at, line, infra, verdict>>
        /\ InFlight(c) /\ ~InFlight(c)'
    BY <1>1 DEF clientVars, Moves, InFlight, NoRequest, TypeOK, ServerTypeOK
  <1>3. at[c] \in {"wait", "end"} /\ c \notin effect /\ reply[c] = NoReply
    BY <1>2 DEF Own, Exchange
  <1>4. Placed(c)'
    BY <1>2 DEF Own, Placed
  <1>5. Exchange(c)'
    <2>1. NoReply.status = 0
      BY DEF NoReply
    <2>2. ASSUME NEW S \in SUBSET {200, 400, 409, 500}, Answered(c, S)
          PROVE  /\ at[c] # "wait" => reply'[c] = NoReply
                 /\ reply'[c].status \in S \cup {0}
                 /\ reply'[c].status = 0 => reply'[c] = NoReply
      <3>1. CASE UNCHANGED reply
        BY <1>3, <2>1, <3>1
      <3>2. ASSUME NEW r \in Replies, r.status \in S, reply' = [reply EXCEPT ![c] = r],
                   at[c] = "wait"
            PROVE  reply'[c].status \in S
        <4>1. reply \in [Commands -> Replies]
          BY DEF TypeOK, ServerTypeOK
        <4>2. QED
          BY <3>2, <4>1
      <3>3. 0 \notin S
        OBVIOUS
      <3>4. QED
        BY <2>2, <3>1, <3>2, <3>3 DEF Answered
    <2>3. CASE effect' = effect \cup {c} /\ Answered(c, {200, 500})
      BY <1>2, <1>3, <2>2, <2>3 DEF Exchange
    <2>4. CASE effect' = effect /\ Answered(c, {400, 409, 500})
      BY <1>2, <1>3, <2>2, <2>4 DEF Exchange
    <2>5. QED
      BY <1>1, <2>3, <2>4 DEF Moves
  <1>6. VerdictTrue(c)'
    <2>1. verdict[c] = "failed" => ~CallOf(line[c].name).nonIdempotent
      BY <1>2 DEF Own, VerdictTrue
    <2>2. verdict[c] = "ok" => line[c].name \in Listings
      BY <1>3 DEF Own, VerdictTrue
    <2>3. QED
      BY <1>2, <2>1, <2>2 DEF VerdictTrue
  <1>7. Backed(c)'
    BY <1>2 DEF Own, Backed, Complete
  <1>8. QED
    BY <1>4, <1>5, <1>6, <1>7 DEF Own

LEMMA ProtocolStep == TypeOK /\ Protocol /\ [Next]_vars => Protocol'
  <1> SUFFICES ASSUME TypeOK, Protocol, [Next]_vars, NEW d \in Commands PROVE Own(d)'
    BY DEF Protocol, Own
  <1>1. \A c \in Commands : Own(c)
    BY DEF Protocol, Own
  <1>2. ASSUME NEW c \in Commands, Steps(c) PROVE Own(d)'
    <2>1. CASE d = c
      <3>1. Own(c)
        BY <1>1
      <3>2. CASE Start(c)
        BY <2>1, <3>1, <3>2, StartOwn
      <3>3. CASE Proceeds(c) \/ GiveUp(c) \/ Killed(c)
        BY <2>1, <3>1, <3>3, BeforeOwn, SendOwn, EndOwn DEF Proceeds
      <3>4. CASE CleanUp(c)
        BY <2>1, <3>1, <3>4, CleanUpOwn
      <3>5. CASE Serve(c) /\ UNCHANGED clientVars
        BY <2>1, <3>1, <3>5, ServeOwn
      <3>6. QED
        BY <1>2, <3>2, <3>3, <3>4, <3>5 DEF Steps
    <2>2. CASE d # c
      <3>1. Same(d)
        BY <1>2, <2>2, Bystander
      <3>2. QED
        BY <1>1, <3>1, SameKeeps DEF Own
    <2>3. QED
      BY <2>1, <2>2
  <1>3. ASSUME NEW k \in Kinds, OthersWrite(k) \/ DeletionDone(k), UNCHANGED clientVars
        PROVE  Own(d)'
    <2>1. Same(d)
      BY <1>3 DEF OthersWrite, DeletionDone, clientVars, Same
    <2>2. QED
      BY <1>1, <2>1, SameKeeps DEF Own
  <1>4. CASE UNCHANGED vars
    <2>1. Same(d)
      BY <1>4 DEF vars, serverVars, clientVars, Same
    <2>2. QED
      BY <1>1, <2>1, SameKeeps DEF Own
  <1>5. QED
    BY <1>2, <1>3, <1>4 DEF Next, Steps

-----------------------------------------------------------------------------
(* The maker of a cluster has had its effect.                              *)
LEMMA MadeStep ==
  ASSUME TypeOK, Made, [Next]_vars
  PROVE  Made'
  <1>1. CASE UNCHANGED <<store, effect>>
    BY <1>1 DEF Made
  <1>2. ASSUME NEW c \in Commands, Start(c) \/ Proceeds(c) \/ GiveUp(c) \/ CleanUp(c) \/ Killed(c)
        PROVE  UNCHANGED <<store, effect>>
    BY <1>2 DEF Start, Proceeds, validateVersion, buildPayloadFromConfigs, CreateIAM,
       CreateNetwork, ReadFirst, SendWrite, Send, Receive, GiveUp, FetchPage, CleanUp, Killed,
       serverVars
  <1>3. ASSUME NEW c \in Commands, Serve(c) PROVE Made'
    <2>1. CASE Refuse(c) \/ Vanish(c)
      BY <1>1, <2>1 DEF Refuse, Vanish
    <2>2. ASSUME NEW o, CarryOut(c, o), o.maker \in {c, Target(c).maker}, Target(c).is # "none" \/ o.maker = c
          PROVE  Made'
      <3>1. sent[c].call.resource \in Kinds
        BY DEF TypeOK, ServerTypeOK, Requests, Calls
      <3>2. CASE sent[c].call.resource = "clusters"
        BY <2>2, <3>1, <3>2 DEF CarryOut, Made, Target, TypeOK, ServerTypeOK
      <3>3. CASE sent[c].call.resource # "clusters"
        <4>1. store'["clusters"] = store["clusters"] /\ effect' = effect \cup {c}
          BY <2>2, <3>3 DEF CarryOut, TypeOK, ServerTypeOK, Kinds
        <4>2. QED
          BY <4>1 DEF Made
      <3>4. QED
        BY <3>2, <3>3
    <2>3. CASE Post(c)
      BY <2>2, <2>3 DEF Post
    <2>4. Target(c) \in Objects
      BY DEF TypeOK, ServerTypeOK, Requests, Calls, Target
    <2>5. CASE Put(c)
      BY <2>2, <2>4, <2>5 DEF Put, Objects
    <2>6. CASE Patch(c)
      BY <2>2, <2>4, <2>6 DEF Patch, Objects
    <2>7. CASE Delete(c)
      BY <2>2, <2>4, <2>7 DEF Delete, Objects
    <2>8. QED
      BY <1>3, <2>1, <2>3, <2>5, <2>6, <2>7 DEF Serve
  <1>4. ASSUME NEW k \in Kinds, OthersWrite(k) \/ DeletionDone(k) PROVE Made'
    <2>1. store[k] \in Objects /\ effect' = effect
      BY <1>4 DEF TypeOK, ServerTypeOK, OthersWrite, DeletionDone
    <2>2. CASE k # "clusters"
      <3>1. store'["clusters"] = store["clusters"]
        BY <1>4, <2>2 DEF OthersWrite, DeletionDone, TypeOK, ServerTypeOK, Kinds
      <3>2. QED
        BY <2>1, <3>1 DEF Made
    <2>3. CASE k = "clusters"
      <3>1. \/ store'[k].maker = "others"
            \/ store[k].is # "none" /\ store'[k].maker = store[k].maker
        <4>1. CASE DeletionDone(k)
          BY <4>1 DEF DeletionDone, TypeOK, ServerTypeOK, Absent
        <4>2. ASSUME NEW f \in Fields, store[k].is = "live",
                     store' = [store EXCEPT ![k].rv = version + 1, ![k].fields[f] = version + 1]
              PROVE  store[k].is # "none" /\ store'[k].maker = store[k].maker
          BY <2>1, <4>2 DEF TypeOK, ServerTypeOK, Objects
        <4>3. CASE store[k].is = "live"
                   /\ store' = [store EXCEPT ![k].rv = version + 1, ![k].is = "deleting"]
          BY <2>1, <4>3 DEF TypeOK, ServerTypeOK, Objects
        <4>4. CASE store' = [store EXCEPT ![k] = [is |-> "live", rv |-> version + 1,
                                  maker |-> "others", fields |-> [f \in Fields |-> version + 1]]]
          BY <4>4 DEF TypeOK, ServerTypeOK
        <4>5. QED
          BY <1>4, <4>1, <4>2, <4>3, <4>4 DEF OthersWrite
      <3>2. QED
        BY <2>1, <2>3, <3>1 DEF Made
    <2>4. QED
      BY <2>2, <2>3
  <1>5. QED
    BY <1>1, <1>2, <1>3, <1>4 DEF Next, vars, serverVars

-----------------------------------------------------------------------------
(* Versions.  A server step writes one object: it removes it, or leaves    *)
(* each of its fields as it was or with the new version.                   *)
Writes(k) ==
    \E n \in Objects :
        /\ store' = [store EXCEPT ![k] = n]
        /\ \/ n = Absent /\ version' = version
           \/ /\ version' = version + 1 /\ n.rv = version + 1
              /\ \A f \in Fields :
                    \/ n.fields[f] = version + 1
                    \/ store[k].is # "none" /\ n.fields[f] = store[k].fields[f]

LEMMA ServeWrites ==
  ASSUME TypeOK, Dated, FreshBase, Protocol, NEW c \in Commands, Serve(c)
  PROVE  UNCHANGED <<store, version>> \/ \E k \in Kinds : Writes(k)
  <1> DEFINE k == sent[c].call.resource
  <1>1. k \in Kinds /\ store[k] \in Objects /\ sent[c].base \in Objects /\ Target(c) = store[k]
    BY DEF TypeOK, ServerTypeOK, Requests, Calls, Target
  <1>0. version \in Nat
    BY DEF TypeOK, ServerTypeOK
  <1>2. version + 1 \in Nat
    BY <1>0
  <1>3. CASE Refuse(c) \/ Vanish(c)
    BY <1>3 DEF Refuse, Vanish
  <1> HIDE DEF k
  <1>4. ASSUME NEW n \in Objects, CarryOut(c, n), n.rv = version + 1,
               \A f \in Fields : \/ n.fields[f] = version + 1
                                 \/ store[k].is # "none" /\ n.fields[f] = store[k].fields[f]
        PROVE  Writes(k)
    BY <1>4 DEF CarryOut, Writes, k
  <1>5. CASE Post(c)
    <2> DEFINE n == [is |-> "live", rv |-> version + 1, maker |-> c,
                     fields |-> [f \in Fields |-> version + 1]]
    <2>1. n \in Objects
      BY <1>2 DEF Objects
    <2>2. QED
      BY <1>1, <1>4, <1>5, <2>1 DEF Post
  <1>6. CASE Put(c)
    <2> DEFINE n == [Target(c) EXCEPT !.rv = version + 1,
                         !.fields = [sent[c].base.fields EXCEPT !["own"] = version + 1]]
    <2>1. n \in Objects /\ n.rv = version + 1
      BY <1>1, <1>2 DEF Objects, Fields
    <2>2. k = "roles"
      BY <1>6, OnlyRolesPut DEF Put, Protocol, Exchange, k
    <2>3. sent[c].base.fields = store[k].fields
      BY <1>1, <1>6, <2>2 DEF FreshBase, Put
    <2>4. n.fields = [store[k].fields EXCEPT !["own"] = version + 1]
      BY <1>1, <2>3 DEF Objects
    <2>5. \A f \in Fields : n.fields[f] = version + 1 \/ n.fields[f] = store[k].fields[f]
      BY <1>1, <2>4 DEF Objects
    <2>6. CarryOut(c, n) /\ store[k].is # "none"
      BY <1>1, <1>6 DEF Put
    <2> HIDE DEF n
    <2>7. QED
      BY <1>1, <1>4, <2>1, <2>5, <2>6
  <1>7. CASE Patch(c)
    <2> DEFINE n == [Target(c) EXCEPT !.rv = version + 1,
                        !.fields = [f \in Fields |-> IF f \in sent[c].fields
                                                     THEN version + 1 ELSE @[f]]]
    <2>1. n \in Objects /\ n.rv = version + 1
      BY <1>1, <1>2 DEF Objects
    <2>2. \A f \in Fields : n.fields[f] = version + 1 \/ n.fields[f] = store[k].fields[f]
      BY <1>1 DEF Objects
    <2>3. CarryOut(c, n) /\ store[k].is # "none"
      BY <1>1, <1>7 DEF Patch
    <2> HIDE DEF n
    <2>4. QED
      BY <1>1, <1>4, <2>1, <2>2, <2>3
  <1>8. CASE Delete(c)
    <2> DEFINE n == [Target(c) EXCEPT !.is = "deleting", !.rv = version + 1]
    <2>1. n \in Objects /\ n.rv = version + 1 /\ n.fields = store[k].fields
      BY <1>1, <1>2 DEF Objects
    <2>2. CarryOut(c, n) /\ store[k].is # "none"
      BY <1>1, <1>8 DEF Delete
    <2> HIDE DEF n
    <2>3. QED
      BY <1>1, <1>4, <2>1, <2>2
  <1>9. QED
    BY <1>3, <1>5, <1>6, <1>7, <1>8 DEF Serve

LEMMA OthersWrites ==
  ASSUME TypeOK, NEW k \in Kinds, OthersWrite(k) \/ DeletionDone(k)
  PROVE  Writes(k)
  <1>0. store[k] \in Objects /\ version \in Nat
    BY DEF TypeOK, ServerTypeOK
  <1>1. store[k] \in Objects /\ version + 1 \in Nat
    BY <1>0
  <1>2. CASE DeletionDone(k)
    BY <1>2, AbsentType DEF DeletionDone, Writes
  <1>3. CASE OthersWrite(k)
    <2>1. ASSUME NEW n \in Objects, store' = [store EXCEPT ![k] = n], n.rv = version + 1,
                 \A f \in Fields : \/ n.fields[f] = version + 1
                                   \/ store[k].is # "none" /\ n.fields[f] = store[k].fields[f]
          PROVE  Writes(k)
      BY <1>3, <2>1 DEF OthersWrite, Writes
    <2>2. CASE store' = [store EXCEPT ![k] = [is |-> "live", rv |-> version + 1,
                           maker |-> "others", fields |-> [f \in Fields |-> version + 1]]]
      <3> DEFINE n == [is |-> "live", rv |-> version + 1,
                       maker |-> "others", fields |-> [f \in Fields |-> version + 1]]
      <3>1. n \in Objects
        BY <1>1 DEF Objects
      <3>2. QED
        BY <2>1, <2>2, <3>1
    <2>3. ASSUME NEW f \in Fields, store[k].is = "live",
                 store' = [store EXCEPT ![k].rv = version + 1, ![k].fields[f] = version + 1]
          PROVE  Writes(k)
      <3> DEFINE n == [store[k] EXCEPT !.rv = version + 1, !.fields[f] = version + 1]
      <3>1. n \in Objects /\ n.rv = version + 1
        BY <1>1 DEF Objects
      <3>2. \A g \in Fields : n.fields[g] = version + 1 \/ n.fields[g] = store[k].fields[g]
        BY <1>1 DEF Objects
      <3>3. store' = [store EXCEPT ![k] = n]
        BY <1>1, <2>3 DEF TypeOK, ServerTypeOK, Objects
      <3> HIDE DEF n
      <3>4. QED
        BY <2>1, <2>3, <3>1, <3>2, <3>3
    <2>4. CASE store[k].is = "live"
               /\ store' = [store EXCEPT ![k].rv = version + 1, ![k].is = "deleting"]
      <3> DEFINE n == [store[k] EXCEPT !.rv = version + 1, !.is = "deleting"]
      <3>1. n \in Objects /\ n.rv = version + 1 /\ n.fields = store[k].fields
        BY <1>1 DEF Objects
      <3>2. store' = [store EXCEPT ![k] = n]
        BY <1>1, <2>4 DEF TypeOK, ServerTypeOK
      <3> HIDE DEF n
      <3>3. QED
        BY <2>1, <2>4, <3>1, <3>2
    <2>5. QED
      BY <1>3, <2>2, <2>3, <2>4 DEF OthersWrite
  <1>4. QED
    BY <1>2, <1>3

(* An invocation takes the version of a role with its contents.            *)
LEMMA SeenMoves ==
  ASSUME TypeOK, NEW c \in Commands, Start(c) \/ Proceeds(c) \/ GiveUp(c) \/ CleanUp(c) \/ Killed(c)
  PROVE  /\ UNCHANGED <<store, version>>
         /\ \A d \in Commands : seen'[d] \in {seen[d], Absent, store["roles"]}
         /\ \A d \in Commands : sent'[d].base \in {sent[d].base, seen[d]}
  <1> USE DEF TypeOK, ServerTypeOK, serverVars
  <1>1. CASE ReadFirst(c)
    <2>1. line[c].name = "update role" => ReadBy[line[c].name] = "roles"
      BY DEF ReadBy
    <2>2. \A d \in Commands : seen'[d] \in {seen[d], Absent, store["roles"]}
      <3>1. CASE UNCHANGED seen
        BY <3>1
      <3>2. CASE seen' = [seen EXCEPT ![c] = Absent]
        BY <3>2
      <3>3. CASE seen' = [seen EXCEPT ![c] = store["roles"]]
        BY <3>3
      <3>4. QED
        BY <1>1, <2>1, <3>1, <3>2, <3>3 DEF ReadFirst
    <2>3. QED
      BY <1>1, <2>2 DEF ReadFirst
  <1>2. CASE SendWrite(c)
    BY <1>2 DEF SendWrite, Send
  <1>3. CASE Start(c) \/ validateVersion(c) \/ buildPayloadFromConfigs(c) \/ CreateIAM(c)
             \/ CreateNetwork(c) \/ FetchPage(c) \/ CleanUp(c)
    BY <1>3 DEF Start, validateVersion, buildPayloadFromConfigs, CreateIAM, CreateNetwork,
       FetchPage, CleanUp
  <1>4. CASE Receive(c) \/ GiveUp(c) \/ Killed(c)
    BY <1>4 DEF Receive, GiveUp, Killed
  <1>5. QED
    BY <1>1, <1>2, <1>3, <1>4 DEF Proceeds

LEMMA AbsentIs == Absent.rv = 0 /\ Absent.is = "none" /\ \A f \in Fields : Absent.fields[f] = 0
  BY DEF Absent

(* The two ways a step can touch what Dated and FreshBase speak of.        *)
LEMMA WritesKeep ==
  ASSUME TypeOK, Dated, FreshBase, NEW k \in Kinds, Writes(k), UNCHANGED seen,
         \A d \in Commands : sent'[d].base \in {sent[d].base, Absent}
  PROVE  Dated' /\ FreshBase'
  <1>1. PICK n \in Objects :
          /\ store' = [store EXCEPT ![k] = n]
          /\ \/ n = Absent /\ version' = version
             \/ /\ version' = version + 1 /\ n.rv = version + 1
                /\ \A f \in Fields :
                      \/ n.fields[f] = version + 1
                      \/ store[k].is # "none" /\ n.fields[f] = store[k].fields[f]
    BY DEF Writes
  <1>2. version \in Nat /\ store \in [Kinds -> Objects] /\ seen \in [Commands -> Objects]
        /\ \A d \in Commands : sent[d].base \in Objects
    BY DEF TypeOK, ServerTypeOK, Requests
  <1>3. version' \in Nat /\ version <= version'
    BY <1>1, <1>2
  <1>4. /\ n.rv <= version'
        /\ \A f \in Fields : n.fields[f] <= version'
        /\ n.rv = 0 => n.fields = Absent.fields
    <2>1. CASE n = Absent /\ version' = version
      BY <1>2, <2>1, AbsentIs
    <2>2. CASE /\ version' = version + 1 /\ n.rv = version + 1
               /\ \A f \in Fields :
                     \/ n.fields[f] = version + 1
                     \/ store[k].is # "none" /\ n.fields[f] = store[k].fields[f]
      <3>1. \A f \in Fields : store[k].fields[f] <= version /\ store[k].fields[f] \in Nat
        BY <1>2 DEF Dated, Objects
      <3>2. QED
        BY <1>2, <2>2, <3>1
    <2>3. QED
      BY <1>1, <2>1, <2>2
  <1>5. \A j \in Kinds : store'[j] = IF j = k THEN n ELSE store[j]
    BY <1>1, <1>2
  <1>6. ASSUME NEW j \in Kinds
        PROVE  /\ store'[j].rv <= version'
               /\ \A f \in Fields : store'[j].fields[f] <= version'
               /\ store'[j].rv = 0 => store'[j].fields = Absent.fields
    <2>1. CASE j = k
      BY <1>4, <1>5, <2>1
    <2>2. CASE j # k
      <3>1. store'[j] = store[j] /\ store[j] \in Objects
        BY <1>2, <1>5, <2>2
      <3>2. /\ store[j].rv <= version /\ store[j].rv \in Nat
            /\ \A f \in Fields : store[j].fields[f] <= version /\ store[j].fields[f] \in Nat
            /\ store[j].rv = 0 => store[j].fields = Absent.fields
        BY <3>1 DEF Dated, Objects
      <3>3. QED
        BY <1>2, <1>3, <3>1, <3>2
    <2>3. QED
      BY <2>1, <2>2
  <1>7. ASSUME NEW d \in Commands
        PROVE  seen'[d].rv <= version' /\ sent'[d].base.rv <= version'
    <2>1. /\ seen[d].rv <= version /\ sent[d].base.rv <= version
          /\ seen[d].rv \in Nat /\ sent[d].base.rv \in Nat
      BY <1>2 DEF Dated, Objects
    <2>2. QED
      BY <1>2, <1>3, <2>1, AbsentIs
  <1>8. Dated'
    BY <1>6, <1>7 DEF Dated
  <1>9. ASSUME store'["roles"].is # "none", NEW d \in Commands,
               NEW o \in {seen'[d], sent'[d].base}, o.rv = store'["roles"].rv
        PROVE  o.fields = store'["roles"].fields
    <2>1. "roles" \in Kinds /\ o \in {seen[d], sent[d].base, Absent}
      BY DEF Kinds
    <2>2. CASE o = Absent
      BY <1>6, <1>9, <2>1, <2>2, AbsentIs
    <2>3. CASE o # Absent /\ k = "roles"
      <3>1. o.rv <= version
        BY <2>1, <2>3 DEF Dated
      <3>2. store'["roles"] = n /\ n.rv = version + 1
        BY <1>1, <1>5, <1>9, <2>1, <2>3, AbsentIs
      <3>3. QED
        BY <1>2, <1>9, <3>1, <3>2
    <2>4. CASE o # Absent /\ k # "roles"
      BY <1>5, <1>9, <2>1, <2>4 DEF FreshBase
    <2>5. QED
      BY <2>2, <2>3, <2>4
  <1>10. FreshBase'
    BY <1>9 DEF FreshBase
  <1>11. QED
    BY <1>8, <1>10

LEMMA SeenKeep ==
  ASSUME TypeOK, Dated, FreshBase, UNCHANGED <<store, version>>,
         \A d \in Commands : seen'[d] \in {seen[d], Absent, store["roles"]},
         \A d \in Commands : sent'[d].base \in {sent[d].base, seen[d], Absent}
  PROVE  Dated' /\ FreshBase'
  <1>1. "roles" \in Kinds /\ version \in Nat
    BY DEF Kinds, TypeOK, ServerTypeOK
  <1>2. Dated'
    BY <1>1, AbsentIs DEF Dated
  <1>3. ASSUME store["roles"].is # "none", NEW d \in Commands,
               NEW o \in {seen[d], sent[d].base, Absent, store["roles"]}, o.rv = store["roles"].rv
        PROVE  o.fields = store["roles"].fields
    BY <1>1, <1>3, AbsentIs DEF Dated, FreshBase
  <1>4. FreshBase'
    BY <1>3 DEF FreshBase
  <1>5. QED
    BY <1>2, <1>4

LEMMA VersionStep ==
  ASSUME TypeOK, Dated, FreshBase, Protocol, [Next]_vars
  PROVE  Dated' /\ FreshBase'
  <1>1. ASSUME NEW c \in Commands, Start(c) \/ Proceeds(c) \/ GiveUp(c) \/ CleanUp(c) \/ Killed(c)
        PROVE  Dated' /\ FreshBase'
    BY <1>1, SeenMoves, SeenKeep
  <1>2. ASSUME NEW c \in Commands, Serve(c), UNCHANGED clientVars PROVE Dated' /\ FreshBase'
    <2>1. sent' = [sent EXCEPT ![c] = NoRequest]
      BY <1>2, ServeMoves DEF Moves
    <2>2. \A d \in Commands : sent'[d].base \in {sent[d].base, Absent}
      BY <2>1 DEF TypeOK, ServerTypeOK, NoRequest
    <2>3. UNCHANGED seen
      BY <1>2 DEF clientVars
    <2>4. QED
      BY <1>2, <2>2, <2>3, ServeWrites, WritesKeep, SeenKeep
  <1>3. ASSUME NEW k \in Kinds, OthersWrite(k) \/ DeletionDone(k), UNCHANGED clientVars
        PROVE  Dated' /\ FreshBase'
    <2>1. UNCHANGED <<seen, sent>>
      BY <1>3 DEF OthersWrite, DeletionDone, clientVars
    <2>2. QED
      BY <1>3, <2>1, OthersWrites, WritesKeep
  <1>4. CASE UNCHANGED vars
    BY <1>4, SeenKeep DEF vars, serverVars, clientVars
  <1>5. QED
    BY <1>1, <1>2, <1>3, <1>4 DEF Next

-----------------------------------------------------------------------------
LEMMA InvStep == Inv /\ [Next]_vars => Inv'
  BY TypeStep, VersionStep, ProtocolStep, MadeStep DEF Inv

(* The inductive invariant: types and places, versions, where every        *)
(* request and its answer is, and what stands behind a cluster.            *)
THEOREM Invariance == Spec => []Inv
  <1>1. Init => Inv
    BY InitInv
  <1>2. Inv /\ [Next]_vars => Inv'
    BY InvStep
  <1>3. QED
    BY <1>1, <1>2, PTL DEF Spec

(* Every reachable state is well formed.                                   *)
THEOREM TypeCorrect == Spec => []TypeOK
  <1>1. Inv => TypeOK
    BY DEF Inv
  <1>2. QED
    BY <1>1, Invariance, PTL

(* A verdict of the client is true, whenever and however the server        *)
(* carries out the request (normalizeResult and decodeResult).             *)
THEOREM VerdictsHold == Spec => []VerdictsTrue
  <1>1. Inv => VerdictsTrue
    BY DEF Inv, Protocol, VerdictTrue, VerdictsTrue
  <1>2. QED
    BY <1>1, Invariance, PTL

(* A cluster that cluster create --setup-infra made keeps its resources,   *)
(* although the user removes those of attempts that failed.                *)
THEOREM ClusterStaysBacked == Spec => []ClusterBacked
  <1>1. Inv => ClusterBacked
    BY DEF Inv, TypeOK, ServerTypeOK, Protocol, Made, Backed, Complete, ClusterBacked
  <1>2. QED
    BY <1>1, Invariance, PTL

(* No field of an object that stays is ever set back to an older write.    *)
THEOREM NothingReverts == Spec => NoReversal
  <1>1. ASSUME Inv, NEW k \in Kinds, Writes(k), NEW j \in Kinds,
               store[j].is # "none", store'[j].is # "none", NEW f \in Fields
        PROVE  store'[j].fields[f] >= store[j].fields[f]
    <2>1. /\ version \in Nat /\ store \in [Kinds -> Objects]
          /\ store[j].fields[f] <= version /\ store[j].fields[f] \in Nat
      <3>1. version \in Nat /\ store \in [Kinds -> Objects] /\ store[j] \in Objects
        BY <1>1 DEF Inv, TypeOK, ServerTypeOK
      <3>2. store[j].fields[f] \in Nat
        BY <3>1 DEF Objects
      <3>3. QED
        BY <1>1, <3>2, <3>1 DEF Inv, Dated
    <2>2. CASE j = k
      BY <1>1, <2>1, <2>2, AbsentIs DEF Writes
    <2>3. CASE j # k
      BY <1>1, <2>1, <2>3 DEF Writes
    <2>4. QED
      BY <2>2, <2>3
  <1>2. ASSUME Inv, UNCHANGED store, NEW j \in Kinds, NEW f \in Fields
        PROVE  store'[j].fields[f] >= store[j].fields[f]
    <2>1. store[j] \in Objects
      BY <1>2 DEF Inv, TypeOK, ServerTypeOK
    <2>2. store[j].fields[f] \in Nat
      BY <2>1 DEF Objects
    <2>3. QED
      BY <1>2, <2>2
  <1>3. Inv /\ [Next]_vars => UNCHANGED store \/ \E k \in Kinds : Writes(k)
    <2> SUFFICES ASSUME Inv, [Next]_vars PROVE UNCHANGED store \/ \E k \in Kinds : Writes(k)
      OBVIOUS
    <2>1. ASSUME NEW c \in Commands, Start(c) \/ Proceeds(c) \/ GiveUp(c) \/ CleanUp(c) \/ Killed(c)
          PROVE  UNCHANGED store
      BY <2>1, SeenMoves DEF Inv
    <2>2. ASSUME NEW c \in Commands, Serve(c)
          PROVE  UNCHANGED store \/ \E k \in Kinds : Writes(k)
      BY <2>2, ServeWrites DEF Inv
    <2>3. ASSUME NEW k \in Kinds, OthersWrite(k) \/ DeletionDone(k) PROVE Writes(k)
      BY <2>3, OthersWrites DEF Inv
    <2>4. CASE UNCHANGED vars
      BY <2>4 DEF vars, serverVars
    <2>5. QED
      BY <2>1, <2>2, <2>3, <2>4 DEF Next
  <1>4. Inv /\ [Next]_vars =>
            [\A k \in Kinds : store[k].is # "none" /\ store'[k].is # "none" =>
                 \A f \in Fields : store'[k].fields[f] >= store[k].fields[f]]_vars
    BY <1>1, <1>2, <1>3
  <1>5. QED
    BY <1>4, Invariance, PTL DEF Spec, NoReversal

-----------------------------------------------------------------------------
(* Listings.                                                               *)

FirstPages(n) == [i \in 1 .. n |-> i - 1]

(* In a catalog of real pages, a listing that goes on has the pages before *)
(* its token and no other, and one that ended well has them all.           *)
Collected(c) ==
    catalog > 0 =>
        /\ at[c] = "idle" => listing[c] = NoListing
        /\ at[c] = "page" => /\ listing[c].items = FirstPages(listing[c].token)
                             /\ listing[c].token < catalog
        /\ verdict[c] = "ok" /\ line[c].name \in Listings
               => listing[c].items = FirstPages(catalog)

LEMMA OnePageMore ==
  ASSUME NEW n \in Nat PROVE Append(FirstPages(n), n) = FirstPages(n + 1)
<1>1. FirstPages(n) \in Seq(Nat) /\ Len(FirstPages(n)) = n
  BY DEF FirstPages
<1> DEFINE u == Append(FirstPages(n), n)
<1>2. u \in Seq(Nat) /\ Len(u) = n + 1
      /\ \A i \in 1 .. n + 1 : u[i] = IF i = n + 1 THEN n ELSE FirstPages(n)[i]
  BY <1>1
<1>3. \A i \in 1 .. n + 1 : u[i] = i - 1
  BY <1>2 DEF FirstPages
<1>4. u = [i \in 1 .. n + 1 |-> u[i]]
  <2> HIDE DEF u
  <2> QED
    BY <1>2
<1> HIDE DEF u
<1>5. u = FirstPages(n + 1)
  BY <1>3, <1>4 DEF FirstPages
<1> QED
  BY <1>5 DEF u

LEMMA NoPages == <<>> = FirstPages(0)
  BY DEF FirstPages

LEMMA PageCollected ==
  ASSUME TypeOK, NEW c \in Commands, Collected(c), FetchPage(c) PROVE Collected(c)'
<1> SUFFICES ASSUME catalog > 0 PROVE Collected(c)'
  BY DEF Collected, FetchPage
<1>1. catalog \in Nat /\ UNCHANGED <<catalog, line>>
  BY ListAssumption DEF TypeOK, FetchPage
<1>2. at[c] = "page" /\ listing[c] \in Listed /\ verdict[c] = "none"
  BY DEF TypeOK, FetchPage
<1>3. listing[c].items = FirstPages(listing[c].token) /\ listing[c].token < catalog
      /\ listing[c].token \in Nat
  BY <1>2 DEF Collected, Listed
<1> DEFINE n == listing[c].token
           t == IF n + 1 < catalog THEN n + 1 ELSE 0
<1>4. CASE EndWith(c, "failed")
  BY <1>2, <1>4 DEF EndWith, Collected, TypeOK
<1>5. CASE /\ listing' = [listing EXCEPT ![c] = WithPage(c, t)]
           /\ IF t = 0 THEN EndWith(c, "ok") ELSE GoTo(c, "page")
  <2>1. listing'[c].token = t /\ listing'[c].items = FirstPages(n + 1)
    BY <1>3, <1>5, OnePageMore DEF TypeOK, WithPage
  <2>2. t = 0 => n + 1 = catalog
    BY <1>1, <1>3
  <2>3. CASE t = 0
    BY <1>1, <1>2, <1>5, <2>1, <2>2, <2>3 DEF Collected, EndWith, TypeOK
  <2>4. CASE t # 0
    <3>1. t = n + 1 /\ t < catalog
      BY <2>4
    <3>2. at'[c] = "page" /\ verdict'[c] = "none"
      BY <1>2, <1>5, <2>4 DEF GoTo, TypeOK
    <3> QED
      BY <1>1, <2>1, <3>1, <3>2 DEF Collected
  <2> QED
    BY <2>3, <2>4
<1>6. NextTokens(n) = {t}
  BY <1>1 DEF NextTokens
<1> QED
  BY <1>4, <1>5, <1>6 DEF FetchPage

(* Every other step of the invocation: the listing starts from nothing,    *)
(* and what is no listing becomes none.                                    *)
LEMMA OthersCollected ==
  ASSUME Inv, NEW c \in Commands, Collected(c), Steps(c), ~FetchPage(c)
  PROVE  Collected(c)'
<1> USE DEF TypeOK
<1>1. TypeOK /\ Placed(c) /\ UNCHANGED <<listing, catalog>>
  BY DEF Inv, Protocol, Steps, Proceeds, Start, validateVersion, buildPayloadFromConfigs,
     CreateIAM, CreateNetwork, ReadFirst, SendWrite, Receive, GiveUp, CleanUp, Killed, clientVars
<1>2. CASE Start(c)
  <2>1. at[c] = "idle" /\ verdict[c] = "none" /\ at'[c] \in {"page", "version", "get", "send"}
        /\ verdict'[c] = "none"
    BY <1>1, <1>2 DEF Start, GoTo, FirstPlace
  <2>2. catalog > 0 => listing[c].items = FirstPages(0) /\ listing[c].token = 0
    BY <2>1, NoPages DEF Collected, NoListing
  <2> QED
    BY <1>1, <2>1, <2>2 DEF Collected
<1>3. CASE Receive(c) \/ GiveUp(c)
  <2>1. at'[c] = "end" /\ line[c].name \notin Listings /\ UNCHANGED line
    BY <1>1, <1>3 DEF Receive, GiveUp, EndWith, Placed, CallOf, Listings
  <2> QED
    BY <1>1, <2>1 DEF Collected
<1>4. CASE \/ validateVersion(c) \/ buildPayloadFromConfigs(c) \/ CreateIAM(c)
           \/ CreateNetwork(c) \/ ReadFirst(c) \/ SendWrite(c) \/ Killed(c)
  <2>1. at'[c] \notin {"idle", "page"} /\ verdict'[c] # "ok"
    BY <1>1, <1>4 DEF validateVersion, buildPayloadFromConfigs, CreateIAM, CreateNetwork,
       ReadFirst, SendWrite, Killed, GoTo, EndWith
  <2> QED
    BY <2>1 DEF Collected
<1>5. CASE CleanUp(c) \/ (Serve(c) /\ UNCHANGED clientVars)
  BY <1>1, <1>5 DEF CleanUp, clientVars, Collected
<1> QED
  BY <1>2, <1>3, <1>4, <1>5 DEF Steps, Proceeds

(* The listing of one invocation is its own.                               *)
LEMMA ListingsApart ==
  ASSUME TypeOK, NEW c \in Commands, NEW d \in Commands \ {c}, Steps(c), Collected(d)
  PROVE  Collected(d)'
<1>1. listing'[d] = listing[d] /\ UNCHANGED catalog
  BY DEF TypeOK, Steps, Proceeds, Start, validateVersion, buildPayloadFromConfigs, CreateIAM,
     CreateNetwork, ReadFirst, SendWrite, Receive, GiveUp, FetchPage, CleanUp, Killed, clientVars
<1> QED
  BY <1>1, Bystander DEF Same, Collected

(* For any catalog of real pages and any number of listings at the same    *)
(* time: one that succeeds has every page once, in order.                  *)
THEOREM ListingsComplete == Spec => []ListComplete
  <1>1. Init => \A c \in Commands : Collected(c)
    BY DEF Init, Collected
  <1>2. Inv /\ (\A c \in Commands : Collected(c)) /\ [Next]_vars
          => (\A c \in Commands : Collected(c))'
    <2> SUFFICES ASSUME Inv, \A c \in Commands : Collected(c), [Next]_vars,
                        NEW d \in Commands
                 PROVE  Collected(d)'
      OBVIOUS
    <2>1. ASSUME NEW c \in Commands, Steps(c) PROVE Collected(d)'
      BY <2>1, PageCollected, OthersCollected, ListingsApart DEF Inv
    <2>2. CASE UNCHANGED clientVars
      BY <2>2 DEF clientVars, Collected
    <2>3. QED
      BY <2>1, <2>2 DEF Next, Steps, vars
  <1>3. (\A c \in Commands : Collected(c)) => ListComplete
    BY DEF Collected, FirstPages, ListComplete
  <1>4. QED
    BY <1>1, <1>2, <1>3, Invariance, PTL DEF Spec
=============================================================================
