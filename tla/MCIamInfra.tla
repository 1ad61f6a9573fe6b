----------------------------- MODULE MCIamInfra -----------------------------
(***************************************************************************)
(* Instances of IamInfra for TLC.  iam-bindings.json has six accounts; two *)
(* are enough for the loop over definitions (one to be in, one to come),   *)
(* one with two roles and one binding, one with one role and the two       *)
(* bindings of image-registry.                                             *)
(***************************************************************************)
EXTENDS IamInfra

OneDefinition == <<"registry">>
TwoDefinitions == <<"ctrlplane", "registry">>

MCRolesOf == [ctrlplane |-> {"dns", "viewer"}, registry |-> {"storage"}]
MCSubjectsOf == [ctrlplane |-> <<"operator">>, registry |-> <<"operator", "registry">>]

OwnGrants == UNION {RoleGrants(i, a) : i \in Infras, a \in Names}
AdminGrants == {<<"admin", "admin", "owner">>}
MCGrants == OwnGrants \cup AdminGrants

SameInfra == [r \in Clients |-> "i1"]

NoPool == {[state |-> "none", disabled |-> FALSE]}
NoProvider == {[state |-> "none", disabled |-> FALSE,
                issuer |-> "other", jwks |-> "other"]}
SomePools == NoPool \cup {[state |-> "deleted", disabled |-> FALSE]}
AnyPool == NoPool \cup {p \in Pools : p.state # "none"}
SomeProviders == NoProvider \cup {[state |-> s, disabled |-> FALSE, issuer |-> "wanted",
                                   jwks |-> "other"] : s \in {"active", "deleted"}}
AnyProvider == NoProvider \cup {p \in Providers : p.state # "none"}

(* What an interrupted run, a destroy that could not remove a grant, or an *)
(* administrator left in the project policy: nothing, part or all of it.   *)
HalfGranted == {<<"i1", "ctrlplane", "dns">>}
LeftoversInit ==
    Init /\ policy \in {{}, AdminGrants, AdminGrants \cup HalfGranted, Grants}

LeftoversSpec == LeftoversInit /\ [][Next]_vars /\ Fairness
=============================================================================
