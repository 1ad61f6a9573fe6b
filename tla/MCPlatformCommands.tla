-------------------------- MODULE MCPlatformCommands --------------------------
(* Instances of PlatformCommands for TLC.                                  *)
EXTENDS PlatformCommands

Plain(names) == {[name |-> n, form |-> "plain"] : n \in names}

Writers ==
    Plain({"delete cluster", "create policy", "update policy", "delete policy",
           "create nodepool", "scale nodepool", "delete nodepool", "create role",
           "update role", "delete role", "create binding", "delete binding"})
    \cup {[name |-> "create cluster", form |-> f] : f \in {"setupInfra", "configs", "dryRun"}}
    \cup {[name |-> "update policy", form |-> "exclusions"]}

EveryLine == Writers \cup Plain(Listings)

(* The kinds do not interact: two commands on the same kind, or one        *)
(* listing, are all that can meet; others write what a command is about.   *)
(* Commands are interchangeable: c1 is the first.                          *)
About(l) == CallOf(l.name).resource
Writing == {c \in Commands : line[c] # NoLine /\ line[c].name \notin Listings}
Listing == {c \in Commands : line[c].name \in Listings}
Touched == {About(line[c]) : c \in Writing}

Meeting ==
    /\ line["c1"] = NoLine => line["c2"] = NoLine
    /\ Writing = {} \/ (Listing = {} /\ catalog = 1)
    /\ \A c, d \in Listing : c = d
    /\ \A c, d \in Writing : About(line[c]) = About(line[d])

StaysMeeting ==
    /\ Meeting'
    /\ store' = store \/ \E k \in Touched : store' = [store EXCEPT ![k] = store'[k]]

MeetingInit == Init /\ \A k, l \in Kinds : store[k] = store[l]

MeetingSpec == MeetingInit /\ [][Next]_vars /\ \A c \in Commands : WF_vars(Proceeds(c))
==============================================================================
