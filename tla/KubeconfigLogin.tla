--------------------------- MODULE KubeconfigLogin ---------------------------
(***************************************************************************)
(* cluster login and the kubeconfig file (pkg/cluster, pkg/kubeconfig).  A *)
(* login loads the file, adds its cluster, makes it current and saves; it  *)
(* has kubectl try the new context, and if that fails loads the file again *)
(* and sets the context back.  Nothing is locked: other logins and kubectl *)
(* (external) read and write the file in between.  A save empties the file *)
(* before it writes it, and may fail, or the process be killed, anywhere.  *)
(***************************************************************************)
EXTENDS FiniteSets

CONSTANTS
    Logins,      \* invocations of cluster login
    Names,       \* names of contexts; "" is none
    Server       \* Server[n]: the endpoint of the cluster n

VARIABLES
    file,        \* the kubeconfig file
    login,       \* login[p]: an invocation
    kept,        \* entries that finished saves and others left in the file
    lossy        \* a save was overlapped, or cut short (for the properties)

vars == <<file, login, kept, lossy>>

(* Cluster, user and context of one name are one entry: its server, or ""  *)
(* for none.                                                               *)
Entries == [Names -> {Server[n] : n \in Names} \cup {"", "other"}]
Configs == [entries : Entries, current : Names \cup {""}]
NewConfig == [entries |-> [n \in Names |-> ""], current |-> ""]

Files == [config : Configs, is : {"absent", "whole", "empty", "torn"}]

LoginPlaces == {"start", "load", "open", "write", "validate", "reload", "reopen", "rewrite"}
Ends == {"ok", "failed", "rejected", "killed"}

TypeOK ==
    /\ file \in Files
    /\ login \in [Logins -> [at : LoginPlaces \cup Ends, name : Names, found : Configs,
                             mine : Configs, alone : BOOLEAN, restored : BOOLEAN]]
    /\ kept \in SUBSET (Names \X {Server[n] : n \in Names} \cup Names \X {"other"})
    /\ lossy \in BOOLEAN

EntriesOf(cfg) == {<<n, cfg.entries[n]>> : n \in {k \in Names : cfg.entries[k] # ""}}

Loaded(p) == login[p].at \in {"open", "write", "reopen", "rewrite"}

-----------------------------------------------------------------------------
Init ==
    /\ \E entries \in [Names -> {"", "other"}], current \in Names \cup {""} :
        /\ current # "" => entries[current] # ""
        /\ \E is \in {"absent", "whole", "empty", "torn"} :
            file = [config |-> [entries |-> entries, current |-> current], is |-> is]
    /\ file.is \in {"absent", "empty"} => file.config = NewConfig
    /\ login \in [Logins -> [at : {"start"}, name : Names, found : {NewConfig},
                             mine : {NewConfig}, alone : {TRUE}, restored : {FALSE}]]
    /\ kept = IF file.is = "torn" THEN {} ELSE EntriesOf(file.config)
    /\ lossy = FALSE

(* A login that is not alone with the file; of what it found it needs the  *)
(* context.                                                                *)
Disturbed(l) ==
    IF l.at \in {"start"} \cup Ends THEN l
    ELSE [l EXCEPT !.alone = FALSE, !.found.entries = NewConfig.entries]

(* p's step touches the file: nobody else is alone with it, and if one has *)
(* loaded it and not yet saved, something may get lost.                    *)
Touches(p, new) ==
    /\ lossy' = (lossy \/ \E q \in Logins \ {p} : Loaded(q))
    /\ login' = [q \in Logins |-> IF q = p THEN new ELSE Disturbed(login[q])]

(* What a login knew is gone when it ends.                                 *)
End(p, how) == [login[p] EXCEPT !.at = how, !.found = NewConfig, !.mine = NewConfig]

(* After a loss nothing is counted on.                                     *)
Keep(entries) == kept' = IF lossy' THEN {} ELSE entries

Moves(p, new) ==
    /\ login' = [login EXCEPT ![p] = new]
    /\ UNCHANGED <<file, kept, lossy>>

-----------------------------------------------------------------------------
(* loadOrNew: an empty file is a valid one; of a torn one as much is found *)
(* as can be read, or nothing.                                             *)
Loads ==
    CASE file.is = "absent" -> {NewConfig}
      [] file.is = "empty" -> {NewConfig}
      [] file.is = "whole" -> {file.config}
      [] OTHER -> {[entries |-> [n \in Names |-> IF n \in S THEN file.config.entries[n] ELSE ""],
                    current |-> ""] : S \in SUBSET Names}

(* Update: what a login makes of what it found.                            *)
Update(cfg, name) ==
    [entries |-> [cfg.entries EXCEPT ![name] = Server[name]], current |-> name]

(* The cluster has no usable endpoint, or the login goes on.               *)
resolveClusterEndpoint(p) ==
    /\ login[p].at = "start"
    /\ \/ Moves(p, End(p, "failed"))
       \/ Moves(p, [login[p] EXCEPT !.at = "load"])

(* Mutant: a file that cannot be read counts as new.                       *)
LoadOrEmpty(p) ==
    /\ login[p].at = "load"
    /\ \E cfg \in Loads \cup {NewConfig} : Moves(p, [login[p] EXCEPT !.at = "open",
            !.found = cfg, !.mine = Update(cfg, login[p].name)])

Load(p) ==
    /\ login[p].at = "load"
    /\ \/ Moves(p, End(p, "failed"))
       \/ \E cfg \in Loads : Moves(p, [login[p] EXCEPT !.at = "open",
            !.found = cfg, !.mine = Update(cfg, login[p].name)])

(* save: the file is emptied.  It may not be possible to write it.         *)
AfterError(p) == IF login[p].at \in {"open", "write"} THEN "failed" ELSE "rejected"

Open(p) ==
    /\ login[p].at \in {"open", "reopen"}
    /\ \/ Moves(p, End(p, AfterError(p)))
       \/ /\ file' = [config |-> NewConfig, is |-> "empty"]
          /\ Touches(p, [login[p] EXCEPT !.at = IF @ = "open" THEN "write" ELSE "rewrite"])
          /\ Keep(kept)

(* save: the file is written, and its mode set, which is tried last.       *)
Written(p) ==
    \/ login[p].at = "write" /\ Touches(p, [login[p] EXCEPT !.at = "validate", !.mine = NewConfig])
    \/ login[p].at = "rewrite" /\ Touches(p, [End(p, "rejected") EXCEPT !.restored = TRUE])
    \/ Touches(p, [End(p, AfterError(p)) EXCEPT !.alone = FALSE])

Write(p) ==
    /\ login[p].at \in {"write", "rewrite"}
    /\ \/ /\ file' = [config |-> login[p].mine, is |-> "whole"]
          /\ Written(p)
          /\ Keep(kept \cup EntriesOf(login[p].mine))
       \/ /\ file' = [config |-> login[p].mine, is |-> "torn"]
          /\ login' = [q \in Logins |-> IF q = p THEN End(p, AfterError(p)) ELSE Disturbed(login[q])]
          /\ lossy' = TRUE
          /\ kept' = {}

(* kubectl auth whoami --context.                                          *)
validateAccess(p) ==
    /\ login[p].at = "validate"
    /\ \/ /\ file.is = "whole" /\ file.config.entries[login[p].name] # ""
          /\ Moves(p, End(p, "ok"))
       \/ Moves(p, IF login[p].found.current = "" THEN End(p, "rejected")
                   ELSE [login[p] EXCEPT !.at = "reload"])

(* Mutant: what was found before the login is written back.                *)
RestoreFound(p) ==
    /\ login[p].at = "reload"
    /\ Moves(p, [login[p] EXCEPT !.at = "reopen", !.mine = login[p].found])

(* RestoreContext: the file as it is now, with the context found before    *)
(* the login, if that is still there.                                      *)
RestoreContext(p) ==
    /\ login[p].at = "reload"
    /\ \/ Moves(p, End(p, "rejected"))
       \/ \E cfg \in Loads :
            /\ cfg.entries[login[p].found.current] # ""
            /\ Moves(p, [login[p] EXCEPT !.at = "reopen",
                            !.mine = [cfg EXCEPT !.current = login[p].found.current]])

Killed(p) ==
    /\ login[p].at \in LoginPlaces \ {"start"}
    /\ login' = [login EXCEPT ![p] = End(p, "killed")]
    /\ lossy' = (lossy \/ login[p].at \in {"write", "rewrite"})
    /\ Keep(kept)
    /\ UNCHANGED file

(* kubectl config: another context, an entry set or deleted.               *)
Kubectl ==
    /\ file.is = "whole"
    /\ lossy' = (lossy \/ \E q \in Logins : Loaded(q))
    /\ \E n \in Names :
        \/ /\ file.config.entries[n] # ""
           /\ file' = [file EXCEPT !.config.current = n]
           /\ Keep(kept)
        \/ /\ file' = [file EXCEPT !.config.entries[n] = "other"]
           /\ Keep({e \in kept : e[1] # n} \cup {<<n, "other">>})
        \/ /\ file' = [file EXCEPT !.config.entries[n] = ""]
           /\ Keep({e \in kept : e[1] # n})
    /\ login' = [q \in Logins |-> Disturbed(login[q])]

Next ==
    \/ \E p \in Logins :
        \/ resolveClusterEndpoint(p) \/ Load(p) \/ Open(p) \/ Write(p) \/ validateAccess(p)
        \/ RestoreContext(p) \/ Killed(p)
    \/ Kubectl

Spec == Init /\ [][Next]_vars

-----------------------------------------------------------------------------
(* Unless a save was overlapped or cut short, no entry of anybody is ever  *)
(* lost, but to a login to the same cluster; in particular none that       *)
(* kubectl adds while a login waits for its answer (kubeconfig.go:4-5).    *)
NothingLost ==
    ~lossy /\ file.is = "whole" =>
        \A e \in kept : file.config.entries[e[1]] \in {e[2], Server[e[1]]}

(* A login that nobody disturbs leaves the file as it found it, with its   *)
(* own entry; its context is the current one if it succeeded, and the one  *)
(* before if it was rejected and set the context back                      *)
(* (login.go:98-107).                                                      *)
LoneLogin ==
    [][\A p \in Logins :
        login[p].at \in LoginPlaces /\ login'[p].alone /\ login'[p].at \in {"ok", "rejected"} =>
            LET done == Update(login[p].found, login[p].name) IN
            /\ login'[p].at = "ok" => file'.config = done
            /\ login'[p].restored => file'.config = [done EXCEPT !.current =
                                                        login[p].found.current]]_vars
=============================================================================
