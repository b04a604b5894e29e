--------------------------- MODULE MCClusterSync ---------------------------
EXTENDS ClusterSync

(* Each reconciler on its own. *)
OneByOne == { {k} : k \in Reconciled }

(* What somebody watches, for each reconciler.  Paired changes take half of  *)
(* the bound, so that two of them meet, the others all of it.               *)
Weigh(paired, single) ==
    [x \in paired \union single \union {"errors", "restart"} |-> IF x \in single THEN 2 ELSE 1]

Watched ==
    [S \in OneByOne |->
       CASE S = {"controller"} -> Weigh({"nodeset", "accounting", "ctlConfig", "ctlSet"},
                {"controller", "slurmKey", "jwtKey", "ctlService"})
         [] S = {"accounting"} -> Weigh({"accounting", "slurmKey", "dbdConfig", "dbdSet"},
                {"jwtKey", "dbdService"})
         [] S = {"restapi"}    -> Weigh({"restapi", "controller", "slurmKey", "restDeploy"},
                {"jwtKey", "restService"})
         [] S = {"loginset"}   -> Weigh({"controller", "slurmKey", "hostKeys", "loginDeploy"},
                {"loginset", "jwtKey", "sshConfig", "loginService"})]

(* One spec of the Controller follows another. *)
ControllerOnly == {{"controller"}}
ControllerChanges == [S \in ControllerOnly |-> [x \in {"controller"} |-> 1]]

(* A config map named by the Controller. *)
ConfigFilesOnly == [S \in OneByOne |-> [x \in {"configFiles"} |-> 1]]
=============================================================================
