-------------------------- MODULE MCAdministration --------------------------
(***************************************************************************)
(* The administration of a node and of its cluster, one part at a time: a  *)
(* behaviour exercises the component its initial state names and leaves    *)
(* the others untouched, so the reachable states are the union of their    *)
(* state spaces; the terminal panel and the jobs of the web API, which     *)
(* share no state, count as two.  A behaviour has at most two incidents,   *)
(* failures and kills together, and at most one when it runs as many       *)
(* commands (of AdminUsers) or tasks (of AdminInstall) as the bounds allow. *)
(***************************************************************************)
EXTENDS AdminUsers, AdminInstall, ClusterAdmin, GeoData, ControlPanel

VARIABLE exercised

MCInit ==
    /\ exercised \in {"users", "install", "cluster", "geodata", "panel", "jobs"}
    /\ AdminInit /\ (exercised # "users" => node.access = {})
    /\ InstallInit /\ (exercised # "install" => files = FirstFiles({}))
    /\ ClusterInit /\ (exercised # "cluster" => peered = EdgeIds)
    /\ GeoInit /\ ControlInit

MCNext ==
    /\ UNCHANGED exercised
    /\ \/ /\ exercised = "users" /\ AdminNext
          /\ spent'.faults + spent'.crashes <= IF spent'.commands = 3 THEN 1 ELSE 2
          /\ UNCHANGED <<installVars, clusterVars, geoVars, controlVars>>
       \/ /\ exercised = "install" /\ InstallNext
          /\ used'.failures + used'.kills <= IF used'.tasks = 2 THEN 1 ELSE 2
          /\ UNCHANGED <<adminVars, clusterVars, geoVars, controlVars>>
       \/ /\ exercised = "cluster" /\ ClusterNext
          /\ UNCHANGED <<adminVars, installVars, geoVars, controlVars>>
       \/ /\ exercised = "geodata" /\ GeoNext
          /\ UNCHANGED <<adminVars, installVars, clusterVars, controlVars>>
       \/ /\ exercised = "panel" /\ ControlNext /\ UNCHANGED jobVars
          /\ UNCHANGED <<adminVars, installVars, clusterVars, geoVars>>
       \/ /\ exercised = "jobs" /\ ControlNext /\ UNCHANGED panelVars
          /\ UNCHANGED <<adminVars, installVars, clusterVars, geoVars>>

MCSpec == MCInit /\ [][MCNext]_<<exercised, adminVars, installVars, clusterVars, geoVars, controlVars>>
=============================================================================
