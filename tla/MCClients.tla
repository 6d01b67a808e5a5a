----------------------------- MODULE MCClients -----------------------------
(***************************************************************************)
(* The five client components, one at a time: a behaviour exercises the    *)
(* component its initial state names and leaves the others untouched, so   *)
(* the reachable states are the union of the five state spaces.  A mobile  *)
(* runtime meets two incidents, deaths of carriers and network changes     *)
(* together.                                                               *)
(***************************************************************************)
EXTENDS MobileRuntime, MobileController, ClientCore, WindowsClient, WindowsStore

VARIABLE exercised

componentVars == <<runtimeVars, controllerVars, coreVars, windowsVars, storeVars>>

MCInit ==
    /\ exercised \in {"runtime", "controller", "core", "windows", "store"}
    /\ RuntimeInit /\ ControllerInit /\ CoreInit /\ WindowsInit /\ StoreInit
    /\ exercised # "runtime" => kind[1] = "https"

MCNext ==
    /\ UNCHANGED exercised
    /\ \/ /\ exercised = "runtime" /\ RuntimeNext
          /\ budget'.die + budget'.change >= 1
          /\ UNCHANGED <<controllerVars, coreVars, windowsVars, storeVars>>
       \/ /\ exercised = "controller" /\ ControllerNext
          /\ UNCHANGED <<runtimeVars, coreVars, windowsVars, storeVars>>
       \/ /\ exercised = "core" /\ CoreNext
          /\ UNCHANGED <<runtimeVars, controllerVars, windowsVars, storeVars>>
       \/ /\ exercised = "windows" /\ WindowsNext
          /\ UNCHANGED <<runtimeVars, controllerVars, coreVars, storeVars>>
       \/ /\ exercised = "store" /\ StoreNext
          /\ UNCHANGED <<runtimeVars, controllerVars, coreVars, windowsVars>>

\* The watchers and the calls of np2Runtime are scheduled, and every call they wait in has a timeout.
MCSpec ==
    /\ MCInit /\ [][MCNext]_<<exercised, componentVars>>
    /\ WF_runtimeVars(exercised = "runtime" /\ WatchSteps)
    /\ WF_runtimeVars(exercised = "runtime" /\ ChangeSteps)
=============================================================================
