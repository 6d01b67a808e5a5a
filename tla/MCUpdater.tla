----------------------------- MODULE MCUpdater -----------------------------
(***************************************************************************)
(* Updater with at most two of three incidents in a behaviour: the timer   *)
(* fires, an updater process is killed, a second release follows the       *)
(* first.  None of the three is under fairness.                            *)
(***************************************************************************)
EXTENDS Updater

MCNext == Next /\ (latest' = 3 => checks' + faults' <= 1)

MCSpec == Init /\ [][MCNext]_vars /\ Fairness
=============================================================================
