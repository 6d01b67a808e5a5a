------------------------------ MODULE MCUsage ------------------------------
(***************************************************************************)
(* Instances of Usage for TLC.  Devices are interchangeable, and of the    *)
(* two revisions only their difference is ever looked at, so states that   *)
(* differ in the absolute revisions alone are one state.  Of an edit of    *)
(* the policy, a failing write and the death of a process, a behaviour has *)
(* two.                                                                    *)
(***************************************************************************)
EXTENDS Usage

DeviceSymmetry == Permutations(Devices)

View ==
    <<policy, edits, file.users, t.users, t.last, IF up THEN file.rev - t.rev ELSE 0,
      up, creds, sess, lock, admin, failures, stops, due, removed>>

MCNext == Next /\ edits' + failures' + stops' <= 2
MCSpec == Init /\ [][MCNext]_vars
=============================================================================
