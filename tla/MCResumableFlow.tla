--------------------------- MODULE MCResumableFlow ---------------------------
(***************************************************************************)
(* ResumableFlow with one direction of traffic at a time: a download or an *)
(* upload of two bytes, or a longer download.                              *)
(***************************************************************************)
EXTENDS ResumableFlow, TLC
From(sender, n) == {[e \in End |-> IF e = sender THEN n ELSE 0]}
Download == From("server", 2)
Upload == From("client", 2)
LongDownload == From("server", 4)

\* Carriers other than the first are interchangeable.
Sym == {f \in Permutations(Carriers) : f[First] = First}

Lost(up) == {<<c, e>> \in Carriers \X End : e \notin up[c]}

\* The second loss comes while the flow migrates because of the first.
MCNext == Next /\ (Lost(alive') # Lost(alive) /\ Lost(alive) # {} => mig.pc # "none")
MCSpec == Init /\ [][MCNext]_vars
=============================================================================
