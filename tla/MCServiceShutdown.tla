-------------------------- MODULE MCServiceShutdown --------------------------
(* ServiceShutdown on small sets of jobs, calls and health checks.         *)
EXTENDS ServiceShutdown

CONSTANTS j1, j2, d1, h1

\* Which requests arrive: the second analysis comes after the first, and in
\* runs without a direct call and a health check.  Nobody is made to ask: this
\* bounds what comes from outside and leaves every step of the service alone.
Cast ==
    caller[j2] # "idle" => /\ caller[j1] # "idle"
                           /\ call[d1] = "new"
                           /\ checker[h1] = "new"

MCSpec == ServiceInit /\ [][ServiceNext /\ Cast']_systemVars

MCFairSpec == MCSpec /\ ServiceFairness
=============================================================================
