------------------------------ MODULE MCMemDB ------------------------------
(***************************************************************************)
(* Instances of InMemDB.                                                   *)
(***************************************************************************)
EXTENDS InMemDB

Deployment(redis, realtime, poses, deleted) ==
  [redis |-> redis, realtime |-> realtime, reloads |-> FALSE,
   poses |-> poses, changes |-> 0, deletions |-> deleted, flushes |-> poses]

Security(redis, changed, deleted) ==
  [redis |-> redis, realtime |-> FALSE, reloads |-> TRUE,
   poses |-> 0, changes |-> changed, deletions |-> deleted, flushes |-> 1]

\* Enough poses on a single node to pass the limit of pending flushes, fewer
\* where two nodes share Redis; changes of the account apart from poses.
MCConfigs ==
  { Deployment(FALSE, FALSE, 5, 0), Deployment(FALSE, TRUE, 4, 1),
    Deployment(TRUE, FALSE, 4, 1), Deployment(TRUE, TRUE, 2, 1),
    Security(TRUE, 1, 0), Security(FALSE, 2, 1) }
=============================================================================
