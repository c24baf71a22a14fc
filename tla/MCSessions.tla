------------------------------ MODULE MCSessions ------------------------------
(* Small instances of Sessions for TLC: what may go wrong together, and how  *)
(* many tokens are issued then.                                            *)
EXTENDS Sessions, TLC

MCMaxSession ==
     {"lost"} :> 3 @@ {"lost", "again"} :> 2 @@ {"admin", "agent"} :> 2
  @@ {"task"} :> 2

MCWorlds == DOMAIN MCMaxSession

=============================================================================
