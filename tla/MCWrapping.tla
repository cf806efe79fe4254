----------------------------- MODULE MCWrapping -----------------------------
(***************************************************************************)
(* Response wrapping on three nodes, the last with two requests at a time. *)
(* Each behaviour uses a part of them: all four requests with one token,   *)
(* or the last node with two tokens, so that the sweep of one Wrap meets   *)
(* the other token.                                                        *)
(***************************************************************************)
EXTENDS Wrapping, TLC

CONSTANTS n1, n2, n3, a, b, c, d, t1, t2

VARIABLE part

MCNodeOf == a :> n1 @@ b :> n2 @@ c :> n3 @@ d :> n3

Parts == {"all", "last"}
Runs == [all |-> Nodes, last |-> {n3}]
Mints == [all |-> {t1}, last |-> Tokens]

MCInit == Init /\ part \in Parts

\* Nothing happens on the other nodes and with the other tokens.
MCNext ==
  /\ \/ \E th \in Threads : NodeOf[th] \in Runs[part] /\ (WrapStep(th) \/ UnwrapStep(th))
     \/ \E t \in Tokens : Expire(t)
     \/ \E n \in Runs[part] : Restart(n)
  /\ \A t \in Tokens \ Mints[part] : minter'[t] = NoNode
  /\ UNCHANGED part

MCSpec == MCInit /\ [][MCNext]_<<vars, part>>
=============================================================================
