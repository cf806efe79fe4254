----------------------------- MODULE SingleUse ------------------------------
(***************************************************************************)
(* What response wrapping promises.  A token that was issued is redeemed   *)
(* at most once on a node, and on two nodes only when one of them minted   *)
(* it: with one node, or between the nodes that did not mint a token, it   *)
(* is redeemed at most once.                                               *)
(***************************************************************************)
EXTENDS Naturals

CONSTANTS Nodes, NoNode, Tokens

VARIABLES
  minter,   \* the node that minted a token, or NoNode
  issued,   \* tokens clients hold
  handed    \* how often each node handed out each payload

Init ==
  /\ minter = [t \in Tokens |-> NoNode]
  /\ issued = {}
  /\ handed = [n \in Nodes |-> [t \in Tokens |-> 0]]

Mint(n, t) ==
  /\ minter[t] = NoNode
  /\ minter' = [minter EXCEPT ![t] = n]
  /\ UNCHANGED <<issued, handed>>

Issue(t) ==
  /\ minter[t] # NoNode /\ t \notin issued
  /\ issued' = issued \cup {t}
  /\ UNCHANGED <<minter, handed>>

Redeem(n, t) ==
  /\ t \in issued
  /\ handed[n][t] = 0
  /\ \A m \in Nodes : handed[m][t] # 0 => minter[t] \in {m, n}
  /\ handed' = [handed EXCEPT ![n][t] = 1]
  /\ UNCHANGED <<minter, issued>>

Next ==
  \/ \E t \in Tokens : Issue(t)
  \/ \E n \in Nodes, t \in Tokens : Mint(n, t) \/ Redeem(n, t)

Spec == Init /\ [][Next]_<<minter, issued, handed>>
=============================================================================
