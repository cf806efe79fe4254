----------------------------- MODULE TokenLife -----------------------------
(***************************************************************************)
(* What the token store promises a client: a token lives once.  It may die *)
(* at any moment (it expires or is revoked) and a dead token comes back    *)
(* only when it is excused: somebody held its record, read while the token *)
(* was alive, when it died, or it is one of those that are registered anew *)
(* at every start.                                                         *)
(***************************************************************************)
CONSTANTS
  Tokens,
  Reborn   \* tokens that every start registers anew

VARIABLES
  phase,   \* unborn, live or dead
  excused  \* tokens whose record was held at their death

life == <<phase, excused>>

LifeInit ==
  /\ phase \in [Tokens -> {"unborn", "live"}]
  /\ excused = {}

Born(t) ==
  /\ phase[t] = "unborn"
  /\ phase' = [phase EXCEPT ![t] = "live"]
  /\ UNCHANGED excused

\* Time kills several at once.
Die ==
  /\ \A t \in Tokens : phase'[t] = phase[t] \/ (phase[t] = "live" /\ phase'[t] = "dead")
  /\ phase' # phase
  /\ excused \subseteq excused'
  /\ \A t \in excused' \ excused : phase'[t] = "dead"

Revive(t) ==
  /\ phase[t] = "dead" /\ t \in excused \cup Reborn
  /\ phase' = [phase EXCEPT ![t] = "live"]
  /\ UNCHANGED excused

LifeNext == Die \/ \E t \in Tokens : Born(t) \/ Revive(t)

LifeSpec == LifeInit /\ [][LifeNext]_life
=============================================================================
