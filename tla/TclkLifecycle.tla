---------------------------- MODULE TclkLifecycle ----------------------------
(***************************************************************************)
(* What a tclk/1 transcript is about: each offer is made once, taken by one *)
(* other party, then cancelled, or locked by the payer and settled once, by *)
(* the payee's claim before the refund time or by the payer's refund after. *)
(***************************************************************************)
CONSTANTS
  Party,  \* who may take part
  Offers, \* offers that may be made
  None    \* no party

VARIABLES
  stage, \* where each offer is
  taker  \* who accepted it

lifecycleVars == <<stage, taker>>

Move(o, from, to) == stage[o] = from /\ stage' = [stage EXCEPT ![o] = to]

Propose(o) == Move(o, "none", "proposed") /\ UNCHANGED taker

Take(o, p) ==
  /\ Move(o, "proposed", "accepted")
  /\ p # o.from
  /\ taker' = [taker EXCEPT ![o] = p]

Settle(o) ==
  /\ \/ Move(o, "accepted", "locked") \/ Move(o, "accepted", "cancelled")
     \/ Move(o, "locked", "claimed") \/ Move(o, "locked", "refunded")
  /\ UNCHANGED taker

LifecycleInit == stage = [o \in Offers |-> "none"] /\ taker = [o \in Offers |-> None]

LifecycleNext ==
  \E o \in Offers : Propose(o) \/ (\E p \in Party : Take(o, p)) \/ Settle(o)

LifecycleSpec == LifecycleInit /\ [][LifecycleNext]_lifecycleVars
=============================================================================
