---------------------------- MODULE WriteContract ----------------------------
(***************************************************************************)
(* What the outbox promises an operator about an external write            *)
(* (app/erp/outbox.py:1-7): an intention takes effect at most once, a      *)
(* result the system states is true, and a result it cannot know is        *)
(* declared uncertain and decided by a person, never tried again.          *)
(***************************************************************************)
EXTENDS Integers

CONSTANT Ops

VARIABLES
  phase,   (* what the system tells the operator *)
  effect   (* how often the origin executed the intention *)

contractVars == <<phase, effect>>

ContractInit ==
  /\ phase = [o \in Ops |-> "none"]
  /\ effect = [o \in Ops |-> 0]

Move(o, from, to) ==
  /\ phase[o] = from
  /\ phase' = [phase EXCEPT ![o] = to]
  /\ UNCHANGED effect

Register(o) == Move(o, "none", "open")

Execute(o) ==
  /\ phase[o] = "open"
  /\ effect[o] = 0
  /\ effect' = [effect EXCEPT ![o] = 1]
  /\ UNCHANGED phase

Succeed(o) == effect[o] = 1 /\ Move(o, "open", "done")
Refuse(o)  == effect[o] = 0 /\ Move(o, "open", "refused")
Decide(o)  == Move(o, "uncertain", "done") \/ Move(o, "uncertain", "refused")

(* After a crash several results may become doubtful at once.              *)
Doubt(S) ==
  /\ \A o \in S : phase[o] = "open"
  /\ phase' = [o \in Ops |-> IF o \in S THEN "uncertain" ELSE phase[o]]
  /\ UNCHANGED effect

ContractNext ==
  \/ \E o \in Ops : \/ Register(o) \/ Execute(o) \/ Succeed(o)
                    \/ Refuse(o) \/ Decide(o)
  \/ \E S \in SUBSET Ops : Doubt(S)

ContractSpec == ContractInit /\ [][ContractNext]_contractVars

=============================================================================
