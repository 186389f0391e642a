-------------------------- MODULE SessionContract --------------------------
(***************************************************************************)
(* What an execution session promises its caller (docs/runtime-contract.md,*)
(* "Execution phases"), without how Prepare, capture and teardown work.    *)
(*                                                                         *)
(* Ports are bound while the session is open; one Prepare either succeeds  *)
(* on complete bindings or, once it has begun to initialise, poisons the   *)
(* session; a prepared session replays the whole model; addresses never    *)
(* change after the session stops being open.                              *)
(***************************************************************************)
EXTENDS Naturals

CONSTANTS Ports, Addresses, NULL

VARIABLES
  phase,     \* "open", "prepared", "poisoned" or "closed"
  bound,     \* the address each port is bound to
  replays    \* complete model replays submitted

contractVars == <<phase, bound, replays>>

Init ==
  /\ phase = "open"
  /\ bound = [p \in Ports |-> NULL]
  /\ replays = 0

Bind(p, a) ==
  /\ phase = "open"
  /\ bound' = [bound EXCEPT ![p] = a]
  /\ UNCHANGED <<phase, replays>>

PrepareSucceeds ==
  /\ phase = "open"
  /\ \A p \in Ports : bound[p] # NULL
  /\ phase' = "prepared"
  /\ UNCHANGED <<bound, replays>>

PrepareFails ==
  /\ phase = "open"
  /\ \A p \in Ports : bound[p] # NULL
  /\ phase' = "poisoned"
  /\ UNCHANGED <<bound, replays>>

Replay ==
  /\ phase = "prepared"
  /\ replays' = replays + 1
  /\ UNCHANGED <<phase, bound>>

Close ==
  /\ phase # "closed"
  /\ phase' = "closed"
  /\ UNCHANGED <<bound, replays>>

Next ==
  \/ \E p \in Ports, a \in Addresses : Bind(p, a)
  \/ PrepareSucceeds
  \/ PrepareFails
  \/ Replay
  \/ Close

Spec == Init /\ [][Next]_contractVars
=============================================================================
