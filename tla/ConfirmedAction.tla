--------------------------- MODULE ConfirmedAction ---------------------------
(***************************************************************************)
(* What Room Hub promises about a change that an administrator has to      *)
(* confirm, however often the request behind it is retried, confirmed      *)
(* again, cancelled or cut off by a restart: it is made at most once, only *)
(* after a confirmation, and the recorded answer is never wrong - "done"   *)
(* is said only of a change that was made, and "unknown" is never turned   *)
(* into anything else.                                                     *)
(*                                                                         *)
(* The promise is the docstring of AssistantEngine.confirm() ("Atomic and  *)
(* idempotent"), and the durable reservation of WidgetBridge.confirm().    *)
(***************************************************************************)
CONSTANT Actions   \* one per family of retried requests

VARIABLES
  asked,   \* actions an administrator confirmed
  done,    \* actions whose change was made
  answer   \* what the ledger says: "none", "done" or "unknown"

vars == <<asked, done, answer>>

Init == asked = {} /\ done = {} /\ answer = [a \in Actions |-> "none"]

Ask(a) ==
  /\ a \notin asked
  /\ asked' = asked \union {a}
  /\ UNCHANGED <<done, answer>>

\* The change may still arrive after the outcome was declared unknown.
Make(a) ==
  /\ a \in asked \ done
  /\ done' = done \union {a}
  /\ UNCHANGED <<asked, answer>>

Say(a) ==
  /\ a \in asked /\ answer[a] = "none"
  /\ \E s \in {"done", "unknown"} :
       /\ s = "done" => a \in done
       /\ answer' = [answer EXCEPT ![a] = s]
  /\ UNCHANGED <<asked, done>>

\* Confirmation, change and answer in one transaction.
AtOnce(a) ==
  /\ a \notin asked
  /\ asked' = asked \union {a}
  /\ done' = done \union {a}
  /\ answer' = [answer EXCEPT ![a] = "done"]

Next == \E a \in Actions : Ask(a) \/ Make(a) \/ Say(a) \/ AtOnce(a)

Spec == Init /\ [][Next]_vars
=============================================================================
