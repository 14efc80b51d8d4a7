---------------------------- MODULE SaveRequest ----------------------------
(***************************************************************************)
(* What save.js promises the code that asks for a save, whichever way the  *)
(* project is saved: "determine the user's intention and advise them of    *)
(* success or failure".  A request is given up before it starts, or it     *)
(* runs and is told one outcome; gPendingSaveRequest holds a request that  *)
(* runs, or null.                                                          *)
(***************************************************************************)
EXTENDS Naturals

CONSTANTS Saves, NoSave

VARIABLES phase, reports, pending

vars == <<phase, reports, pending>>

Outcomes == {"succeeded", "failed", "cancelled"}

Init ==
  /\ phase = [a \in Saves |-> "unused"]
  /\ reports = [a \in Saves |-> 0]
  /\ pending = NoSave

\* The user is asked where to save.
Ask(a) ==
  /\ phase[a] = "unused"
  /\ phase' = [phase EXCEPT ![a] = "asking"]
  /\ UNCHANGED <<reports, pending>>

\* The user gives up; nobody is told.
Drop(a) ==
  /\ phase[a] = "asking"
  /\ phase' = [phase EXCEPT ![a] = "dropped"]
  /\ UNCHANGED <<reports, pending>>

\* The save starts and can be cancelled from now on.
Start(a) ==
  /\ phase[a] \in {"unused", "asking"}
  /\ phase' = [phase EXCEPT ![a] = "running"]
  /\ pending' = a
  /\ UNCHANGED reports

\* The save cannot start.
FailToStart(a) ==
  /\ phase[a] \in {"unused", "asking"}
  /\ phase' = [phase EXCEPT ![a] = "failed"]
  /\ reports' = [reports EXCEPT ![a] = @ + 1]
  /\ UNCHANGED pending

\* The save ends and its caller is told how.
Finish(a, outcome) ==
  /\ phase[a] = "running"
  /\ phase' = [phase EXCEPT ![a] = outcome]
  /\ reports' = [reports EXCEPT ![a] = @ + 1]
  /\ pending' = NoSave

Next ==
  \E a \in Saves :
    \/ Ask(a) \/ Drop(a) \/ Start(a) \/ FailToStart(a)
    \/ \E o \in Outcomes : Finish(a, o)

Spec == Init /\ [][Next]_vars

TypeOK ==
  /\ phase \in [Saves -> {"unused", "asking", "dropped", "running"} \cup Outcomes]
  /\ reports \in [Saves -> Nat]
  /\ pending \in Saves \cup {NoSave}

\* gPendingSaveRequest never outlives its save: what it holds is still running,
\* so isSavePending() cannot lock saving and closing for good.
NoStalePending == pending # NoSave => phase[pending] = "running"

\* Every callback is told one outcome, once, and only when its save has ended.
ReportedOnce ==
  \A a \in Saves : reports[a] = IF phase[a] \in Outcomes THEN 1 ELSE 0
=============================================================================
