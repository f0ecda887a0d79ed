---------------------------- MODULE Assignments -----------------------------
(***************************************************************************)
(* What a command promises to the one who sends it: the settings it names  *)
(* are assigned in the order of their addresses, and success is reported   *)
(* only of a command all of whose assignments were made.  A command that   *)
(* fails leaves the first of them made, each one whole, except that a      *)
(* power cut may spoil the one being made.                                 *)
(***************************************************************************)
EXTENDS Integers

CONSTANTS
    Initial,    \* the settings of a device that was never configured
    Persistent  \* those that survive a power cut

VARIABLES
    settings,
    plan,     \* address -> [name, values]: the assignments still to be made
    verdict   \* "waiting", "ok", "failed"

vars == <<settings, plan, verdict>>

\* Where there is nothing to assign, no value will do.
Unknown == [name |-> "unknown", values |-> {}]
Nothing == [a \in {} |-> Unknown]
Abandoned == [a \in {0} |-> Unknown]

Init == settings = Initial /\ plan = Nothing /\ verdict = "failed"

\* A command arrives, with whatever plan.
Ask ==
    /\ verdict # "waiting" /\ verdict' = "waiting"
    /\ UNCHANGED settings

Assign ==
    /\ verdict = "waiting" /\ UNCHANGED verdict
    /\ \E a \in DOMAIN plan :
          /\ \A b \in DOMAIN plan : a <= b
          /\ \E v \in plan[a].values : settings' = [settings EXCEPT ![plan[a].name] = v]
          /\ plan' = [b \in DOMAIN plan \ {a} |-> plan[b]]

\* From here on nothing is assigned and the command cannot succeed.
Abandon ==
    /\ verdict = "waiting" /\ UNCHANGED <<settings, verdict>>
    /\ plan' = Abandoned

Succeed ==
    /\ verdict = "waiting" /\ plan = Nothing
    /\ verdict' = "ok" /\ UNCHANGED <<settings, plan>>

Fail ==
    /\ verdict = "waiting" /\ verdict' = "failed"
    /\ plan' = Nothing /\ UNCHANGED settings

\* What a power cut leaves of what is not being written.
Kept == [s \in DOMAIN settings |-> IF s \in Persistent THEN settings[s] ELSE Initial[s]]

PowerCut ==
    /\ settings' = Kept /\ plan' \in {plan, Abandoned}
    /\ UNCHANGED verdict

\* The power is cut while the next assignment is written to where it would be
\* kept: that setting may be left with any value, unless it had its new one
\* already.  The command cannot succeed.
Spoil ==
    /\ verdict = "waiting" /\ UNCHANGED verdict
    /\ \E a \in DOMAIN plan :
          /\ \A b \in DOMAIN plan : a <= b
          /\ plan[a].name \in Persistent /\ settings[plan[a].name] \notin plan[a].values
          /\ settings' = [Kept EXCEPT ![plan[a].name] = settings'[plan[a].name]]
    /\ plan' = Abandoned

Next == Ask \/ Assign \/ Abandon \/ Succeed \/ Fail \/ PowerCut \/ Spoil

Spec == Init /\ [][Next]_vars
=============================================================================
