----------------------------- MODULE ReminderBox -----------------------------
(***************************************************************************)
(* What the user of remindme may expect, apart from how the bot, redis,    *)
(* postgres and the jobs service bring it about: a reminder that is set is *)
(* delivered once or lost, and neither is taken back.                      *)
(***************************************************************************)
CONSTANT Reminders

VARIABLE box   \* box[r]: what has become of reminder r

States == {"absent", "set", "delivered", "lost"}

Init == box = [r \in Reminders |-> "absent"]

Becomes(r, from, to) == box[r] = from /\ box' = [box EXCEPT ![r] = to]

Set(r) == Becomes(r, "absent", "set")
Deliver(r) == Becomes(r, "set", "delivered")

\* A crash loses several at once.
LoseSome ==
    \E R \in SUBSET {r \in Reminders : box[r] \in {"absent", "set"}} :
        box' = [r \in Reminders |-> IF r \in R THEN "lost" ELSE box[r]]

Next == LoseSome \/ \E r \in Reminders : Set(r) \/ Deliver(r)

Resolve(r) == box[r] = "set" /\ Next /\ box'[r] # "set"

Safe == Init /\ [][Next]_box
Spec == Safe /\ \A r \in Reminders : WF_box(Resolve(r))
==============================================================================
