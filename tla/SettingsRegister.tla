-------------------------- MODULE SettingsRegister --------------------------
(***************************************************************************)
(* What the settings of one guild promise: changes of one column each, one *)
(* after the other, none of them undone by another; and answers no older   *)
(* than a floor that only rises.                                           *)
(***************************************************************************)
EXTENDS Naturals, Sequences

CONSTANTS Requests, Columns, Default

VARIABLES
    log,    \* every state of the row so far, the last one is the current
    floor,  \* no answer is an older state than this
    used    \* used[r]: the state that request r was answered with, or 0

vars == <<log, floor, used>>

Init ==
    /\ log = <<>>
    /\ floor = 0
    /\ used = [r \in Requests |-> 0]

Create ==
    /\ log = <<>>
    /\ log' = <<[c \in Columns |-> Default]>>
    /\ UNCHANGED <<floor, used>>

Change(r, c) ==
    /\ log # <<>>
    /\ log' = Append(log, [log[Len(log)] EXCEPT ![c] = r])
    /\ UNCHANGED <<floor, used>>

Answer(r) ==
    /\ used[r] = 0
    /\ \E v \in 1..Len(log) : v >= floor /\ used' = [used EXCEPT ![r] = v]
    /\ UNCHANGED <<log, floor>>

Raise ==
    /\ floor' \in floor..Len(log)
    /\ UNCHANGED <<log, used>>

Next ==
    \/ Create \/ Raise
    \/ \E r \in Requests : Answer(r) \/ \E c \in Columns : Change(r, c)

Spec == Init /\ [][Next]_vars
=============================================================================
