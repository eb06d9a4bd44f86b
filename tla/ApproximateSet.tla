--------------------------- MODULE ApproximateSet ---------------------------
(***************************************************************************)
(* What a membership filter promises its client, whatever it is built of:  *)
(* "false" is an answer that can be trusted, "true" is not.                *)
(*                                                                         *)
(* "members" is what the client has put in, "positive" the items the       *)
(* filter answers "true" for, "blank" whether it holds no trace of any     *)
(* item, and "saved" the snapshot of the three the client keeps when it    *)
(* serialises the filter.                                                  *)
(***************************************************************************)
EXTENDS Integers

CONSTANT Items

VARIABLES members, positive, blank, saved

vars == <<members, positive, blank, saved>>

Snapshot == [members : SUBSET Items, positive : SUBSET Items, blank : BOOLEAN]

TypeOK ==
    /\ members \in SUBSET Items
    /\ positive \in SUBSET Items
    /\ blank \in BOOLEAN
    /\ saved \in Snapshot

Init ==
    /\ members = {}
    /\ positive = {}
    /\ blank = TRUE
    /\ saved = [members |-> {}, positive |-> {}, blank |-> TRUE]

\* Adding an item may turn other answers to "true", never one to "false".
Add(x) ==
    /\ members' = members \cup {x}
    /\ positive' \in {P \in SUBSET Items : positive \cup {x} \subseteq P}
    /\ blank' = FALSE
    /\ UNCHANGED saved

\* An emptied filter is as a new one: it answers "false" to everything, and no
\* trace of an item is left in it that could ever answer "true".
Reset ==
    /\ members' = {}
    /\ positive' = {}
    /\ blank' = TRUE
    /\ UNCHANGED saved

Save ==
    /\ saved' = [members |-> members, positive |-> positive, blank |-> blank]
    /\ UNCHANGED <<members, positive, blank>>

\* A restored filter answers for the members saved in it, all or none of them,
\* and for nothing when it was saved blank.
Restore ==
    /\ members' \in {{}, saved.members}
    /\ positive' \in {P \in SUBSET Items : members' \subseteq P}
    /\ blank' = saved.blank
    /\ blank' => positive' = {}
    /\ UNCHANGED saved

Next == (\E x \in Items : Add(x)) \/ Reset \/ Save \/ Restore

Spec == Init /\ [][Next]_vars

=============================================================================
