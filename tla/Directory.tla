----------------------------- MODULE Directory -----------------------------
(***************************************************************************)
(* What the register of businesses, branches and users promises, whoever   *)
(* writes at the same time: an entry has one key, no two entries in use    *)
(* share a key, and an entry that was retired never comes back.            *)
(***************************************************************************)
CONSTANTS
  Entry,
  Key,      \* what tells entries in use apart
  Absent,   \* an entry not made yet
  Retired   \* an entry that was removed for ever

VARIABLE key

InUse == {key[e] : e \in Entry} \cap Key

Init == key = [e \in Entry |-> Absent]

Only(e) == key' = [key EXCEPT ![e] = key'[e]]

TakesFreeKey(e) == key'[e] \in Key \ InUse

Enter(e) ==
  /\ key[e] = Absent
  /\ TakesFreeKey(e)
  /\ Only(e)

Rename(e) ==
  /\ key[e] \in Key
  /\ TakesFreeKey(e)
  /\ Only(e)

Retire(e) ==
  /\ key[e] \in Key
  /\ key'[e] = Retired
  /\ Only(e)

Next == \E e \in Entry : Enter(e) \/ Rename(e) \/ Retire(e)

Spec == Init /\ [][Next]_key

=============================================================================
