----------------------------- MODULE MCAccounts -----------------------------
(***************************************************************************)
(* The accounts for TLC: answers the parser was written for, and answers   *)
(* with byte slices, with too many applications or variables, with a       *)
(* field that the parser does not know and with a misleading name.         *)
(***************************************************************************)
EXTENDS Accounts, TLC

CONSTANTS alice, bob

Owners == {alice, bob}

Answer(n, assets, apps) == [algo |-> n, assets |-> assets, apps |-> apps]

Names == {"counter", "appl"}

IntVar == [name |-> "counter", type |-> "int"]
Slice == [name |-> "counter", type |-> "slice"]
Appl == [name |-> "appl", type |-> "int"]

Ints == 1 :> <<IntVar>>
TwoApps == 1 :> <<Appl, IntVar>> @@ 3 :> <<>>
Slices == 1 :> <<IntVar, Slice, IntVar>> @@ 2 :> <<IntVar>>
ThreeApps == 1 :> <<IntVar>> @@ 2 :> <<IntVar>> @@ 3 :> <<Appl>>
TooMany == 1 :> <<IntVar, IntVar, IntVar>> @@ 3 :> <<>>
Misleading == 3 :> <<Slice, Appl, IntVar>>

AllAnswers ==
  {Answer(0, FALSE, <<>>), Answer(9, FALSE, TwoApps),
   Answer(5, FALSE, Slices), Answer(5, FALSE, ThreeApps), Answer(5, TRUE, Ints),
   Answer(5, FALSE, TooMany), Answer(5, FALSE, Misleading)}

=============================================================================
