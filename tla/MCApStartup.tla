----------------------------- MODULE MCApStartup -----------------------------
(***************************************************************************)
(* Instances of ApStartup for TLC.  Three APs with a gap in their APIC ids, *)
(* so that the ordered IDs differ from the APIC ids.                       *)
(***************************************************************************)
EXTENDS ApStartup, TLC

CONSTANTS a1, a2, a3

ThreeAPs  == {a1, a2, a3}
ThreeIds  == a1 :> 1 @@ a2 :> 2 @@ a3 :> 4
TwoAPs    == {a1, a2}
TwoIds    == a1 :> 3 @@ a2 :> 1

\* Post-OS launches: some of the APs, in an order that is not that of the ids.
SomeLists == {<<>>, <<a3, a1>>, <<a2>>}
FullList  == {<<a3, a1, a2>>}
NoLists   == {}
OneGone   == {a2}
NoAPs     == {}
=============================================================================
