----------------------------- MODULE AddressSpace -----------------------------
(***************************************************************************)
(* What a guest may rely on while its Stage 2 tables are being built: an   *)
(* IPA page that translates keeps its translation (no TLB maintenance is   *)
(* done between two calls of map_range), and new translations appear as    *)
(* whole linear pieces of one region.                                      *)
(***************************************************************************)
EXTENDS Integers

CONSTANTS Ipas, Offsets, Kinds, Unmapped

VARIABLE space     \* space[i]: what the walker finds for the IPA page i

Init == space = [i \in Ipas |-> Unmapped]

Extend(S, offset, kind) ==
  /\ \A i \in S : space[i] = Unmapped
  /\ space' = [i \in Ipas |-> IF i \in S
                                THEN [pa |-> i + offset, kind |-> kind]
                                ELSE space[i]]

Changed == {i \in Ipas : space'[i] # space[i]}

Next == \E offset \in Offsets, kind \in Kinds : Extend(Changed, offset, kind)

Spec == Init /\ [][Next]_space
==============================================================================
