---------------------------- MODULE MCAddresses ----------------------------
(* The two kinds of tables of address ranges: the ignored ones (Ranges) and *)
(* those of the debug information (RangeTable).  They have nothing in       *)
(* common; one moves while the other has not begun.                         *)
EXTENDS Ranges, RangeTable

\* Twelve neighbouring mappings, any six of which that do not touch make the
\* array grow, and two longer ones.
Small == {<<a, a + 1>> : a \in 0..11} \cup {<<2, 4>>, <<6, 9>>}

\* Ranges that nest, overlap and follow one another, two of them equal but for
\* their unit.
Of(l0, h, t, w) == [low |-> l0, high |-> h, third |-> t, who |-> w]
Few == {Of(0, 3, 0, 1), Of(0, 1, 0, 2), Of(1, 3, 0, 2),
        Of(1, 2, 0, 1), Of(1, 2, 0, 2), Of(1, 2, 1, 1)}

AddressesInit == Init /\ RTInit
AddressesNext ==
  \/ given = <<>> /\ step = "sort" /\ Next /\ UNCHANGED rt_vars
  \/ phase = "idle" /\ max_count = 0 /\ RTNext /\ UNCHANGED vars
AddressesSpec == AddressesInit /\ [][AddressesNext]_<<vars, rt_vars>>
=============================================================================
