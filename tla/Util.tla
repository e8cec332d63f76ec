-------------------------------- MODULE Util --------------------------------
(***************************************************************************)
(* The capacity conversions of pkg/util.  GiB is the number of bytes of a  *)
(* gibibyte and MaxInt32 the largest int32; both are constants so that     *)
(* small instances keep every boundary (a request between two multiples of *)
(* GiB, a request one past the largest int32) within reach of TLC.         *)
(***************************************************************************)
EXTENDS Naturals

CONSTANTS GiB, MaxInt32

ASSUME UtilAssumption == GiB \in Nat \ {0} /\ MaxInt32 \in Nat \ {0}

\* Mutant: the comparison is off by one.
OverflowsLate(bytes) == bytes \div GiB > MaxInt32 + 1

\* BytesToGiB refuses a quotient that does not fit an int32.
Overflows(bytes) == bytes \div GiB > MaxInt32

\* BytesToGiB truncates: CSI capacities are never negative.
BytesToGiB(bytes) == bytes \div GiB

GiBToBytes(gib) == gib * GiB

=============================================================================
