-------------------------- MODULE RegisterOffsets --------------------------
(***************************************************************************)
(* RegisterMap at every offset of the guest states: an access of the guest *)
(* to one byte, word or lane of a register names the byte it starts at.    *)
(***************************************************************************)
EXTENDS Integers

CONSTANTS
  Arches,        \* architectures the tool is built for
  Fallback       \* guest__use_fallback_LLSC: VEX accesses guest_LLSC_*

VARIABLES
  arch,
  offset         \* where a Get or Put starts

Map(a) == INSTANCE RegisterMap WITH Arch <- a

\* Padding is never accessed.
Offsets(a) ==
  UNION {Map(a)!FieldBytes(f) : f \in Map(a)!Layout(Fallback)}

Init == arch \in Arches /\ offset \in Offsets(arch)

Access == offset' \in {o \in Offsets(arch) : o = offset + 1} /\ UNCHANGED arch

Spec == Init /\ [][Access]_<<arch, offset>>

Named == Map(arch)!offset_to_register(offset)

Right == Map(arch)!Expected(Fallback, offset)

Vectors == IF arch = "arm64" THEN 320 .. 831 ELSE 224 .. 735

\* An access to any lane of a vector register names that register.
VectorLanesNamed == offset \in Vectors => Named = Right

=============================================================================
