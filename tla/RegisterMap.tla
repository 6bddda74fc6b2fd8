---------------------------- MODULE RegisterMap ----------------------------
(***************************************************************************)
(* From an offset into VEX's guest state to the number of a register in a  *)
(* trace: offset_to_arm64_register and offset_to_x86_64_register of        *)
(* ct_main.c, next to the layout of the guest states (libvex_guest_*.h).   *)
(***************************************************************************)
EXTENDS InstRecord, Sequences

Untraced == 0
Asserts == -1     \* tl_assert(0): the tool aborts

REG_Q0 == 35
REG_QFLAGS == 67
REG_UTHRD == 68
REG_SEG_FS == 23
REG_SEG_GS == 24
REG_MXCSR == 195
REG_YMM0 == 123

\* RAX, RCX, RDX, RBX, RSP, RBP, RSI, RDI, R8 ... R15 in the guest state's
\* order, as numbered by x86-64regs.h.
IntRegs == <<10, 9, 8, 7, 6, 5, 4, 3, 11, 12, 13, 14, 15, 16, 17, 18>>

offset_to_arm64_register(offset) ==
  IF offset < 16 THEN Untraced
  ELSE IF offset < 256 THEN 1 + (offset - 16) \div 8       \* REG_X0 = 1
  ELSE IF offset < 264 THEN REG_X30
  ELSE IF offset < 272 THEN REG_SP
  ELSE IF offset < 280 THEN REG_PC
  ELSE IF offset < 312 THEN REG_FLAGS
  ELSE IF offset < 320 THEN REG_UTHRD
  ELSE IF offset < 832 THEN REG_Q0 + (offset - 312) \div 16
  ELSE IF offset < 848 THEN REG_QFLAGS
  ELSE IF offset < 896 THEN Untraced
  ELSE Asserts

offset_to_x86_64_register(offset) ==
  IF offset < 16 THEN Untraced
  ELSE IF offset < 144 THEN IntRegs[1 + (offset - 16) \div 8]
  ELSE IF offset < 184 THEN REG_FLAGS
  ELSE IF offset < 192 THEN REG_PC
  ELSE IF offset < 200 THEN REG_FLAGS
  ELSE IF offset < 208 THEN REG_SEG_FS
  ELSE IF offset < 216 THEN REG_MXCSR
  ELSE IF offset < 728 THEN REG_YMM0 + (offset - 216) \div 32
  ELSE Untraced

offset_to_register(offset) ==
  IF Arch = "arm64" THEN offset_to_arm64_register(offset)
  ELSE offset_to_x86_64_register(offset)

-----------------------------------------------------------------------------
(* The guest state.  A field is a register or a run of equal registers; reg *)
(* is the number the trace should have for the first of them, or Untraced   *)
(* for a pseudo-register and for the ones the map leaves out by design.     *)

Field(base, size, n, reg) == [base |-> base, size |-> size, n |-> n, reg |-> reg]

\* VexGuestARM64State
Arm64Layout(fallback) ==
  {Field(0, 16, 1, Untraced),          \* host_EvC_*, pad
   Field(16, 8, 31, 1),                \* X0 .. X30
   Field(264, 8, 1, REG_SP),
   Field(272, 8, 1, REG_PC),
   Field(280, 32, 1, REG_FLAGS),       \* CC_OP, CC_DEP1, CC_DEP2, CC_NDEP
   Field(312, 8, 1, REG_UTHRD),        \* TPIDR_EL0
   Field(320, 16, 32, REG_Q0),         \* Q0 .. Q31
   Field(832, 16, 1, REG_QFLAGS),      \* QCFLAG
   Field(848, 48, 1, Untraced)}        \* EMNOTE .. FPCR
  \cup IF fallback THEN {Field(896, 24, 1, Untraced)} ELSE {}    \* LLSC_*

\* VexGuestAMD64State.  The integer registers are one field each, since the
\* trace numbers them in another order.
Amd64Layout ==
  {Field(0, 16, 1, Untraced),
   Field(144, 40, 1, REG_FLAGS),       \* CC_OP .. CC_NDEP, DFLAG
   Field(184, 8, 1, REG_PC),           \* RIP
   Field(192, 16, 1, REG_FLAGS),       \* ACFLAG, IDFLAG
   Field(208, 8, 1, REG_SEG_FS),       \* FS_CONST
   Field(216, 8, 1, REG_MXCSR),        \* SSEROUND
   Field(224, 32, 16, REG_YMM0),       \* YMM0 .. YMM15
   Field(736, 32, 1, Untraced),        \* YMM16
   Field(768, 136, 1, Untraced),       \* FPU and pseudo-registers
   Field(904, 8, 1, REG_SEG_GS),       \* GS_CONST
   Field(912, 16, 1, Untraced)}
  \cup {Field(8 + 8 * i, 8, 1, IntRegs[i]) : i \in 1 .. 16}

\* guest__use_fallback_LLSC: VEX accesses guest_LLSC_* or not.
Layout(fallback) == IF Arch = "arm64" THEN Arm64Layout(fallback) ELSE Amd64Layout

FieldBytes(f) == f.base .. f.base + f.size * f.n - 1

\* The number the trace should have for a byte of a field, and for the byte at
\* an offset.
Number(f, offset) == IF f.n = 1 THEN f.reg ELSE f.reg + (offset - f.base) \div f.size

Expected(fallback, offset) ==
  Number(CHOOSE f \in Layout(fallback) : offset \in FieldBytes(f), offset)

=============================================================================
