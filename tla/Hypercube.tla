----------------------------- MODULE Hypercube -----------------------------
(***************************************************************************)
(* The address arithmetic of ANTop.  A host address is the set of its one  *)
(* bits; bit 0 is the most significant bit of the host part, the first one *)
(* that a node flips to make an address for somebody else.                 *)
(*                                                                         *)
(* The functions of the source work on four 16 bit words of an in6_addr;   *)
(* here they are set operations, and the word length is kept only where    *)
(* the result depends on it (check_succesor).                              *)
(***************************************************************************)
EXTENDS Naturals, FiniteSets

CONSTANTS
  Dim,   \* hc_dim, the number of bits of a host address (64 in labels.h)
  Word   \* bits per word of an in6_addr (16)

ASSUME DimAssumption == Dim \in Nat \ {0}
ASSUME WordAssumption == Word \in Nat \ {0}

Bits == 0 .. Dim - 1
Addr == SUBSET Bits

\* prim_addr_init: the host part of the root address is ::1.
Root == {Dim - 1}

Diff(a, b) == (a \ b) \cup (b \ a)

\* dist: the number of host bits in which two addresses differ.
Dist(a, b) == Cardinality(Diff(a, b))

\* The bit arithmetic of send_pap: clear the bit when it is set, else set it.
Flip(a, b) == IF b \in a THEN a \ {b} ELSE a \cup {b}

\* check_addr_space(x, a, m) = 0: x agrees with a on the first m bits.
InSpace(x, a, m) == \A b \in Bits : b < m => (b \in x <=> b \in a)

\* The addresses of the subcube a/m.
Space(a, m) == {x \in Addr : InSpace(x, a, m)}

(***************************************************************************)
(* check_succesor(neigh), run by the node whose address is a.  The loop    *)
(* over the words starts `mask' at the top bit only once, so that the      *)
(* second word that differs is compared through a zero mask, for ever.     *)
(***************************************************************************)
FirstBit(S) == CHOOSE b \in S : \A c \in S : b <= c

WordOf(b) == b \div Word

LaterInWord(f) == {b \in Bits : b > f /\ WordOf(b) = WordOf(f)}

CheckSuccesor(a, neigh) ==
  LET differ == Diff(a, neigh)
      first  == FirstBit(differ)
  IN  IF differ = {} \/ LaterInWord(first) \cap (a \cup neigh) # {} THEN "no"
      ELSE IF \E b \in differ : WordOf(b) # WordOf(first) THEN "hangs"
      ELSE IF first \in a THEN "no" ELSE "succesor"
=============================================================================
