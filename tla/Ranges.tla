------------------------------- MODULE Ranges -------------------------------
(***************************************************************************)
(* The overflow and overlap checks that src/search.c and src/legacy_psv.c  *)
(* make on the caller's buffers before they touch any of them.  A region   *)
(* is a pair <<address, bytes>>; address 0 is NULL.  size_t and uintptr_t  *)
(* have the same width, and their sums and products wrap.                  *)
(*                                                                         *)
(* Throughout the project a definition named after another with a suffix   *)
(* is a deliberately faulty variant that no specification uses.            *)
(***************************************************************************)
EXTENDS Integers

CONSTANT AddressMax  \* UINTPTR_MAX = SIZE_MAX

ASSUME RangesAssumption == AddressMax \in Nat

\* multiply_size: whether the product is representable, and its value.
ProductFits(left, right) == left * right <= AddressMax
Product(left, right) == (left * right) % (AddressMax + 1)

EndOf(region) == (region[1] + region[2]) % (AddressMax + 1)

ranges_overlap_NoTopGuard(left, right) ==
  /\ left[1] # 0 /\ right[1] # 0 /\ left[2] # 0 /\ right[2] # 0
  /\ left[1] < EndOf(right) /\ right[1] < EndOf(left)

\* A region that reaches the top of the address space counts as overlapping,
\* because its end cannot be computed.
ranges_overlap(left, right) ==
  /\ left[1] # 0 /\ right[1] # 0 /\ left[2] # 0 /\ right[2] # 0
  /\ \/ left[1] > AddressMax - left[2]
     \/ right[1] > AddressMax - right[2]
     \/ left[1] < EndOf(right) /\ right[1] < EndOf(left)

\* Some two of the named regions overlap.
AnyOverlap(region, pairs) == \E p \in pairs : ranges_overlap(region[p[1]], region[p[2]])

-----------------------------------------------------------------------------
\* The reference: the addresses of a region.
Cells(region) ==
  IF region[1] = 0 THEN {} ELSE region[1] .. region[1] + region[2] - 1

\* The end of the region is an address.
BelowTop(region) == Cells(region) = {} \/ region[1] + region[2] <= AddressMax
=============================================================================
