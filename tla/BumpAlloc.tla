------------------------------- MODULE BumpAlloc -------------------------------
(***************************************************************************)
(* The bump allocator the library is linked with for a board without an    *)
(* operating system (src/ensure_no_std/src/main.rs).  Addresses are words; *)
(* dealloc does nothing.                                                   *)
(***************************************************************************)
EXTENDS Naturals

CONSTANTS
  W,          \* a usize is a number below W
  Base, End,  \* the region
  Aligns,     \* powers of two
  Sizes

(* The region is low in the address space.  A Layout's size is not zero and*)
(* stays below half the address space when rounded up to its alignment,    *)
(* which is then at most a quarter of it.                                  *)
ASSUME RegionAssumption == W \in Nat /\ Base \in Nat /\ End \in Nat /\ Base <= End /\ 4 * End <= W
ASSUME LayoutAssumption ==
  /\ Aligns \subseteq Nat \ {0} /\ Sizes \subseteq Nat \ {0}
  /\ \A a \in Aligns : 4 * a <= W
  /\ \A s \in Sizes : 2 * s <= W

VARIABLES
  head,    \* the next free address
  blocks,  \* what has been handed out
  refused  \* the last request, if it was answered with null

allocVars == <<head, blocks, refused>>
NoRequest == [size |-> 0, align |-> 1]

AllocInit == head = Base /\ blocks = {} /\ refused = NoRequest

(* The head moved up to the next multiple of align, which the code does    *)
(* with a mask (as if it had left it out), and the check against the end.  *)
StartUnmasked(align) == (head + align - 1) % W
Start(align) == ((head + align - 1) % W) - (((head + align - 1) % W) % align)
PassesLast(start, size) == (start + size) % W >= End
Passes(start, size) == (start + size) % W > End

Alloc(size, align) ==
  /\ ~Passes(Start(align), size)
  /\ blocks' = blocks \cup {[start |-> Start(align), size |-> size, align |-> align]}
  /\ head' = Start(align) + size
  /\ refused' = NoRequest

Null(size, align) ==
  /\ Passes(Start(align), size)
  /\ refused' = [size |-> size, align |-> align]
  /\ UNCHANGED <<head, blocks>>

AllocNext == \E s \in Sizes, a \in Aligns : Alloc(s, a) \/ Null(s, a)

AllocSpec == AllocInit /\ [][AllocNext]_allocVars

--------------------------------------------------------------------------------
(* No two blocks share a byte; each is aligned and in the region.  In      *)
(* particular the sum that is compared with the end never wraps around.    *)
BlocksApart ==
  /\ \A b \in blocks : b.start % b.align = 0 /\ Base <= b.start /\ b.start + b.size <= End
  /\ \A b, c \in blocks : b # c => b.start + b.size <= c.start \/ c.start + c.size <= b.start

(* Null is the answer only if no aligned place behind the last block would *)
(* do: the region is used to its last byte.                                *)
NullMeansFull ==
  refused # NoRequest =>
    \A p \in head .. End : p % refused.align = 0 => p + refused.size > End
================================================================================
