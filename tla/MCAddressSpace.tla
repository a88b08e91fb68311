--------------------------- MODULE MCAddressSpace ---------------------------
(* The kernel and three processes (pids 2 to 4; pid 1 is never used), 17    *)
(* frames of which one is outside the identity map, seven heap pages.       *)
EXTENDS AddressSpace
MCCodes == {0, 9}
MCHeapPages == 1 .. 7
=============================================================================
