--------------------------- MODULE InputImportsMC ---------------------------
(* InputImports on small instances.  Two research packages of one company  *)
(* that disagree on the listing.                                           *)
EXTENDS InputImports, TLC

Kit(listing) == [format |-> "research", listing |-> listing, bytes |-> 1]
TestPackages == {Kit("first"), Kit("second")}
KeySymmetry == Permutations(Keys)
=============================================================================
