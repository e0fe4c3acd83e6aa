----------------------------- MODULE AddressSums -----------------------------
(* Values of relocations as sums of terms, whose sizes do not matter: the    *)
(* Addend of a place, the address of a Symbol (S), of its PLT entry, of its  *)
(* GOT entry, of the GOT's origin, of the STUB of a branch and of the Place  *)
(* itself; the load Base; the address the dynamic linker finds for a name;   *)
(* and SymVal, which marks a value that is not yet known.                    *)
EXTENDS Integers

Terms == {"A", "S", "PLT", "GOT", "ORG", "STUB", "P", "Base", "Found", "SymVal"}
Values == [Terms -> Int]

Zero == [t \in Terms |-> 0]
The(t) == [Zero EXCEPT ![t] = 1]
u ++ v == [t \in Terms |-> u[t] + v[t]]
u -- v == [t \in Terms |-> u[t] - v[t]]
SymVal == The("SymVal")
=============================================================================
