------------------------------ MODULE MCLinker ------------------------------
(* Instances of Linker for TLC. *)
EXTENDS LinkerInv

CONSTANTS t1, libdl, libc, liba, libb, r1, r2, r3

MCLib == {libdl, libc, liba, libb}

Graph(c, a, b) == (libdl :> <<>>) @@ (libc :> c) @@ (liba :> a) @@ (libb :> b)

\* A diamond, a chain that ends in libdl.so, a cycle, a file that needs itself.
MCDepGraph ==
  {Graph(<<>>, <<libb, libc>>, <<libc>>),
   Graph(<<libdl>>, <<libb>>, <<libc>>),
   Graph(<<>>, <<libc, libb>>, <<liba>>),
   Graph(<<>>, <<libc, liba>>, <<libc>>)}

\* liba is prelinked at a region the kernel does not hand out by itself.
MCPrelink == [l \in MCLib |-> IF l = liba THEN r3 ELSE NoRegion]
=============================================================================
