------------------------------ MODULE MCUnwind ------------------------------
(* Instances of UnwindReaders for TLC. *)
EXTENDS UnwindReaders

CONSTANTS t1, u1, libdl, libc, liba, libb, r1, r2, r3

MCLib == {libdl, libc, liba, libb}

Graph(c, a, b) == (libdl :> <<>>) @@ (libc :> c) @@ (liba :> a) @@ (libb :> b)

MCDepGraph == {Graph(<<>>, <<libc>>, <<>>)}
MCPrelink  == [l \in MCLib |-> NoRegion]
=============================================================================
