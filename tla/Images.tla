-------------------------------- MODULE Images --------------------------------
(***************************************************************************)
(* How the linkers (of ics, gingerbread and jb: in this their code is the   *)
(* same, but for one check) bring a library into memory: the extent of its *)
(* PT_LOAD segments, a region reserved for it, and each segment mapped     *)
(* from the file and cleared where the file has no bytes.                 *)
(***************************************************************************)
EXTENDS Integers, Sequences, FiniteSets

CONSTANTS
  PAGE,      \* PAGE_SIZE
  Top,       \* addresses end here
  Layouts,   \* the PT_LOAD segments that files may have, see Segment
  Prelinks,  \* the bases that files may ask for; 0 for none
  Others     \* what is mapped already, a set of addresses

Address == 0 .. Top - 1

\* One PT_LOAD: at vaddr, filesz bytes of the file from offset, memsz in all.
Segment == [vaddr : Nat, offset : Nat, filesz : Nat, memsz : Nat, write : BOOLEAN]

ASSUME ImagesAssumption ==
  /\ PAGE \in Nat \ {0} /\ Top \in Nat
  /\ Layouts \subseteq Seq(Segment) /\ Prelinks \subseteq Nat /\ Others \subseteq Address
  /\ \A layout \in Layouts : \A i \in DOMAIN layout :
       /\ layout[i].filesz <= layout[i].memsz
       /\ (layout[i].vaddr - layout[i].offset) % PAGE = 0

VARIABLES
  segments,   \* of the file
  req_base,   \* what is_prelinked answers
  memory,     \* what each address holds
  step,       \* what load_library does next
  at_base,    \* si->base
  size,       \* si->size
  cnt,        \* segments loaded
  total_sz    \* their pages, in bytes

imageVars == <<segments, req_base, memory, step, at_base, size, cnt, total_sz>>

\* Bytes are told apart by where in the file they are: -1 is zero, -2 another
\* library's, -3 not mapped.
Zero     == -1
Foreign  == -2
Unmapped == -3

Steps == {"extents", "reserve", "load", "loaded", "failed"}

ImagesTypeOK ==
  /\ segments \in Layouts /\ req_base \in Prelinks
  /\ memory \in [Address -> {Zero, Foreign, Unmapped} \cup Nat]
  /\ step \in Steps /\ at_base \in Nat /\ size \in Nat /\ cnt \in 0..Len(segments)
  /\ total_sz \in Nat

ImagesInit ==
  /\ segments \in Layouts /\ req_base \in Prelinks
  /\ memory = [x \in Address |-> IF x \in Others THEN Foreign ELSE Unmapped]
  /\ step = "extents" /\ at_base = 0 /\ size = 0 /\ cnt = 0 /\ total_sz = 0

Down(x) == x - (x % PAGE)
Up(x)   == Down(x + PAGE - 1)

\* mmap with MAP_FIXED: whole pages, whatever is there; `bytes' has the byte
\* for each address.
Mapped(m, from, len, bytes) ==
  [x \in Address |-> IF x \in from .. Up(from + len) - 1 THEN bytes[x] ELSE m[x]]
Zeros == [x \in Address |-> Zero]
Gone  == [x \in Address |-> Unmapped]

-----------------------------------------------------------------------------
(* get_lib_extents and alloc_mem_region.                                   *)

Starts == {segments[i].vaddr : i \in DOMAIN segments}
Ends   == {segments[i].vaddr + segments[i].memsz : i \in DOMAIN segments}
Least(S)    == CHOOSE x \in S : \A y \in S : x <= y
Greatest(S) == CHOOSE x \in S : \A y \in S : x >= y

\* Slip: the last segment's end is not looked at.
get_lib_extents_First ==
  /\ step = "extents"
  /\ IF segments = <<>> THEN step' = "failed" /\ UNCHANGED size
     ELSE step' = "reserve" /\ size' = Up(segments[1].vaddr + segments[1].memsz) - Down(Least(Starts))
  /\ UNCHANGED <<segments, req_base, memory, at_base, cnt, total_sz>>

get_lib_extents ==
  /\ step = "extents"
  /\ IF segments = <<>> THEN step' = "failed" /\ UNCHANGED size
     ELSE step' = "reserve" /\ size' = Up(Greatest(Ends)) - Down(Least(Starts))
  /\ UNCHANGED <<segments, req_base, memory, at_base, cnt, total_sz>>

Reserved(b) ==
  /\ at_base' = b
  /\ memory' = Mapped(memory, b, size, Zeros)
  /\ step' = "load"
  /\ UNCHANGED <<segments, req_base, size, cnt, total_sz>>

\* A prelinked file gets the place it asks for, whatever is there.
reserve_mem_region == step = "reserve" /\ req_base # 0 /\ Reserved(req_base)

\* Any other gets one that is free.
alloc_mem_region ==
  /\ step = "reserve" /\ req_base = 0
  /\ \E b \in Address : /\ b > 0 /\ b % PAGE = 0 /\ b + Up(Greatest(Ends)) <= Top
                        /\ \A x \in b .. b + size - 1 : memory[x] = Unmapped
                        /\ Reserved(b)

-----------------------------------------------------------------------------
(* load_segments, one at a time.                                           *)

Current == segments[cnt + 1]
PBase  == at_base + Down(Current.vaddr)              \* pbase
FileLen == Current.filesz + (Current.vaddr % PAGE)    \* len
FileEnd == PBase + FileLen
SegEnd  == at_base + Current.vaddr + Current.memsz

\* The pages from the file, and the anonymous ones after them.
FromFile     == [x \in Address |-> Down(Current.offset) + (x - PBase)]
FilePages(m) == Mapped(m, PBase, FileLen, FromFile)
Extended(m)  == IF Up(FileEnd) < SegEnd THEN Mapped(m, Up(FileEnd), SegEnd - Up(FileEnd), Zeros) ELSE m

\* The rest of the last page from the file is cleared if it can be written.
Cleared(m) ==
  IF Current.write /\ FileLen % PAGE # 0
    THEN [x \in Address |-> IF x \in FileEnd .. Up(FileEnd) - 1 THEN Zero ELSE m[x]]
    ELSE m

Loads(m) ==
  /\ step = "load" /\ cnt < Len(segments) /\ FileLen > 0
  /\ memory' = m
  /\ cnt' = cnt + 1
  /\ total_sz' = total_sz + Up(SegEnd) - PBase
  /\ UNCHANGED <<segments, req_base, step, at_base, size>>

\* Slip: the last page keeps what follows in the file.
LoadSegmentUncleared == Loads(Extended(FilePages(memory)))

LoadSegment == Loads(Extended(Cleared(FilePages(memory))))

Unloads ==
  /\ step' = "failed"
  /\ memory' = Mapped(memory, at_base, size, Gone)
  /\ UNCHANGED <<segments, req_base, at_base, size, cnt, total_sz>>

\* mmap may refuse; it takes no empty segment of a file, so that one that begins
\* on a page and has no bytes in the file is always refused.  The linkers of
\* gingerbread and jb also refuse a PT_GNU_RELRO that reaches beyond the library.
LoadSegmentFails ==
  /\ step = "load" /\ cnt < Len(segments)
  /\ Unloads

Loaded ==
  /\ step = "load" /\ cnt = Len(segments) /\ total_sz <= size
  /\ step' = "loaded"
  /\ UNCHANGED <<segments, req_base, memory, at_base, size, cnt, total_sz>>

LoadFailsOverlap ==
  /\ step = "load" /\ cnt = Len(segments) /\ total_sz > size
  /\ Unloads

-----------------------------------------------------------------------------

ImagesNext ==
  \/ get_lib_extents \/ reserve_mem_region \/ alloc_mem_region
  \/ LoadSegment \/ LoadSegmentFails \/ Loaded \/ LoadFailsOverlap

ImagesSpec == ImagesInit /\ [][ImagesNext]_imageVars

-----------------------------------------------------------------------------
(* Properties.                                                             *)

Holds(s, i) == IF i < s.filesz THEN s.offset + i ELSE Zero

\* A library that was loaded has the bytes of its file where its segments say,
\* and zeros behind them wherever it may write.
BytesInPlace ==
  step = "loaded" =>
    \A k \in DOMAIN segments : LET s == segments[k] IN
      \A i \in 0 .. s.memsz - 1 :
        s.write \/ i < s.filesz => memory[at_base + s.vaddr + i] = Holds(s, i)

\* Loading a library that is not prelinked, and begins in its first page,
\* touches no other, whether it succeeds or fails.
OthersUntouched ==
  req_base = 0 /\ (segments # <<>> => Least(Starts) < PAGE) =>
    \A x \in Others : memory[x] = Foreign
=============================================================================
