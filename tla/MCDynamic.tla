------------------------------ MODULE MCDynamic ------------------------------
(***************************************************************************)
(* Parts of the dynamic linkers and of what stands on them that share no    *)
(* state: each behaviour is of one of them.                                *)
(***************************************************************************)
EXTENDS Stubs, TwoPhase, Images, Symbols, TLC

VARIABLE part   \* the one

CONSTANTS a, b, c, f, g, lock, create

-----------------------------------------------------------------------------
(* TwoPhase: half a diamond, a chain, one with a library beside it, a       *)
(* cycle, a library that two need, and one that is beside a pair.          *)

MCGraphs == { a :> <<b, c>> @@ b :> <<c>> @@ c :> <<>>,
              a :> <<b>> @@ b :> <<>> @@ c :> <<a>>,
              a :> <<b>> @@ b :> <<>> @@ c :> <<>>,
              a :> <<b>> @@ b :> <<a>> @@ c :> <<>>,
              a :> <<>> @@ b :> <<a>> @@ c :> <<a, b>>,
              a :> <<>> @@ b :> <<>> @@ c :> <<a>> }

-----------------------------------------------------------------------------
(* Images: a text segment at the beginning, in the middle or on the second *)
(* page, and data that begin on a page or not, may share one with the      *)
(* text, may have nothing in the file, or are followed by more.            *)

Seg(v, o, fs, ms, w) == [vaddr |-> v, offset |-> o, filesz |-> fs, memsz |-> ms, write |-> w]

Texts == {Seg(0, 0, 4, 4, FALSE), Seg(1, 1, 2, 2, FALSE), Seg(4, 0, 4, 4, FALSE)}
Datas == {Seg(8, 4, 4, 8, TRUE), Seg(9, 5, 1, 5, TRUE), Seg(10, 2, 1, 1, TRUE), Seg(8, 4, 0, 4, TRUE),
          Seg(9, 5, 0, 6, TRUE), Seg(6, 2, 2, 6, TRUE), Seg(9, 5, 3, 6, FALSE)}

MCLayouts == {<<>>} \cup {<<t, d>> : t \in Texts, d \in Datas}
             \cup {<<t, Seg(8, 4, 2, 3, TRUE), Seg(12, 8, 2, 3, w)>> : t \in Texts, w \in BOOLEAN}

-----------------------------------------------------------------------------
(* Symbols: a library with references and definitions of its own, strong,  *)
(* weak and local, two more that may define the same, and names that share *)
(* a hash or a bucket.                                                     *)

S(n, bind, defined) == [name |-> n, bind |-> bind, defined |-> defined]

MCHash == f :> 1 @@ g :> 3 @@ lock :> 2 @@ create :> 1

Tables == {<<S(f, bf, df), S(g, bg, FALSE), S(lock, "GLOBAL", FALSE), S(create, bc, TRUE),
             S(f, "LOCAL", TRUE), S(f, "GLOBAL", df)>> :
             bf \in {"GLOBAL", "WEAK"}, df \in BOOLEAN, bg \in {"GLOBAL", "WEAK"}, bc \in {"LOCAL", "WEAK"}}
Others2 == {<<S(g, "LOCAL", TRUE), S(f, "GLOBAL", FALSE), S(g, "GLOBAL", TRUE), S(f, "WEAK", TRUE)>>,
            <<S(lock, "GLOBAL", TRUE)>>}

R(sym, type) == [sym |-> sym, type |-> type]
Relocations == {<<R(0, "RELATIVE"), R(1, "JUMP_SLOT"), R(2, "ABS32"), R(3, "JUMP_SLOT"), R(4, "JUMP_SLOT")>>,
                <<R(2, "COPY"), R(1, "RELATIVE")>>}

L(symtab_, nbucket, needed, error) ==
  [symtab |-> symtab_, nbucket |-> nbucket, needed |-> needed, error |-> error]

MCWorlds ==
  {[solist |-> <<L(t, 2, nd, FALSE), L(o, 2, <<>>, FALSE), L(<<S(f, "GLOBAL", TRUE)>>, 1, <<>>, nd = <<2>>)>>,
    rels   |-> r, hooked |-> h] : t \in Tables, nd \in {<<2>>, <<3, 2>>}, o \in Others2, r \in Relocations, h \in BOOLEAN}

-----------------------------------------------------------------------------

dynamicVars == <<part, stubVars, twoPhaseVars, imageVars, symbolVars>>

\* A part that is not the one stays in one initial state.
DynamicInit ==
  /\ part \in {"stubs", "two_phase", "images", "symbols"}
  /\ part = "stubs" \/ (lib = "libEGL" /\ there = [loads |-> TRUE, symbols |-> Symbol])
  /\ StubsInit
  /\ part = "two_phase" \/ (recursive = TRUE /\ needs = CHOOSE graph \in Graphs : TRUE)
  /\ TwoPhaseInit
  /\ part = "images" \/ (segments = <<>> /\ req_base = 0)
  /\ ImagesInit
  /\ part = "symbols" \/ world = CHOOSE w \in Worlds : TRUE
  /\ SymbolsInit

StubsStep    == part = "stubs"     /\ StubsNext    /\ UNCHANGED <<part, twoPhaseVars, imageVars, symbolVars>>
TwoPhaseStep == part = "two_phase" /\ TwoPhaseNext /\ UNCHANGED <<part, stubVars, imageVars, symbolVars>>
ImagesStep   == part = "images"    /\ ImagesNext   /\ UNCHANGED <<part, stubVars, twoPhaseVars, symbolVars>>
SymbolsStep  == part = "symbols"   /\ SymbolsNext  /\ UNCHANGED <<part, stubVars, twoPhaseVars, imageVars>>

DynamicNext == StubsStep \/ TwoPhaseStep \/ ImagesStep \/ SymbolsStep

DynamicSpec == DynamicInit /\ [][DynamicNext]_dynamicVars

DynamicTypeOK ==
  CASE part = "stubs"     -> StubsTypeOK
    [] part = "two_phase" -> TwoPhaseTypeOK
    [] part = "images"    -> ImagesTypeOK
    [] part = "symbols"   -> SymbolsTypeOK
=============================================================================
