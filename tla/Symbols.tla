-------------------------------- MODULE Symbols --------------------------------
(***************************************************************************)
(* Symbols: how the linkers (of ics, gingerbread and jb: in all this their  *)
(* code is the same) find a name in one library by its hash table, in       *)
(* which libraries they look, what a relocation makes of the answer, and    *)
(* what dlsym says.  Names that common/hooks.c has a function for never     *)
(* reach a library by relocation, except in jb, which does not ask for      *)
(* hooks.                                                                  *)
(***************************************************************************)
EXTENDS Integers, Sequences, SequencesExt

CONSTANTS
  Name,      \* of symbols
  elfhash,   \* the hash of each
  Hooks,     \* the names in hooks.c's table
  Pthreads,  \* the names with "pthread" in them
  Worlds,    \* libraries that may be in memory together, see World
  NONE

\* An entry of a symbol table: undefined entries are in no section.
Sym    == [name : Name, bind : {"LOCAL", "GLOBAL", "WEAK"}, defined : BOOLEAN]

\* A library: its table from entry 1 on, entry 0 being the end of all chains.
Library == [symtab : Seq(Sym), nbucket : Nat \ {0}, needed : Seq(Nat), error : BOOLEAN]

\* Relocations of the first library: an entry of its table, or 0, and a type.
RelType == {"JUMP_SLOT", "ABS32", "RELATIVE", "COPY"}
Rel     == [sym : Nat, type : RelType]

\* hooked: the linker asks get_hooked_symbol.
World == [solist : Seq(Library), rels : Seq(Rel), hooked : BOOLEAN]

ASSUME SymbolsAssumption ==
  /\ elfhash \in [Name -> Nat] /\ Hooks \subseteq Name /\ Pthreads \subseteq Name
  /\ NONE \notin Name \cup Nat
  /\ \A w \in Worlds :
       /\ w \in World /\ w.solist # <<>>
       /\ \A r \in ToSet(w.rels) :
            /\ r.sym \in 0 .. Len(w.solist[1].symtab)
            \* Hooks are for functions, and copies of data.
            /\ r.type = "COPY" /\ r.sym # 0 => w.solist[1].symtab[r.sym].name \notin Hooks \cup Pthreads
       /\ \A l \in ToSet(w.solist) : ToSet(l.needed) \subseteq DOMAIN w.solist

VARIABLES
  world,    \* what this behaviour is about
  words,    \* the relocations done: what each place holds
  counter,  \* of get_hooked_symbol
  linked,   \* what reloc_library returned, NONE before
  asked     \* the last dlsym and its answer

symbolVars == <<world, words, counter, linked, asked>>

\* What a place, or the program, gets: a hook, a definition (library and entry),
\* a number that is no address, nothing, or the base of the library.
Hook(n)         == <<"hook", n>>
DefinedAt(l, i) == <<"at", l, i>>
Trap(n)         == <<"trap", n>>
Null            == <<"null">>
Base            == <<"base">>

solist   == world.solist
symtab(l) == solist[l].symtab

-----------------------------------------------------------------------------
(* One library.                                                            *)

\* The table that the static linker made: each bucket leads to the first of its
\* symbols, each of them to the next, the last to 0.
InBucket(l, b, from) ==
  LET there == {i \in from .. Len(symtab(l)) : elfhash[symtab(l)[i].name] % solist[l].nbucket = b}
  IN  IF there = {} THEN 0 ELSE Min(there)
bucket(l, b) == InBucket(l, b, 1)
chain(l, i)  == InBucket(l, elfhash[symtab(l)[i].name] % solist[l].nbucket, i + 1)

\* Global and weak definitions count, in the order of the chain.
Counts(s, name) == s.name = name /\ s.bind \in {"GLOBAL", "WEAK"} /\ s.defined

\* Slip: a symbol of this name that does not count ends the search.
_elf_lookup_Hasty(l, name) ==
  LET walk[i \in 0 .. Len(symtab(l))] ==
        IF i = 0 THEN 0
        ELSE IF symtab(l)[i].name = name THEN (IF Counts(symtab(l)[i], name) THEN i ELSE 0)
        ELSE walk[chain(l, i)]
  IN  walk[bucket(l, elfhash[name] % solist[l].nbucket)]

_elf_lookup(l, name) ==
  LET walk[i \in 0 .. Len(symtab(l))] ==
        IF i = 0 \/ Counts(symtab(l)[i], name) THEN i ELSE walk[chain(l, i)]
  IN  walk[bucket(l, elfhash[name] % solist[l].nbucket)]

-----------------------------------------------------------------------------
(* Several libraries.                                                      *)

\* The first of these that has it.
FirstIn(libs, name) ==
  LET has == {k \in DOMAIN libs : _elf_lookup(libs[k], name) # 0}
  IN  IF has = {} THEN Null ELSE LET l == libs[Min(has)] IN DefinedAt(l, _elf_lookup(l, name))

\* For a relocation: the library itself, then those it needs, and no further.
_do_lookup(l, name) == FirstIn(<<l>> \o solist[l].needed, name)

\* For dlsym without a library: the list from start on, but what failed to link.
lookup(name, start) ==
  FirstIn(SelectSeq([k \in 1 .. Len(solist) - start + 1 |-> start + k - 1],
                    LAMBDA l : ~solist[l].error), name)

\* The answer of the hook table, which counts what has no hook.
Hooked(name)  == world.hooked /\ name \in Hooks
Trapped(name) == world.hooked /\ name \in Pthreads \ Hooks
get_hooked_symbol(name) ==
  IF Hooked(name) THEN Hook(name) ELSE IF Trapped(name) THEN Trap(counter - 1) ELSE Null
Counted(name) == IF Trapped(name) THEN counter - 1 ELSE counter

-----------------------------------------------------------------------------
(* reloc_library, for the first library.                                   *)

rel       == world.rels[Len(words) + 1]
entry     == symtab(1)[rel.sym]
Relocating == linked = NONE /\ Len(words) < Len(world.rels)

Places(what) == words' = Append(words, what) /\ UNCHANGED <<world, linked, asked>>

\* An entry of no symbol is for the base.
RelocateBase ==
  /\ Relocating /\ rel.sym = 0 /\ rel.type = "RELATIVE"
  /\ Places(Base) /\ UNCHANGED counter

\* A hook is preferred, and so is a number for "pthread", even if the library
\* has a definition of its own.
RelocateHooked ==
  /\ Relocating /\ rel.sym # 0 /\ rel.type \in {"JUMP_SLOT", "ABS32"}
  /\ get_hooked_symbol(entry.name) # Null
  /\ Places(get_hooked_symbol(entry.name)) /\ counter' = Counted(entry.name)

RelocateDefined ==
  /\ Relocating /\ rel.sym # 0 /\ rel.type # "RELATIVE"
  /\ get_hooked_symbol(entry.name) = Null /\ _do_lookup(1, entry.name) # Null
  /\ Places(_do_lookup(1, entry.name)) /\ UNCHANGED counter

\* Slip: a reference that nobody defines stays empty whether it is weak or not.
RelocateAnyWeak ==
  /\ Relocating /\ rel.sym # 0 /\ rel.type \in {"JUMP_SLOT", "ABS32"}
  /\ get_hooked_symbol(entry.name) = Null /\ _do_lookup(1, entry.name) = Null
  /\ Places(Null) /\ UNCHANGED counter

RelocateWeak ==
  /\ Relocating /\ rel.sym # 0 /\ rel.type \in {"JUMP_SLOT", "ABS32"}
  /\ get_hooked_symbol(entry.name) = Null /\ _do_lookup(1, entry.name) = Null
  /\ entry.bind = "WEAK"
  /\ Places(Null) /\ UNCHANGED counter

\* Nobody defines it; a copy of nothing; a symbol in a relocation to the base.
\* What was relocated before stays, in a library that will not be used.
RelocateFails ==
  /\ Relocating
  /\ \/ /\ rel.sym # 0 /\ get_hooked_symbol(entry.name) = Null /\ _do_lookup(1, entry.name) = Null
        /\ entry.bind # "WEAK" \/ rel.type = "COPY"
     \/ rel.sym # 0 /\ rel.type = "RELATIVE"
  /\ linked' = FALSE
  /\ counter' = IF rel.sym # 0 THEN Counted(entry.name) ELSE counter
  /\ UNCHANGED <<world, words, asked>>

Relocated ==
  /\ linked = NONE /\ Len(words) = Len(world.rels)
  /\ linked' = TRUE
  /\ UNCHANGED <<world, words, counter, asked>>

-----------------------------------------------------------------------------
(* dlsym.                                                                  *)

\* Only what is global is given out.
Answer(found) ==
  IF found # Null /\ symtab(found[2])[found[3]].bind = "GLOBAL" THEN found ELSE Null

Asks(l, name, found) ==
  /\ linked = TRUE
  /\ asked' = [in |-> l, name |-> name, got |-> Answer(found)]
  /\ UNCHANGED <<world, words, counter, linked>>

\* A library's handle.
dlsym(l, name) ==
  Asks(l, name, IF _elf_lookup(l, name) # 0 THEN DefinedAt(l, _elf_lookup(l, name)) ELSE Null)

\* The value 0xffffffff: the list behind the library that asks.
dlsym_next(l, name) == Asks(NONE, name, IF l < Len(solist) THEN lookup(name, l + 1) ELSE Null)

-----------------------------------------------------------------------------

SymbolsInit ==
  /\ world \in Worlds /\ words = <<>> /\ counter = -1 /\ linked = NONE
  /\ asked = [in |-> NONE, name |-> NONE, got |-> Null]

SymbolsNext ==
  \/ RelocateBase \/ RelocateHooked \/ RelocateDefined \/ RelocateWeak \/ RelocateFails \/ Relocated
  \/ \E l \in DOMAIN solist, name \in Name : dlsym(l, name) \/ dlsym_next(l, name)

SymbolsSpec == SymbolsInit /\ [][SymbolsNext]_symbolVars

Answers == {Null, Base} \cup {Hook(n) : n \in Name} \cup {Trap(n) : n \in -10 .. -2}
           \cup {DefinedAt(l, i) : l \in DOMAIN solist, i \in 1..9}

SymbolsTypeOK ==
  /\ world \in Worlds /\ Len(words) <= Len(world.rels) /\ ToSet(words) \subseteq Answers
  /\ counter \in -10 .. -1 /\ linked \in {NONE, TRUE, FALSE}
  /\ asked.name \in Name \cup {NONE} /\ asked.got \in Answers

-----------------------------------------------------------------------------
(* Properties.                                                             *)

Defines(l, name) == \E s \in ToSet(symtab(l)) : Counts(s, name)

\* In a library that was relocated every reference is to what it should be,
\* whatever else its table and those it needs say of the name under a hash that
\* other names share: the hook; or else the definition of the first library in
\* its scope; and nothing at all only if it is weak and has no definition there.
\* What dlsym answers for this library is what its own references are to, but
\* that dlsym knows no hooks.
ReferencesBound ==
  linked = TRUE => \A k \in DOMAIN words : world.rels[k].sym # 0 =>
    LET s     == symtab(1)[world.rels[k].sym]
        scope == <<1>> \o solist[1].needed
        first == Min({j \in DOMAIN scope : Defines(scope[j], s.name)})
    IN  /\ CASE Hooked(s.name)  -> words[k] = Hook(s.name)
             [] Trapped(s.name) -> words[k][1] = "trap"
             [] OTHER -> IF \E l \in ToSet(scope) : Defines(l, s.name)
                           THEN \E i \in DOMAIN symtab(scope[first]) :
                                  /\ words[k] = DefinedAt(scope[first], i)
                                  /\ Counts(symtab(scope[first])[i], s.name)
                           ELSE words[k] = Null /\ s.bind = "WEAK"
        /\ asked.in = 1 /\ asked.name = s.name /\ asked.got # Null /\ words[k][1] = "at" =>
             words[k] = asked.got
=============================================================================
