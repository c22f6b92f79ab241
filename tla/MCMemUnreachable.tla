------------------------- MODULE MCMemUnreachable -------------------------
(* MemUnreachable instantiated for TLC.                                     *)
(*  - Classify: three one-word mappings, each of any kind, over three       *)
(*    one-word allocator blocks; every word holds NULL or a pointer.        *)
(*  - Walk: a library's code and data word, a four-word malloc arena cut    *)
(*    into blocks three ways, and a one-word stack; every word and the      *)
(*    registers hold NULL, or a pointer to the base or into the middle of   *)
(*    a block.                                                              *)
EXTENDS MemUnreachable

Lib     == <<"/system/lib", "/libc.so">>
Font    == <<"/system/fonts", "/Roboto.ttf">>
Dalvik  == <<"/dev/ashmem/dalvik", "-main space">>
Stack   == <<"[stack", "]">>
Tag     == <<"[anon:", "thread signal stack]">>

Mapping(b, e, r, x, n) == [begin |-> b, end |-> e, read |-> r, exec |-> x, name |-> n]

Kinds ==
  {[read |-> TRUE, exec |-> TRUE, name |-> Lib]}
  \cup {[read |-> TRUE, exec |-> FALSE, name |-> n] :
          n \in {Lib, Font, Dalvik, Stack, Tag, Bss, Malloc, LeakDet, Empty}}
  \cup {[read |-> FALSE, exec |-> FALSE, name |-> Malloc]}

ClassifyWords == 1..3
ClassifyValues == {0, 2, 3}
ClassifyLayouts ==
  {[i \in 1..3 |-> Mapping(i, i + 1, k[i].read, k[i].exec, k[i].name)] :
     k \in [1..3 -> Kinds]}
ClassifyBlocks == {{Region(1, 2), Region(2, 3), Region(3, 4)}}

WalkWords == 2..7   \* word 1 is code, which no root covers
WalkValues == {0, 4, 6}
WalkLayouts ==
  {<< Mapping(1, 2, TRUE, TRUE, Lib), Mapping(2, 3, TRUE, FALSE, Lib),
      Mapping(3, 7, TRUE, FALSE, Malloc), Mapping(7, 8, TRUE, FALSE, Stack) >>}
WalkBlocks ==
  { {Region(3, 5), Region(5, 7)},
    {Region(3, 4), Region(4, 5), Region(5, 7)},
    {Region(3, 5), Region(5, 6), Region(6, 7)} }
====
