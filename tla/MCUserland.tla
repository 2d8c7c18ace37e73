----------------------------- MODULE MCUserland -----------------------------
(***************************************************************************)
(* Pages of two bytes and files with three bytes to load, behind an ELF    *)
(* header and three program headers: segments that end within a page, fill *)
(* it, begin within one, share one, or reach behind the file or memory.    *)
(* .bss is what a segment has behind its bytes of the file.                *)
(***************************************************************************)
EXTENDS Userland

Data == 64 + 3 * 56
Segments(vaddrs, sizes) ==
  [load : {TRUE}, offset : {Data, Data + 2}, vaddr : vaddrs, filesz : {1, 3}, memsz : sizes]
Note == [load |-> FALSE, offset |-> 0, vaddr |-> 0, filesz |-> 1, memsz |-> 0]
End(s) == s.vaddr + s.memsz
An(segs) ==
  [len |-> Data + 3, header |-> "good", phoff |-> 64, phentsize |-> 56, segments |-> segs,
   shoff |-> 0, shentsize |-> 64, sections |-> <<>>, entry |-> 1,
   bss |-> LET s == segs[Len(segs)]
           IN IF s.filesz < s.memsz THEN <<s.vaddr + s.filesz, End(s)>> ELSE <<End(s), End(s)>>]

One == {<<s>> : s \in Segments({0, 2, 3}, {0, 3, 4, 97})}
Two == {<<s, Note, t>> : s \in Segments({2, 3}, {0, 3}), t \in Segments({4, 5, 6}, {3, 4})}

\* With two section headers, of which the second tells of relocations behind it.
Tables == Data + 3
Entries == Tables + 2 * 64
Reloc(type, offset) == [type |-> type, offset |-> offset, addend |-> 9]
Related(segs, rs, size) ==
  [An(segs) EXCEPT
     !.len = Entries + size * Len(rs), !.shoff = Tables,
     !.sections = <<[rela |-> FALSE, offset |-> 0, entsize |-> 0, relocs |-> <<>>],
                    [rela |-> TRUE, offset |-> Entries, entsize |-> size, relocs |-> rs]>>]
Small == <<[load |-> TRUE, offset |-> Data, vaddr |-> 2, filesz |-> 3, memsz |-> 4]>>
Whole == {Related(Small, rs, size) : size \in {23, 24, 25},
  rs \in {<<>>, <<Reloc("RELATIVE", 1)>>, <<Reloc("RELATIVE", 5), Reloc("COPY", 5)>>,
          <<Reloc("RELATIVE", 5), Reloc("RELATIVE", 20)>>}}
CutAt == {63, 64 + 3, 64 + 47, Data + 2, Tables + 7, Tables + 64 + 63, Entries + 24, Entries + 47}

MCImages ==
  {An(segs) : segs \in One \cup Two} \cup Whole
  \cup UNION {{[im EXCEPT !.header = "bad"], [im EXCEPT !.phentsize = 55],
               [im EXCEPT !.entry = 0]} \cup {[im EXCEPT !.len = n] : n \in CutAt} : im \in Whole}

MCLayouts == {0, 1, 3} \X {1, 2, 4}

Line(head) == {<<head>>} \cup {<<head, " ">> \o rest : rest \in
  {<<"a">>, <<"a", " ", "b">>, <<"1">>, <<"2">>, <<"BS", "BS">>, <<"a", ":", " ", "b", " ">>}}
MCTypedKeys ==
  [todo |-> UNION {Line(c) : c \in {"add", "done", "del"}},
   calendar |-> UNION {Line(c) : c \in {"add", "today", "del"}},
   editor |-> {<<":w">>, <<":q">>, <<":d", " ", "1">>, <<":d", " ", "2">>,
               <<":i", " ", "1", " ", "a">>, <<":i", " ", "2", " ", " ", "b">>,
               <<":i", " ", "3", " ", "a", "b", "BS">>, <<":i", " ", "1">>,
               <<":r", " ", "2", " ", "c">>, <<"BS", ":save">>}]
MCOldTexts ==
  {<<>>, <<"a", "nl">>, <<" ", "nl", "b", ":", "c">>, <<"a", "nl", "nl">>,
   <<"[", "x", "]", "a", ":", " ", "b", "nl">>}

MCMains == {<<>>, <<"use", "START", "old", "END", "}">>, <<"use", "START">>}
MCResponses ==
  {<<"blank">>, <<"a", "open", "b", "close">>, <<"a", "END", "b">>, <<"START", "b">>,
   <<"fence", "fn", "a", "b", "close", "fence">>, <<"blank", "fence", "a", "block">>,
   <<"fence", "fn", "close", "fence", "a">>, <<"fence", "a", "fence", "b">>,
   <<"fence", "a", "fence", "c", "fence", "open", "b", "close", "fence">>}
=============================================================================
