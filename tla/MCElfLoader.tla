----------------------------- MODULE MCElfLoader -----------------------------
(* Images of one to three segments, with and without relocations, of both     *)
(* classes, some of them damaged or larger than what may be read.            *)
EXTENDS ElfLoader

Ph(type, offset, paddr, filesz, memsz) ==
  [type |-> type, offset |-> offset, paddr |-> paddr, filesz |-> filesz,
   memsz |-> memsz]

Rel(kind, offset) ==
  [kind |-> kind, offset |-> offset, addend |-> 3, st_value |-> 2]

\* The file: header, program headers, text, and data from unit 6 on.
File(class, type, phdrs, rela, rel, syment) ==
  [class |-> class, type |-> type, entry |-> 4, phdrs |-> phdrs,
   data |-> [j \in 1 .. 14 |-> IF j - 1 \in DOMAIN phdrs THEN phdrs[j - 1].paddr
                               ELSE j + 20],
   rela |-> rela, rel |-> rel, symtab |-> TRUE, syment |-> syment]

\* Text and data, linked at low, below the place of the image or above it; the data segment may have more in the file
\* than in memory, or nothing, and may come first in the table.
Text(low) == Ph("LOAD", 0, low, 6, 6)
Data(low, filesz, memsz) == Ph("LOAD", 6, low + 8, filesz, memsz)
Dyn == Ph("DYNAMIC", 8, 10, 2, 2)

Layouts(low) ==
  UNION {{<<Text(low), Data(low, s[1], s[2])>>, <<Data(low, s[1], s[2]), Text(low)>>} :
           s \in {<<4, 4>>, <<4, 5>>, <<0, 3>>, <<4, 2>>, <<7, 7>>, <<2, 0>>}}

\* Relocations of text and data.
Tables == {<<>>, <<Rel("RELATIVE", 8), Rel("ABS", 5)>>,
           <<Rel("ABS", 4), Rel("NONE", 5), Rel("RELATIVE", 9)>>,
           <<Rel("RELATIVE", 8), Rel("other", 9)>>}

Plain == {File(c, "EXEC", l, <<>>, <<>>, TRUE) :
            c \in {"elf32", "elf64"}, l \in Layouts(0) \cup Layouts(40) \cup Layouts(112)}

Dynamic ==
  {File(c, "DYN", <<Text(0), Data(0, s[1], s[2]), Dyn>>, ra, re, se) :
     c \in {"elf32", "elf64"}, s \in {<<4, 4>>, <<4, 5>>},
     ra \in Tables, re \in Tables, se \in BOOLEAN}

\* Not ELF, not executable, no segment, not aligned.
Damaged ==
  {File("other", "EXEC", <<Text(0)>>, <<>>, <<>>, TRUE),
   File("elf32", "other", <<Text(0)>>, <<>>, <<>>, TRUE),
   File("elf32", "EXEC", <<>>, <<>>, <<>>, TRUE),
   File("elf64", "EXEC", <<Text(2)>>, <<>>, <<>>, TRUE)}

MCImages == Plain \cup Dynamic \cup Damaged
=============================================================================
