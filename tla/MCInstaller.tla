---------------------------- MODULE MCInstaller ----------------------------
(* Devices, partitions and command lines for Installer. *)
EXTENDS Installer

\* Cells no check looks at hold a number of their own.
Blank(n, f) == [c \in 0..(n - 1) |-> IF c \in DOMAIN f THEN f[c] ELSE 1000 + c]

\* An MBR: flags, entries, and what else is given.
Mbr(a, p, b, q, code, fs) ==
  Blank(80, (0 :> code @@ 6 :> a @@ 7 :> p @@ 8 :> b @@ 9 :> q @@ 21 :> fs))

\* A GPT with logical blocks of 10 or 20 cells: three entries, ISO signature or not.
Gpt10(p, q, r, iso, second, fs) ==
  Blank(80, (10 :> 900 @@ 11 :> 7 @@ 20 :> p @@ 21 :> q @@ 22 :> r @@ 35 :> iso
             @@ 61 :> fs @@ 70 :> second))
Gpt20(p, q, r, iso) ==
  Blank(120, (20 :> 900 @@ 21 :> 5 @@ 40 :> p @@ 41 :> q @@ 42 :> r @@ 35 :> iso
              @@ 100 :> 900))

MCPart ==
  <<[type |-> "efi",  start |-> 4, end |-> 5], [type |-> "bios", start |-> 4, end |-> 5],
    [type |-> "bios", start |-> 4, end |-> 4], [type |-> "odd",  start |-> 4, end |-> 5],
    [type |-> "efi",  start |-> 2, end |-> 3], [type |-> "efi",  start |-> 99, end |-> 100],
    [type |-> "bios", start |-> 3, end |-> 3]>>

MCImage ==
  {Mbr(128, 1, 0, 0, 5, 5), Mbr(0, 1, 0, 4, 5, 5), Mbr(129, 1, 1, 4, 801, 804),
   Mbr(0, 0, 128, 1, 803, 5), Mbr(0, 5, 0, 0, 5, 5),
   Gpt10(1, 2, 0, 5, 900, 5), Gpt10(0, 1, 3, 5, 900, 5), Gpt10(4, 2, 0, 901, 900, 804),
   Gpt10(0, 1, 1, 901, 900, 5), Gpt10(5, 0, 0, 901, 900, 5), Gpt10(1, 1, 1, 901, 900, 5),
   Gpt10(6, 0, 2, 901, 900, 5), Gpt10(1, 2, 0, 5, 5, 5),
   Gpt20(1, 0, 7, 5), Gpt20(0, 1, 0, 901)}

MCOptions ==
  {[force |-> f, convert |-> TRUE, ndx |-> 0, save |-> TRUE, phys |-> 10] : f \in BOOLEAN}
  \cup {[force |-> TRUE, convert |-> FALSE, ndx |-> n, save |-> FALSE, phys |-> 20]
          : n \in {-1, 1, 2, 4}}

MCBlockGuess == <<10, 20, 40>>
MCLbGuess == <<10, 20>>
MCBoot == [k \in 1..10 |-> 2000 + k]
MCStage2 == [k \in 1..12 |-> 3000 + k]
=============================================================================
