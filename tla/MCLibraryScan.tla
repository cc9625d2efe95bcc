---------------------------- MODULE MCLibraryScan ----------------------------
(* Two systems sharing an alias, and cards laid out in Roms, at their      *)
(* root, or with the same directory under several names: two names of one  *)
(* system in Roms, or a shared alias in Roms that is the system's own      *)
(* directory at the root.                                                  *)
EXTENDS LibraryScan

CONSTANTS p1, p2

ProcSymmetry == {[p \in Procs |-> p], [p \in Procs |-> IF p = p1 THEN p2 ELSE p1]}

MCRoots == <<"Roms", "">>

Alias(name, shared) == [name |-> name, shared |-> shared]

MCSystems ==
  <<[id |-> "sfc", aliases |-> <<Alias("SFC", FALSE), Alias("sfc", FALSE)>>, exts |-> {"sfc", "zip"},
     dirs |-> FALSE, enabled |-> TRUE, order |-> 20, profiles |-> TRUE],
    [id |-> "gb", aliases |-> <<Alias("GB", FALSE), Alias("GBC", TRUE)>>, exts |-> {"gb", "zip"},
     dirs |-> FALSE, enabled |-> TRUE, order |-> 10, profiles |-> TRUE],
    [id |-> "empty", aliases |-> <<>>, exts |-> {"x"},
     dirs |-> FALSE, enabled |-> TRUE, order |-> 5, profiles |-> TRUE]>>

File(ino, ext) == [kind |-> "file", ino |-> ino, ext |-> ext, title |-> 9 - ino, sub |-> None]
Dir(ino, kind, sub) == [kind |-> kind, ino |-> ino, ext |-> None, title |-> 9 - ino, sub |-> sub]

Names == {"SFC", "sfc", "GB", "GBC"}

Content ==
  [super |-> <<File(1, "sfc"), Dir(2, "dir", "more"), Dir(3, "excluded", "old")>>,
   more |-> <<File(4, "zip"), File(1, "sfc")>>, old |-> <<File(5, "sfc")>>,
   boy |-> <<File(6, "gb"), File(7, "zip")>>,
   color |-> <<File(8, "zip"), File(6, "gb"), Dir(9, "hidden", "old")>>]

Card(roms, root) ==
  [content |-> Content,
   dirs |-> [at \in {"Roms", ""} \X Names |->
               LET d == IF at[1] = "Roms" THEN roms ELSE root
               IN IF at[2] \in DOMAIN d THEN d[at[2]] ELSE None]]

MCCards ==
  {Card([SFC |-> "super", sfc |-> "super", GB |-> "boy", GBC |-> "color"], <<>>),
   Card([GBC |-> "color"], [SFC |-> "super", GB |-> "color", GBC |-> "boy"])}
==============================================================================
