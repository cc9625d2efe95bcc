---------------------------- MODULE MCRomBrowser ----------------------------
(***************************************************************************)
(* Two systems; the console's library has a ROM beside a directory of one  *)
(* ROM, and its ROM has the path of the other system's: both may be        *)
(* favourites.                                                             *)
(***************************************************************************)
EXTENDS RomBrowser

MCSystems == {"console", "music"}
MCRoms == {"a", "b", "m"}
MCDirs == {"d"}
MCSystemOf == [r \in MCRoms |-> IF r = "m" THEN "music" ELSE "console"]
MCPathOf == [i \in MCRoms \cup MCDirs |-> IF i \in {"a", "m"} THEN "same" ELSE i]
MCParent == [i \in MCRoms \cup MCDirs |-> IF i = "b" THEN "d" ELSE "root"]
MCInside == [r \in MCRoms |-> IF r = "b" THEN {"d"} ELSE {}]
MCRank == [i \in MCRoms \cup MCDirs |-> CASE i = "a" -> 1 [] i = "d" -> 2 [] i = "b" -> 3 [] i = "m" -> 4]
(* Never scanned, or scanned before the directory's ROM was added. *)
MCIndexes == {[s \in MCSystems |-> Absent],
              [s \in MCSystems |-> IF s = "console" THEN {"a"} ELSE {"m"}]}
MCFavorites == {<<"a", "m">>}
MCRecents == {<<"m", "a">>}
=============================================================================
