---------------------------- MODULE MCCartridges ----------------------------
(* Small libraries and catalogues for Cartridges.                            *)
EXTENDS Cartridges

MCListed == <<"retroarch:a", "picoarch:b", "standalone:c">>
MCAvailable == {"retroarch:a", "standalone:c"}
MCPlumosRom == [r \in {1} |-> "picoarch:b"]
MCSystemChoices == <<"picoarch:b", None, "standalone:c">>
MCPrefer == <<>>
=============================================================================
