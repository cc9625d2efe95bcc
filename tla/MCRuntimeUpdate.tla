--------------------------- MODULE MCRuntimeUpdate ---------------------------
(***************************************************************************)
(* An instance with a replaced path, an added path, a deleted path and     *)
(* VERSION, and two packages that upgrade the shipped Runtime one after    *)
(* the other (the second from any version).                                *)
(***************************************************************************)
EXTENDS RuntimeUpdate, TLC

MCPaths == {"tool", "extra", "VERSION"}
MCMetadata == {"VERSION"}
MCBase == {"tool", "VERSION"}
MCPackages == {2, 3}
MCFiles == (2 :> {"extra", "tool", "VERSION"}) @@ (3 :> {"tool", "VERSION"})
MCDeletes == (2 :> {}) @@ (3 :> {"extra"})
MCSource == (2 :> BaseVersion) @@ (3 :> AnySource)
=============================================================================
