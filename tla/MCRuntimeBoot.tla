---------------------------- MODULE MCRuntimeBoot ----------------------------
(***************************************************************************)
(* PID 1 requires the launcher, the launcher the updater, and an update    *)
(* replaces both, as it may replace every file of the app layer.  Package  *)
(* 2 never draws a frame; package 3 does, and adds a file.                 *)
(***************************************************************************)
EXTENDS RuntimeBoot, TLC

MCPaths == {"launcher", "updater", "extra", "VERSION"}
MCMetadata == {"VERSION"}
MCBase == {"launcher", "updater", "VERSION"}
MCPackages == {2, 3}
MCFiles == (2 :> {"launcher", "updater", "VERSION"}) @@ (3 :> {"launcher", "extra", "VERSION"})
MCDeletes == [k \in MCPackages |-> {}]
MCSource == [k \in MCPackages |-> AnySource]
MCWorks == {BaseVersion, 3}
MCRequiredByInit == {"launcher"}
MCRequiredByLauncher == {"updater"}
=============================================================================
