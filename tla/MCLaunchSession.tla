-------------------------- MODULE MCLaunchSession --------------------------
(* Two systems, one of them DOS with a title inside its archive; two        *)
(* RetroArch cores, one with a PicoArch companion; a catalogue that drops   *)
(* a core.  Limits of one and two, so that every list fills up.             *)
EXTENDS LaunchSession

MCFieldValues == [f \in {"profile", "cpu", "suffix", "audio"} |->
    CASE f = "profile" -> Profiles [] f = "cpu" -> {"performance"}
      [] f = "suffix" -> ContentSuffixes [] f = "audio" -> {"alsa"}]
MCGroupOf == [f \in {"profile", "cpu", "suffix", "audio"} |-> f]
MCCompanion == [p \in Profiles |-> CASE p = "ra:a" -> "pa:a" [] p = "ra:b" -> "pa:b" [] OTHER -> None]
MCKind == [p \in Profiles |-> CASE p \in PicoProfiles -> "picoarch" [] OTHER -> "retroarch"]
System(list, default) == [profiles |-> list, default |-> default, cpu |-> None]
MCFirstCatalogue == [s \in Systems |-> System(<<"ra:a", "ra:b">>, "ra:a")]
MCCatalogues == {MCFirstCatalogue,
    [s \in Systems |-> System(<<"ra:b">>, "ra:b")]}
Entry(s, p, profile, cpu) ==
    [sys |-> s, path |-> p, val |-> [Blank EXCEPT !["profile"] = profile, !["cpu"] = cpu]]
MCFirstDocuments == {
    [sys |-> <<>>, rom |-> <<>>],
    [sys |-> <<Entry("dos", NoPath, "ra:b", None)>>, rom |-> <<Entry("n64", <<"g", None>>, "ra:a", "performance")>>],
    [sys |-> <<Entry("n64", NoPath, "ra:a", "fixed")>>, rom |-> <<Entry("dos", NoPath, "ra:b", None), Entry("dos", <<"g", None>>, "ra:a", None)>>]}
Played(s, p, profile) == [sys |-> s, path |-> p, content |-> p, profile |-> profile]
MCFirstHistories == {<<>>, <<Played("dos", <<"g", "x">>, "pa:a"), Played("n64", <<"g", None>>, "ra:b")>>}
Set(f, v) == [do |-> "set", field |-> f, value |-> v]
Clear(g) == [do |-> "clear", group |-> g]
MCCoreCommands == {
    <<Set("profile", "pa:a"), Set("suffix", "x"), Set("audio", "alsa")>>,
    <<Set("profile", "ra:b")>>,
    <<Clear("profile"), Set("cpu", "performance")>>,
    <<Clear("suffix"), Set("suffix", "x")>>,
    <<[do |-> "all", group |-> "all"]>>}
============================================================================
