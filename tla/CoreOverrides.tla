---------------------------- MODULE CoreOverrides ----------------------------
(***************************************************************************)
(* The overrides of plumos-text-ui: core-overrides.json, the launch        *)
(* profiles a system lists, how a launch resolves its profile, CPU policy, *)
(* content and options, and what the command "core" shows and changes.     *)
(*                                                                         *)
(* Data abstraction.  Profiles, policies, file names and suffixes are      *)
(* opaque; a path is a file and the "#..." suffix of a DOS title inside    *)
(* it, or None.  The document is the two arrays of the file; what a        *)
(* document written by an older release or by hand may hold (Retired       *)
(* values, a ROM entry without a path) is in FirstDocuments.               *)
(***************************************************************************)
EXTENDS Naturals, Sequences, FiniteSets, SequencesExt

CONSTANTS
    Systems,            \* system ids
    Dos,                \* the system whose paths may carry a suffix
    Files,              \* relative ROM paths without a suffix
    ContentSuffixes,    \* content suffixes
    Profiles,           \* launch profile ids
    Companion,          \* Companion[p]: picoarch:<core> of retroarch:<core>, else None
    PicoBanned,         \* picoarch profiles of cores PicoArch cannot host
    NoCompanion,        \* systems that get no companions (n64, saturn)
    PicoProfiles,       \* profiles picoarch:<core>
    Catalogues,         \* systems.json of the releases that can be installed
    FirstCatalogue,     \* the one of them the device starts with
    FieldValues,        \* FieldValues[f]: the values setting f accepts
    GroupOf,            \* GroupOf[f]: the --clear-<group> that clears f
    Retired,            \* values of settings that only older releases knew
    FirstDocuments,     \* documents the device may start with
    CoreCommands,       \* option lists given to "core"
    MaxProfiles, MaxSystemOverrides, MaxRomOverrides,
    AdapterOwnsCpu,     \* picoarch_onion_compat_enabled
    IOFaults            \* whether a save may fail

None == "none"
NotListed == "auto"            \* no profile of the system can be used
Fields == DOMAIN FieldValues
SystemFields == {"profile", "cpu"}
Paths == Files \X (ContentSuffixes \cup {None})
NoPath == <<None, None>>
Blank == [f \in Fields |-> None]
Values == {None} \cup Retired \cup UNION {FieldValues[f] : f \in Fields}
Entries == [sys : Systems, path : Paths \cup {NoPath}, val : [Fields -> Values]]
Options == [do : {"set"}, field : Fields, value : Values]
           \cup [do : {"clear"}, group : {GroupOf[f] : f \in Fields}]
           \cup [do : {"all"}, group : {"all"}]

\* No system and no ROM has two entries: the code never writes a second one.
Unrepeated(entries) ==
    \A i, j \in DOMAIN entries :
        entries[i].sys = entries[j].sys /\ entries[i].path = entries[j].path => i = j

ASSUME OverrideAssumption ==
    /\ Dos \in Systems
    /\ SystemFields \subseteq Fields
    /\ DOMAIN GroupOf = Fields
    /\ FirstCatalogue \in Catalogues
    /\ PicoBanned \subseteq PicoProfiles
    /\ PicoProfiles \subseteq Profiles
    /\ \A p \in Profiles : Companion[p] \in PicoProfiles \cup {None}
    /\ MaxProfiles \in Nat \ {0}
    /\ MaxSystemOverrides \in Nat \ {0}
    /\ MaxRomOverrides \in Nat \ {0}
    /\ None \notin Files
    /\ FirstDocuments \subseteq [sys : Seq(Entries), rom : Seq(Entries)]
    /\ \A d \in FirstDocuments : Unrepeated(d.sys) /\ Unrepeated(d.rom)
    /\ CoreCommands \subseteq Seq(Options)
    /\ \A ops \in CoreCommands : \A i \in DOMAIN ops :
          ops[i].do = "set" => ops[i].value \in FieldValues[ops[i].field]

VARIABLES
    catalogue,   \* systems.json: per system its profiles, default profile and CPU
    overrides,   \* core-overrides.json
    reply        \* the last "core" command that reached the save, and its exit code

overrideVars == <<catalogue, overrides, reply>>

-----------------------------------------------------------------------------
(* The launch profiles a system lists.                                     *)

\* launch_profile_allowed_on_mmf and picoarch_core_id_allowed.
Allowed(p) == p \notin PicoBanned

\* add_core_profile: listed once, while there is room.
AddCoreProfile(list, p) ==
    IF Allowed(p) /\ ~Contains(list, p) /\ Len(list) < MaxProfiles THEN Append(list, p) ELSE list

\* add_picoarch_companion_profiles walks the list as it was before.
AddCompanions(s, list) ==
    IF s \in NoCompanion THEN list
    ELSE FoldLeft(LAMBDA acc, p : IF Companion[p] = None THEN acc ELSE AddCoreProfile(acc, Companion[p]),
                  list, list)

\* parse_launch_profile_array and load_core_system_def, for every systems.json.
LoadCoreSystemDef ==
    [c \in Catalogues |-> [s \in Systems |->
        LET parsed == FoldLeft(AddCoreProfile, <<>>, c[s].profiles)
        IN  AddCompanions(s, IF c[s].default = None THEN parsed ELSE AddCoreProfile(parsed, c[s].default))]]

Listed(s) == LoadCoreSystemDef[catalogue][s]

\* core_profile_is_listed
IsListed(s, p) == Contains(Listed(s), p)

-----------------------------------------------------------------------------
(* The document.                                                           *)

\* The checks of load_core_overrides: an entry with an unknown CPU policy is
\* skipped, and a ROM entry without a path; any other unknown value is emptied.
Accepted(f, v) == v = None \/ v \in FieldValues[f]
Readable(e, rom) == Accepted("cpu", e.val["cpu"]) /\ (rom => e.path # NoPath)
Cleaned(e) ==
    [e EXCEPT !.val = [f \in Fields |-> IF f \in SystemFields \/ Accepted(f, e.val[f]) THEN e.val[f] ELSE None]]

\* One turn of its loops: the rest beyond the capacity is unread.
LoadEntry(read, e, cap, rom) ==
    IF Readable(e, rom) /\ Len(read) < cap THEN Append(read, Cleaned(e)) ELSE read
LoadEntries(entries, cap, rom) ==
    LET read[n \in 0..Len(entries)] == IF n = 0 THEN <<>> ELSE LoadEntry(read[n - 1], entries[n], cap, rom)
    IN  read[Len(entries)]

\* load_core_overrides
LoadCoreOverrides(d) ==
    [sys |-> LoadEntries(d.sys, MaxSystemOverrides, FALSE), rom |-> LoadEntries(d.rom, MaxRomOverrides, TRUE)]

\* commit_temp_file: the file is replaced and the directory synced, or the
\* temporary file is removed, or the replacement stands and the sync failed.
CommitTempFile(old, new) ==
    {[ok |-> TRUE, file |-> new]} \cup
    (IF IOFaults THEN {[ok |-> FALSE, file |-> old], [ok |-> FALSE, file |-> new]} ELSE {})

\* save_core_overrides: the whole state, through a temporary file.
SaveCoreOverrides(state) == CommitTempFile(overrides, state)

\* Index of the first entry of (s, p), or 0.
FindEntry(entries, s, p) == SelectInSeq(entries, LAMBDA e : e.sys = s /\ e.path = p)

FindSystemCoreOverride(state, s) == FindEntry(state.sys, s, NoPath)

\* find_rom_core_override: a DOS title inside an archive has the archive's
\* entry unless it has its own.
FindRomCoreOverride(state, s, p) ==
    LET exact == FindEntry(state.rom, s, p)
    IN  IF exact > 0 \/ s # Dos \/ p[2] = None THEN exact
        ELSE FindEntry(state.rom, s, <<p[1], None>>)

\* The set_* and clear_* functions: setting creates the entry while there is
\* room, clearing removes it with its last setting, --clear removes it.
EditEntry(entries, i, fresh, cap, op) ==
    CASE op.do = "set" /\ i > 0 ->
            [ok |-> TRUE, entries |-> [entries EXCEPT ![i].val[op.field] = op.value]]
      [] op.do = "set" /\ i = 0 /\ Len(entries) < cap ->
            [ok |-> TRUE, entries |-> Append(entries, [fresh EXCEPT !.val[op.field] = op.value])]
      [] op.do = "set" /\ i = 0 /\ Len(entries) >= cap -> [ok |-> FALSE, entries |-> entries]
      [] op.do # "set" /\ i = 0 -> [ok |-> TRUE, entries |-> entries]
      [] op.do = "all" /\ i > 0 -> [ok |-> TRUE, entries |-> RemoveAt(entries, i)]
      [] op.do = "clear" /\ i > 0 ->
            LET left == [f \in Fields |-> IF GroupOf[f] = op.group THEN None ELSE entries[i].val[f]]
            IN  [ok |-> TRUE, entries |-> IF left = Blank THEN RemoveAt(entries, i)
                                          ELSE [entries EXCEPT ![i].val = left]]

EditSystem(state, s, op) ==
    LET r == EditEntry(state.sys, FindSystemCoreOverride(state, s),
                       [sys |-> s, path |-> NoPath, val |-> Blank], MaxSystemOverrides, op)
    IN  [ok |-> r.ok, state |-> [state EXCEPT !.sys = r.entries]]

\* Mutant of EditRom: clearing one group removes the whole entry.
EditRomDrops(state, s, p, op) ==
    LET o == IF op.do = "clear" THEN [do |-> "all", group |-> "all"] ELSE op
        r == EditEntry(state.rom, FindRomCoreOverride(state, s, p),
                       [sys |-> s, path |-> p, val |-> Blank], MaxRomOverrides, o)
    IN  [ok |-> r.ok, state |-> [state EXCEPT !.rom = r.entries]]

EditRom(state, s, p, op) ==
    LET r == EditEntry(state.rom, FindRomCoreOverride(state, s, p),
                       [sys |-> s, path |-> p, val |-> Blank], MaxRomOverrides, op)
    IN  [ok |-> r.ok, state |-> [state EXCEPT !.rom = r.entries]]

-----------------------------------------------------------------------------
(* What a launch uses.                                                     *)

\* Mutant of ResolveLaunchProfile: an override is used although the catalogue
\* no longer lists it.
ResolveUnlisted(state, s, p) ==
    LET r == FindRomCoreOverride(state, s, p)
        y == FindSystemCoreOverride(state, s)
    IN  IF r > 0 /\ state.rom[r].val["profile"] # None THEN state.rom[r].val["profile"]
        ELSE IF y > 0 /\ IsListed(s, state.sys[y].val["profile"]) THEN state.sys[y].val["profile"]
        ELSE IF IsListed(s, catalogue[s].default) THEN catalogue[s].default
        ELSE NotListed

\* resolve_launch_profile
ResolveLaunchProfile(state, s, p) ==
    LET r == FindRomCoreOverride(state, s, p)
        y == FindSystemCoreOverride(state, s)
    IN  IF r > 0 /\ IsListed(s, state.rom[r].val["profile"]) THEN state.rom[r].val["profile"]
        ELSE IF y > 0 /\ IsListed(s, state.sys[y].val["profile"]) THEN state.sys[y].val["profile"]
        ELSE IF IsListed(s, catalogue[s].default) THEN catalogue[s].default
        ELSE NotListed

\* resolve_cpu_setting: the policy and where it comes from.
ResolveCpu(state, s, p) ==
    LET r == FindRomCoreOverride(state, s, p)
        y == FindSystemCoreOverride(state, s)
    IN  IF r > 0 /\ state.rom[r].val["cpu"] # None THEN <<state.rom[r].val["cpu"], "ROM">>
        ELSE IF y > 0 /\ state.sys[y].val["cpu"] # None THEN <<state.sys[y].val["cpu"], "system">>
        ELSE IF catalogue[s].cpu # None THEN <<catalogue[s].cpu, "plumOS">>
        ELSE <<None, "launcher">>

\* apply_picoarch_adapter_cpu_defaults: only the catalogue's policy gives way.
AdapterCpu(profile, cpu) ==
    IF AdapterOwnsCpu /\ profile \in PicoProfiles /\ cpu[2] = "plumOS" THEN None ELSE cpu[1]

\* resolve_retroarch_runtime_options
RuntimeOptions(state, s, p) ==
    LET r == FindRomCoreOverride(state, s, p)
    IN  [f \in Fields \ (SystemFields \cup {"suffix"}) |-> IF r > 0 THEN state.rom[r].val[f] ELSE None]

\* apply_content_suffix_override: a path that already has a suffix keeps it.
ContentPath(state, s, p) ==
    LET r == FindRomCoreOverride(state, s, p)
    IN  IF p[2] # None \/ r = 0 THEN p ELSE <<p[1], state.rom[r].val["suffix"]>>

\* print_core_selection works the effective profile out by itself.
ShownProfile(state, s, p) ==
    LET r == IF p = NoPath THEN 0 ELSE FindRomCoreOverride(state, s, p)
        y == FindSystemCoreOverride(state, s)
        candidates == (IF r > 0 THEN <<state.rom[r].val["profile"]>> ELSE <<>>) \o
                      (IF y > 0 THEN <<state.sys[y].val["profile"]>> ELSE <<>>) \o
                      <<catalogue[s].default>>
        i == SelectInSeq(candidates, LAMBDA c : IsListed(s, c))
    IN  IF i > 0 THEN candidates[i] ELSE NotListed

-----------------------------------------------------------------------------
(* The command "core".                                                     *)

OptionGroup(op) == IF op.do = "set" THEN GroupOf[op.field] ELSE op.group

\* The option loop of "core": one action per group, --clear alone, and only
\* profile and CPU in system scope.
Parses(ops, p) ==
    /\ \A i, j \in DOMAIN ops : i # j =>
          /\ ops[i].do # "all"
          /\ OptionGroup(ops[i]) # OptionGroup(ops[j]) \/
                (ops[i].do = "set" /\ ops[j].do = "set" /\ ops[i].field # ops[j].field)
    /\ p = NoPath => \A i \in DOMAIN ops : ops[i].do = "all" \/ OptionGroup(ops[i]) \in SystemFields

\* The options are applied one after the other until one is refused.
ApplyOption(result, s, p, op) ==
    IF ~result.ok THEN result
    ELSE IF p = NoPath THEN EditSystem(result.state, s, op) ELSE EditRom(result.state, s, p, op)
ApplyOptions(state, s, p, ops) ==
    LET after[n \in 0..Len(ops)] ==
            IF n = 0 THEN [ok |-> TRUE, state |-> state] ELSE ApplyOption(after[n - 1], s, p, ops[n])
    IN  after[Len(ops)]

\* "core system" and "core rom" on a ROM of the index: load, apply, save.  A
\* profile that is not listed and a refused option end it before the save.
CoreCommand(s, p, ops) ==
    LET loaded == LoadCoreOverrides(overrides)
        result == ApplyOptions(loaded, s, p, ops)
        answer(told) == [key |-> <<s, p>>, ops |-> ops, told |-> told]
    IN  /\ Parses(ops, p)
        /\ \A i \in DOMAIN ops : ops[i].do = "set" /\ ops[i].field = "profile" => IsListed(s, ops[i].value)
        /\ IF result.ok
           THEN \E saved \in SaveCoreOverrides(result.state) :
                    /\ overrides' = saved.file
                    /\ reply' = answer(IF saved.ok THEN "ok" ELSE "failed")
           ELSE reply' = answer("failed") /\ UNCHANGED overrides
        /\ UNCHANGED catalogue

\* A Runtime update or a repair of the installation replaces systems.json.
CatalogueReplaced ==
    /\ \E c \in Catalogues : c # catalogue /\ catalogue' = c
    /\ reply' = [key |-> <<>>, ops |-> <<>>, told |-> "none"]
    /\ UNCHANGED overrides

OverridesInit ==
    /\ catalogue = FirstCatalogue
    /\ overrides \in FirstDocuments
    /\ reply = [key |-> <<>>, ops |-> <<>>, told |-> "none"]

-----------------------------------------------------------------------------
(* The document as a store.                                                *)

Keys == {<<s, NoPath>> : s \in Systems} \cup (Systems \X (Files \X {None}))

\* The settings of a system or a ROM, as every reader finds them.
ViewOf(state) ==
    [k \in Keys |->
        LET entries == IF k[2] = NoPath THEN state.sys ELSE state.rom
            i == FindEntry(entries, k[1], k[2])
        IN  IF i = 0 THEN Blank ELSE entries[i].val]
View == ViewOf(LoadCoreOverrides(overrides))

Store == INSTANCE OverrideStore WITH
            values <- View, last <- reply, Commands <- CoreCommands

\* core-overrides.json implements the store of settings its callers see:
\* a command changes the one record it names by all its options or by none,
\* although entries are shared, moved, dropped and limited in number.
ImplementsStore == Store!Spec

\* The profile the core screen shows for a system or a ROM is the one a launch
\* would use, although print_core_selection and resolve_launch_profile compute
\* it separately and the catalogue may list neither override any more.
ShownIsLaunched ==
    \A k \in Keys :
        LET state == LoadCoreOverrides(overrides)
        IN  ShownProfile(state, k[1], k[2]) = ResolveLaunchProfile(state, k[1], k[2])
=============================================================================
