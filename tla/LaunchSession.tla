---------------------------- MODULE LaunchSession ----------------------------
(***************************************************************************)
(* plumos-text-ui as the frontends use it: favourites, history, the resume *)
(* record, launching a game and relaunching the last one at boot.  The     *)
(* frontend waits for each command, so commands do not overlap; a launch   *)
(* is cut into the durable changes it makes, and the power can go between  *)
(* any two of them.                                                        *)
(*                                                                         *)
(* Left out: timestamps, titles and thumbnails copied along with a path,   *)
(* which no decision reads, and resume-hold.json, which is only deleted.   *)
(***************************************************************************)
EXTENDS CoreOverrides

CONSTANTS
    Kind,           \* Kind[p]: retroarch, picoarch, standalone, pyxel, internal, port
                    \* for external:port, external for the other external profiles
    Installed,      \* profiles whose launcher and core are on the device
    PyxelFiles,     \* files with an extension Pyxel runs
    HotkeydOwned,   \* kinds whose runtime starts hotkeyd by itself
    MaxFavorites, MaxRecents,
    Given,          \* profiles callers pass with --profile
    FirstHistories, \* recent.json the device may start with
    FirstModes,     \* boot_resume_mode the device may start with
    MaxCommands     \* bound: commands and changes of the user considered

ASSUME LaunchAssumption ==
    /\ DOMAIN Kind = Profiles
    /\ Installed \subseteq Profiles
    /\ MaxFavorites \in Nat \ {0}
    /\ MaxRecents \in Nat \ {0}
    /\ FirstModes \subseteq {"last", "on", "picker", "recent", "off"}
    /\ MaxCommands \in Nat
    /\ Profiles \cap {None, NotListed} = {}
    /\ \A h \in FirstHistories : h \in Seq({h[n] : n \in DOMAIN h})

VARIABLES
    card,          \* ROM files on the card, per system
    index,         \* library-index/<system>.json: the files, per system
    favorites,     \* favorites.json
    recent,        \* recent.json, the last game first
    session,       \* resume-session.json
    mode,          \* boot_resume_mode of settings.json, as written there
    pc,            \* where the running command stands
    game,          \* the launch plan being executed
    hotkeyd,       \* plumos-safe-hotkeyd: none or up
    interrupted,   \* history: the game the last power cut stopped, or NoGame
    commands       \* commands the user has given

launchVars == <<card, index, favorites, recent, session, mode, pc, game, hotkeyd, interrupted, commands>>
vars == <<overrideVars, launchVars>>

NoOptions == [f \in Fields \ (SystemFields \cup {"suffix"}) |-> None]
NoGame == [sys |-> None, path |-> NoPath, content |-> NoPath, profile |-> None, cpu |-> None,
           options |-> NoOptions]
NoSession == [pending |-> FALSE, sys |-> None, path |-> NoPath]
NoReply == [key |-> <<>>, ops |-> <<>>, told |-> "none"]
Idle == pc = "idle"
\* The overrides are left alone; the answer of the last "core" has been read.
Quietly == reply' = NoReply /\ UNCHANGED <<catalogue, overrides>>

\* One more command of the user, of the MaxCommands considered.
Command == commands < MaxCommands /\ commands' = commands + 1

Init ==
    /\ OverridesInit
    /\ card = [s \in Systems |-> Files]
    /\ index = card
    /\ favorites = <<>> /\ recent \in FirstHistories
    /\ session = NoSession
    /\ mode \in FirstModes
    /\ pc = "idle" /\ game = NoGame
    /\ hotkeyd = "none"
    /\ interrupted = NoGame /\ commands = 0

-----------------------------------------------------------------------------
(* Library, favourites and history.                                        *)

\* run_scanner --on-enter: the system's index becomes what the card holds.
\* With --no-scan the index is used as it is.
ScanOnEnter(s, scan) == index' = IF scan THEN [index EXCEPT ![s] = card[s]] ELSE index

\* find_rom_by_relative_path_or_dos_suffix and load_selected_rom.
SelectRom(s, p) == p[1] \in index'[s] /\ (p[2] = None \/ s = Dos)

\* "roms", and every command that scans and is then refused.
ListRoms(s, scan) ==
    /\ Idle /\ Command /\ ScanOnEnter(s, scan)
    /\ Quietly /\ UNCHANGED <<card, favorites, recent, session, mode, pc, game, hotkeyd, interrupted>>

\* find_favorite / find_recent
At(list, s, p) ==
    IF \E i \in DOMAIN list : list[i].sys = s /\ list[i].path = p
    THEN CHOOSE i \in DOMAIN list : list[i].sys = s /\ list[i].path = p
    ELSE 0

\* load_favorites and load_recent: entries seen before are skipped, and so are
\* the ones that do not pass the checks on their own fields.
LoadOnce(read, e, cap) ==
    IF At(read, e.sys, e.path) > 0 \/ Len(read) >= cap THEN read ELSE Append(read, e)
Deduplicated(list, unread, cap) ==
    LET read[n \in 0..Len(list)] ==
            IF n = 0 THEN <<>> ELSE IF n \in unread THEN read[n - 1] ELSE LoadOnce(read[n - 1], list[n], cap)
    IN  read[Len(list)]
LoadFavorites == Deduplicated(favorites, {}, MaxFavorites)
LoadRecent == Deduplicated(recent, {n \in DOMAIN recent : recent[n].profile = None}, MaxRecents)

\* set_favorite_from_rom: the entry is refreshed in place or added at the end.
SetFavorite(list, s, p) ==
    IF At(list, s, p) > 0 THEN list ELSE Append(list, [sys |-> s, path |-> p])

\* clear_favorite
ClearFavorite(list, s, p) == IF At(list, s, p) > 0 THEN RemoveAt(list, At(list, s, p)) ELSE list

\* save_favorites and save_recent: the whole list, through a temporary file.
SaveFavorites(list) == CommitTempFile(favorites, list)
SaveRecent(list) == CommitTempFile(recent, list)

\* "favorite rom": only a path of the index itself; a full list refuses.
Favorite(s, p, action, scan) ==
    LET list == LoadFavorites
        add == action = "set" \/ (action = "toggle" /\ At(list, s, p) = 0)
    IN  /\ Idle /\ Command
        /\ ScanOnEnter(s, scan)
        /\ p[1] \in index'[s] /\ p[2] = None
        /\ add => At(list, s, p) > 0 \/ Len(list) < MaxFavorites
        /\ \E saved \in SaveFavorites(IF add THEN SetFavorite(list, s, p)
                                                  ELSE ClearFavorite(list, s, p)) :
              favorites' = saved.file
        /\ Quietly /\ UNCHANGED <<card, recent, session, mode, pc, game, hotkeyd, interrupted>>

\* add_recent_entry: the game moves to the front; at the limit the last falls out.
AddRecentEntry(list, e) ==
    LET i == At(list, e.sys, e.path)
        rest == IF i > 0 THEN RemoveAt(list, i) ELSE list
    IN  <<e>> \o SubSeq(rest, 1, IF Len(rest) < MaxRecents THEN Len(rest) ELSE MaxRecents - 1)

\* resume_session_from_rom
SessionOf(s, p) == [pending |-> TRUE, sys |-> s, path |-> p]

\* "recent add" with the profile of the caller or the resolved one.
RecentAdd(s, p, profile, scan) ==
    LET e == [sys |-> s, path |-> p, content |-> p,
              profile |-> IF profile # None THEN profile
                          ELSE ResolveLaunchProfile(LoadCoreOverrides(overrides), s, p)]
    IN  /\ Idle /\ Command
        /\ ScanOnEnter(s, scan) /\ SelectRom(s, p)
        /\ \E saved \in SaveRecent(AddRecentEntry(LoadRecent, e)) : recent' = saved.file
        /\ interrupted' = NoGame
        /\ Quietly /\ UNCHANGED <<card, favorites, session, mode, pc, game, hotkeyd>>

\* "resume set": the resume record first, then the history.
ResumeSet(s, p, profile, scan) ==
    LET e == [sys |-> s, path |-> p, content |-> p,
              profile |-> IF profile # None THEN profile
                          ELSE ResolveLaunchProfile(LoadCoreOverrides(overrides), s, p)]
    IN  /\ Idle /\ Command
        /\ ScanOnEnter(s, scan) /\ SelectRom(s, p)
        /\ \E record \in CommitTempFile(session, SessionOf(s, p)),
              saved \in SaveRecent(AddRecentEntry(LoadRecent, e)) :
              /\ session' = record.file
              /\ recent' = IF record.ok THEN saved.file ELSE recent
        /\ interrupted' = NoGame
        /\ Quietly /\ UNCHANGED <<card, favorites, mode, pc, game, hotkeyd>>

\* "resume clear"
ResumeClear ==
    /\ Idle /\ Command
    /\ \E saved \in CommitTempFile(session, NoSession) : session' = saved.file
    /\ Quietly /\ UNCHANGED <<card, index, favorites, recent, mode, pc, game, hotkeyd, interrupted>>

\* "core": a ROM must be in the index under exactly its path.
Core(s, p, ops, scan) ==
    /\ Idle /\ Command
    /\ IF p = NoPath THEN index' = index ELSE ScanOnEnter(s, scan) /\ p[1] \in index'[s] /\ p[2] = None
    /\ CoreCommand(s, p, ops)
    /\ UNCHANGED <<card, favorites, recent, session, mode, pc, game, hotkeyd, interrupted>>

-----------------------------------------------------------------------------
(* A launch.                                                               *)

\* rom_path_exists: the file without its suffix will do.
RomExists(s, p) == p[1] \in card[s]

\* build_launch_plan: what can_execute says for each kind of profile.
CanExecute(s, content, profile) ==
    /\ profile \in Profiles
    /\ RomExists(s, content)
    /\ CASE Kind[profile] \in {"retroarch", "picoarch", "standalone", "port"} -> profile \in Installed
         [] Kind[profile] = "pyxel" -> profile \in Installed /\ content[1] \in PyxelFiles
         [] Kind[profile] = "external" -> TRUE
         [] OTHER -> FALSE

\* The plan of a launch: profile given or resolved, content, CPU and options.
PlanOf(state, s, p, given) ==
    LET profile == IF given # None THEN given ELSE ResolveLaunchProfile(state, s, p)
    IN  [sys |-> s, path |-> p, content |-> ContentPath(state, s, p), profile |-> profile,
         cpu |-> AdapterCpu(profile, ResolveCpu(state, s, p)), options |-> RuntimeOptions(state, s, p)]

EntryOf(plan) == [sys |-> plan.sys, path |-> plan.path, content |-> plan.content, profile |-> plan.profile]

\* "launch --execute", up to the saved history.  A profile that is not listed,
\* a plan that cannot be executed or a failed save end it here.
LaunchCommand(s, p, given, scan) ==
    LET plan == PlanOf(LoadCoreOverrides(overrides), s, p, given)
    IN  /\ Idle /\ Command
        /\ ScanOnEnter(s, scan) /\ SelectRom(s, p)
        /\ given # None => IsListed(s, given)
        /\ CanExecute(s, plan.content, plan.profile)
        /\ \E saved \in SaveRecent(AddRecentEntry(LoadRecent, EntryOf(plan))) :
              /\ recent' = saved.file
              /\ pc' = IF saved.ok THEN "recorded" ELSE "idle"
              /\ game' = IF saved.ok THEN plan ELSE NoGame
        /\ interrupted' = NoGame
        /\ Quietly /\ UNCHANGED <<card, favorites, session, mode, hotkeyd>>

\* save_resume_session before the game starts.
MarkPending ==
    /\ pc = "recorded"
    /\ \E saved \in CommitTempFile(session, SessionOf(game.sys, game.path)) :
          /\ session' = saved.file
          /\ pc' = IF saved.ok THEN "execute" ELSE "idle"
          /\ game' = IF saved.ok THEN game ELSE NoGame
    /\ Quietly /\ UNCHANGED <<card, index, favorites, recent, mode, hotkeyd, interrupted, commands>>

\* launch_plan_uses_safe_hotkeyd
UsesHotkeyd(plan) ==
    Kind[plan.profile] \in {"retroarch", "standalone", "picoarch"} \ HotkeydOwned

\* start_safe_hotkeyd and the start of the game's command.
StartGame ==
    /\ pc \in {"execute", "bootExecute"}
    /\ hotkeyd' = IF UsesHotkeyd(game) THEN "up" ELSE "none"
    /\ pc' = IF pc = "execute" THEN "running" ELSE "bootRunning"
    /\ Quietly /\ UNCHANGED <<card, index, favorites, recent, session, mode, game, interrupted, commands>>

\* The game's command returns, with or without success.
GameEnds ==
    /\ pc \in {"running", "bootRunning"}
    /\ pc' = IF pc = "running" THEN "stopping" ELSE "bootStopping"
    /\ interrupted' = NoGame
    /\ Quietly /\ UNCHANGED <<card, index, favorites, recent, session, mode, game, hotkeyd, commands>>

\* Mutant of StopHotkeyd: only a process that has already ended is dealt with.
StopHotkeydNever ==
    /\ pc \in {"stopping", "bootStopping"}
    /\ pc' = IF pc = "stopping" THEN "persist" ELSE "bootPersist"
    /\ Quietly /\ UNCHANGED <<card, index, favorites, recent, session, mode, game, hotkeyd, interrupted, commands>>

\* stop_safe_hotkeyd: every wait in it is bounded (35 s for a power action, 2 s
\* of grace, 2 s after SIGTERM), and it ends with hotkeyd reaped or killed.
StopHotkeyd ==
    /\ pc \in {"stopping", "bootStopping"}
    /\ hotkeyd' = "none"
    /\ pc' = IF pc = "stopping" THEN "persist" ELSE "bootPersist"
    /\ Quietly /\ UNCHANGED <<card, index, favorites, recent, session, mode, game, interrupted, commands>>

\* persist_runtime_volume; a relaunch at boot ends with it.
PersistVolume ==
    /\ pc \in {"persist", "bootPersist"}
    /\ pc' = IF pc = "persist" THEN "clear" ELSE "idle"
    /\ game' = IF pc = "persist" THEN game ELSE NoGame
    /\ Quietly /\ UNCHANGED <<card, index, favorites, recent, session, mode, hotkeyd, interrupted, commands>>

\* The resume record is emptied; a failure is only a warning.
ClearPending ==
    /\ pc = "clear"
    /\ \E saved \in CommitTempFile(session, NoSession) : session' = saved.file
    /\ pc' = "idle" /\ game' = NoGame
    /\ Quietly /\ UNCHANGED <<card, index, favorites, recent, mode, hotkeyd, interrupted, commands>>

-----------------------------------------------------------------------------
(* Power and boot.                                                         *)

PowerCut ==
    /\ pc # "off"
    /\ pc' = "off" /\ game' = NoGame
    /\ hotkeyd' = "none"
    /\ interrupted' = IF pc \in {"running", "bootRunning"} THEN game ELSE interrupted
    /\ Quietly /\ UNCHANGED <<card, index, favorites, recent, session, mode, commands>>

\* normalize_boot_resume_mode
BootMode == CASE mode \in {"last", "on"} -> "on" [] mode \in {"picker", "recent"} -> "recent" [] OTHER -> "off"

\* Mutant of BootPlan: the profile is resolved again.
BootPlanResolved(state, last) == PlanOf(state, last.sys, last.path, None)

\* The plan of "boot": the recorded content and profile of the last game, the
\* overrides of today for a content without suffix and a profile not listed.
BootPlan(state, last) ==
    LET again == ContentPath(state, last.sys, last.path)
        profile == IF IsListed(last.sys, last.profile) THEN last.profile
                   ELSE ResolveLaunchProfile(state, last.sys, last.path)
    IN  [sys |-> last.sys, path |-> last.path,
         content |-> IF last.content[2] # None THEN last.content ELSE again,
         profile |-> profile,
         cpu |-> AdapterCpu(profile, ResolveCpu(state, last.sys, last.path)),
         options |-> RuntimeOptions(state, last.sys, last.path)]

\* print_boot_resume and "boot --execute": with mode "on" the last game starts
\* again if its plan can be executed; otherwise the frontend shows its screen.
Boot ==
    LET list == LoadRecent
        plan == BootPlan(LoadCoreOverrides(overrides), list[1])
        relaunch == /\ BootMode = "on" /\ list # <<>>
                    /\ CanExecute(plan.sys, plan.content, plan.profile)
    IN  /\ pc = "off"
        /\ pc' = IF relaunch THEN "bootExecute" ELSE "idle"
        /\ game' = IF relaunch THEN plan ELSE NoGame
        /\ Quietly /\ UNCHANGED <<card, index, favorites, recent, session, mode, hotkeyd, interrupted, commands>>

\* The user changes the card or the setting; an update replaces the catalogue.
ChangeCard(s, f) ==
    /\ pc \in {"idle", "off"} /\ Command
    /\ card' = [card EXCEPT ![s] = IF f \in @ THEN @ \ {f} ELSE @ \cup {f}]
    /\ interrupted' = NoGame
    /\ Quietly /\ UNCHANGED <<index, favorites, recent, session, mode, pc, game, hotkeyd>>

ReplaceCatalogue ==
    /\ Idle /\ Command /\ CatalogueReplaced
    /\ interrupted' = NoGame
    /\ UNCHANGED <<card, index, favorites, recent, session, mode, pc, game, hotkeyd>>

Next ==
    \/ \E s \in Systems, p \in Paths, given \in Given \cup {None}, scan \in BOOLEAN : LaunchCommand(s, p, given, scan)
    \/ \E s \in Systems, p \in Paths, given \in Given \cup {None}, scan \in BOOLEAN :
          RecentAdd(s, p, given, scan) \/ ResumeSet(s, p, given, scan)
    \/ \E s \in Systems, p \in Paths, scan \in BOOLEAN, a \in {"set", "clear", "toggle"} : Favorite(s, p, a, scan)
    \/ \E s \in Systems, p \in Paths \cup {NoPath}, ops \in CoreCommands, scan \in BOOLEAN : Core(s, p, ops, scan)
    \/ \E s \in Systems : ListRoms(s, TRUE)
    \/ ResumeClear
    \/ MarkPending \/ StartGame \/ GameEnds \/ StopHotkeyd \/ PersistVolume \/ ClearPending
    \/ PowerCut \/ Boot
    \/ \E s \in Systems, f \in Files : ChangeCard(s, f)
    \/ ReplaceCatalogue

\* The game ends, and text-ui itself goes on.
Fairness ==
    WF_vars(MarkPending \/ StartGame \/ GameEnds \/ StopHotkeyd \/ PersistVolume \/ ClearPending)

Spec == Init /\ [][Next]_vars /\ Fairness

-----------------------------------------------------------------------------
(* Properties.                                                             *)

\* A game that a power cut stopped is the one "boot" starts again, from the
\* same content and with the same profile and options, also when the user had picked that
\* profile for this one launch; no override and no setting of the time since
\* the launch started can change that (build_launch_plan at boot).
RelaunchesWhatWasCut ==
    pc \in {"bootExecute", "bootRunning"} /\ interrupted # NoGame =>
        game.sys = interrupted.sys /\ game.path = interrupted.path /\
        game.content = interrupted.content /\ game.profile = interrupted.profile /\
        game.options = interrupted.options

\* Every launch comes back to the frontend, hotkeyd gone, unless the power goes.
LaunchReturns == pc \in {"recorded", "bootExecute"} ~> (Idle /\ hotkeyd = "none") \/ pc = "off"
=============================================================================
