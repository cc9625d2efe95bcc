------------------------------ MODULE Settings ------------------------------
(***************************************************************************)
(* The Settings screens of the controller frontend (plumos_controller_ui.c)*)
(* on the Bubble, the two files they edit, and the service of the volume   *)
(* keys, which edits one of them too.                                      *)
(*                                                                         *)
(*   fe   config/frontend/settings.json, written only by the frontend: every *)
(*        save loads the file, changes one control's keys and writes all   *)
(*   sys  config/system/settings.json, shared with the volume helper: both *)
(*        read the file, change one key and rename a copy over it, so      *)
(*        whatever was saved in between by the other is overwritten        *)
(*   bak  settings.json.plumos.bak, taken before the frontend's first save *)
(*                                                                         *)
(* A press of the user is one step up to the first point where another     *)
(* process can step in: the read of sys, its rename, the two halves of a   *)
(* volume command (mixer, then the file that records the level).  fe has   *)
(* one writer, so its load-change-save is one step.                        *)
(***************************************************************************)
EXTENDS Integers, Sequences, FiniteSets

CONSTANTS
    VOLUME_MAX,     \* PLUMOS_VOLUME_MAX
    FactorySys,     \* the system file at the start: a function of its keys
    FactoryFe,      \* the frontend file at the start
    ThemeFiles,     \* [theme id -> [target, blocked, look]], the themes installed
    ThemeOrder,     \* their ids in the order of graphic_theme_choice_cmp
    Systems,        \* the real systems of TOP, in order
    ProfileCpu,     \* the CPU policy of a system's profile, without override
    ResetTargets,   \* the factory-reset rows whose defaults are installed
    BadZones,       \* the zones with characters valid_timezone_value refuses
    Panel,          \* the display rows whose backend this device has
    Today,          \* the clock when the manual time is initialised
    Touch,          \* the rows the user goes to
    MaxOps,         \* bound on the controls and volume keys the user operates, repeats included
    MaxFaults,      \* bound on failures of audio, display and card, stops of the service, power cuts
    None

VARIABLES
    sys, bak, fe, cpu, services,   \* what is on the card
    hw,                            \* what the hardware was last set to
    level,                         \* /run/plumos/volume/current
    ui,                            \* the screen: category, cursor, rows shown, drafts
    save,                          \* the save of sys the frontend is in, or NoSave
    keys,                          \* the volume-key service and its helper
    wrote,                         \* per file and key, the value last saved
    lost,                          \* keys of sys a save put back that the other process had changed
    destroyed,                     \* keys of sys gone with a copy that was empty or lacked the volume
    trouble,                       \* a level was not written, or the frontend's volume command
                                   \* failed, overlapped the helper's or used an old volume
    count                          \* [ops, faults]

card == <<sys, bak, fe, cpu, services>>
vars == <<sys, bak, fe, cpu, services, hw, level, ui, save, keys, wrote, lost, destroyed, trouble, count>>

ASSUME BoundsAreNatural == VOLUME_MAX \in Nat \ {0} /\ {MaxOps, MaxFaults} \subseteq Nat
ASSUME FactoryIsTyped ==
    \A k \in {"volume", "brightness"} \cap DOMAIN FactorySys : FactorySys[k] \in Int
ASSUME PanelIsRows == Panel \subseteq {"system_brightness", "system_lumination", "system_contrast",
                                       "system_hue", "system_saturation"}
ASSUME ThemesAreOrdered == {ThemeOrder[n] : n \in DOMAIN ThemeOrder} = DOMAIN ThemeFiles

-----------------------------------------------------------------------------
(* The tables of the controls. *)

LookKeys == {"graphic_top_layout", "graphic_transition", "graphic_transition_axis",
             "graphic_transition_easing", "graphic_transition_ms"}

setting_choices ==
    [ui_mode                |-> <<"text", "graphic">>,
     boot_resume_mode       |-> <<"off", "on", "recent">>,
     sort_systems           |-> <<"sort_order", "name">>,
     sort_roms              |-> <<"name", "path">>,
     theme_top_layout       |-> <<"tile_grid", "tile_strip">>,
     theme_transition       |-> <<"none", "slide">>,
     theme_transition_axis  |-> <<"vertical", "horizontal">>,
     theme_transition_easing |-> <<"smoothstep", "linear">>,
     system_language        |-> <<"en.lang", "ja.lang", "ch.lang", "pt.lang", "fr.lang", "de.lang">>,
     system_timezone        |-> <<"JST-9", "UTC0", "KST-9", "CST-8", "PST8PDT", "MST7MDT",
                                  "CST6CDT", "EST5EDT", "GMT0BST", "CET-1CEST">>,
     system_audio_output    |-> <<"speaker", "headphone">>]

CpuPresets == <<"interactive", "performance", "ondemand", "schedutil", "conservative">>

\* The zones that can be chosen are well formed.
ASSUME ChosenZonesAreGood ==
    \A n \in DOMAIN setting_choices.system_timezone : setting_choices.system_timezone[n] \notin BadZones

\* The number rows: their least and greatest value and their step.
NumberRange ==
    [system_volume     |-> <<0, VOLUME_MAX, 1>>, system_brightness |-> <<1, 20, 1>>,
     system_lumination |-> <<0, 10, 1>>,         system_contrast   |-> <<0, 20, 1>>,
     system_hue        |-> <<0, 20, 1>>,         system_saturation |-> <<0, 20, 1>>,
     theme_transition_ms |-> <<80, 1000, 20>>]

ManualFields ==
    [system_manual_time_year |-> "year", system_manual_time_month |-> "month",
     system_manual_time_day |-> "day", system_manual_time_hour |-> "hour",
     system_manual_time_minute |-> "minute"]

\* The rows that stand for keys of the frontend file, and those keys.
FeKeysOf ==
    [ui_mode |-> {"ui_mode", "top_mode", "rom_mode"}, boot_resume_mode |-> {"boot_resume_mode"},
     sort_systems |-> {"sort_systems"}, sort_roms |-> {"sort_roms"},
     theme_top_layout |-> {"graphic_top_layout"}, theme_transition |-> {"graphic_transition"},
     theme_transition_axis |-> {"graphic_transition_axis"},
     theme_transition_easing |-> {"graphic_transition_easing"},
     theme_transition_ms |-> {"graphic_transition_ms"},
     show_empty_systems |-> {"show_empty_systems"}, show_favorites_on_top |-> {"show_favorites_on_top"},
     show_recent_on_top |-> {"show_recent_on_top"}, rom_cursor_wrap |-> {"rom_cursor_wrap"},
     rom_scan_policy |-> {"rom_scan_policy"},
     graphic_theme_id |-> {"graphic_theme_id", "theme_id"} \cup LookKeys]

\* The rows that stand for a key of the system file, and that key.
SysKeyOf ==
    [system_volume |-> "volume", system_brightness |-> "brightness",
     system_lumination |-> "lumination", system_contrast |-> "contrast",
     system_hue |-> "hue", system_saturation |-> "saturation",
     system_audio_output |-> "audio_output", system_language |-> "language",
     system_timezone |-> "timezone", system_automatic_time |-> "automatic_time",
     network_wifi_enabled |-> "wifi_enabled", system_manual_time_apply |-> "automatic_time"]

\* The number rows that need a backend of the display.
DisplayRows == {"system_brightness", "system_lumination", "system_contrast", "system_hue", "system_saturation"}
ServiceRows == {"network_ssh_enabled", "network_ftp_enabled", "network_sftp_enabled", "network_samba_enabled"}
ResetRows == {"system_factory_reset_all", "system_factory_reset_ra",
              "system_factory_reset_pico", "system_factory_reset_sa"}
Submenu ==
    [ui_theme_settings |-> "UI_THEME", network_services |-> "NETWORK_SERVICE",
     network_information |-> "NETWORK_INFORMATION", system_display_color |-> "SYSTEM_DISPLAY_COLOR",
     system_time_settings |-> "SYSTEM_TIME", system_manual_time |-> "SYSTEM_TIME_MANUAL",
     system_information |-> "SYSTEM_INFORMATION", system_factory_reset |-> "SYSTEM_FACTORY_RESET"]
MenuCategories == {"UI", "SYSTEM", "NETWORK", "PERFORMANCE"}

setting_control_type_for_id(id) ==
    CASE id \in DOMAIN setting_choices \cup {"graphic_theme_id", "performance_system", "performance_cpu_policy"} -> "CHOICE"
      [] id \in DOMAIN NumberRange \cup DOMAIN ManualFields -> "NUMBER"
      [] id \in {"show_empty_systems", "show_favorites_on_top", "show_recent_on_top", "rom_cursor_wrap",
                 "rom_scan_policy", "system_automatic_time", "network_wifi_enabled"} \cup ServiceRows -> "CHECKBOX"
      [] id \in DOMAIN Submenu \cup ResetRows \cup {"system_sync_now", "system_manual_time_apply",
                 "performance_clear_cpu_override"} -> "ACTION"
      [] OTHER -> "READONLY"

-----------------------------------------------------------------------------
(* The rows of each category, in order (add_*_entries on the Bubble). *)

add_ui_settings_entries ==
    <<"refresh_top", "ui_mode", "show_empty_systems", "show_favorites_on_top", "show_recent_on_top",
      "rom_cursor_wrap", "boot_resume_mode", "sort_systems", "sort_roms", "rom_scan_policy", "ui_theme_settings">>
add_ui_theme_settings_entries ==
    <<"graphic_theme_id", "theme_name", "theme_status", "theme_layout", "theme_top_layout", "theme_transition",
      "theme_transition_ms", "theme_transition_axis", "theme_transition_easing", "theme_font">>
add_system_settings_entries ==
    <<"system_volume", "system_audio_output", "system_brightness", "system_lid_suspend", "system_lumination",
      "system_display_color", "system_time_settings", "system_language", "system_update",
      "system_factory_reset", "system_storage_check", "system_information">>
add_system_display_color_entries == <<"system_contrast", "system_hue", "system_saturation">>
add_system_time_entries ==
    <<"system_current_time", "system_automatic_time", "system_sync_now", "system_rtc_status",
      "system_timezone", "system_manual_time">>
add_system_time_manual_entries ==
    <<"system_current_time", "system_manual_timezone", "system_manual_time_year", "system_manual_time_month",
      "system_manual_time_day", "system_manual_time_hour", "system_manual_time_minute", "system_manual_time_apply">>
add_system_information_entries ==
    <<"system_model", "system_plumos_version", "system_vendor_runtime", "system_kernel", "system_gpu_runtime",
      "system_display_backend", "system_audio_backend", "system_sdcard", "system_storage_health",
      "system_memory", "system_firmware">>
add_system_factory_reset_entries ==
    (IF ResetTargets # {} THEN <<"system_factory_reset_all">> ELSE << >>)
        \o <<"system_factory_reset_ra", "system_factory_reset_pico", "system_factory_reset_sa">>
        \o (IF ResetTargets = {} THEN <<"system_factory_reset_none">> ELSE << >>)
add_network_settings_entries ==
    <<"network_wifi_enabled", "network_connect_wifi", "network_services", "network_information">>
add_network_service_entries ==
    <<"network_ssh_enabled", "network_ftp_enabled", "network_sftp_enabled", "network_samba_enabled">>
add_network_information_entries ==
    <<"network_connection", "network_ip_address", "network_signal", "network_link_speed", "network_frequency",
      "network_ssh", "network_ftp_status", "network_sftp_status", "network_samba_status">>
add_performance_settings_entries ==
    <<"performance_system", "performance_cpu_policy", "performance_clear_cpu_override">>

Rows ==
    [UI |-> add_ui_settings_entries, UI_THEME |-> add_ui_theme_settings_entries,
     SYSTEM |-> add_system_settings_entries, SYSTEM_DISPLAY_COLOR |-> add_system_display_color_entries,
     SYSTEM_TIME |-> add_system_time_entries, SYSTEM_TIME_MANUAL |-> add_system_time_manual_entries,
     SYSTEM_INFORMATION |-> add_system_information_entries,
     SYSTEM_FACTORY_RESET |-> add_system_factory_reset_entries,
     NETWORK |-> add_network_settings_entries, NETWORK_SERVICE |-> add_network_service_entries,
     NETWORK_INFORMATION |-> add_network_information_entries,
     PERFORMANCE |-> add_performance_settings_entries]

\* The rows that were filled as "Not Supported".
Available(id) ==
    /\ id # "system_lid_suspend"
    /\ id \in {"system_lumination", "system_display_color"} => ui.shown[id] # None
    /\ id \in ResetRows \ {"system_factory_reset_all"} => id \in ResetTargets


-----------------------------------------------------------------------------
(* What the files mean. *)

Clamp(v, low, high) == IF v < low THEN low ELSE IF v > high THEN high ELSE v
Abs(v) == IF v < 0 THEN -v ELSE v
\* The keys of f, and those of g that f does not have.
Over(f, g) == [k \in DOMAIN f \cup DOMAIN g |-> IF k \in DOMAIN f THEN f[k] ELSE g[k]]
With(f, key, value) == [k \in DOMAIN f \cup {key} |-> IF k = key THEN value ELSE f[k]]
Or(f, k, default) == IF k \in DOMAIN f THEN f[k] ELSE default

init_frontend_settings ==
    [show_empty_systems |-> FALSE, show_favorites_on_top |-> TRUE, show_recent_on_top |-> TRUE,
     rom_cursor_wrap |-> TRUE, boot_resume_mode |-> "off", ui_mode |-> "text", top_mode |-> "text",
     rom_mode |-> "text", theme_id |-> "default", graphic_theme_id |-> "default",
     graphic_top_layout |-> "", graphic_transition |-> "", graphic_transition_axis |-> "",
     graphic_transition_easing |-> "", graphic_transition_ms |-> 0, sort_systems |-> "sort_order",
     sort_roms |-> "name", rom_scan_policy |-> "on_enter"]

normalize_boot_resume_mode(mode) ==
    CASE mode \in {"last", "Last", "on", "ON", "true", "1"} -> "on"
      [] mode \in {"picker", "Picker", "recent", "Recent"} -> "recent"
      [] OTHER -> "off"

load_settings(f) ==
    LET read == [k \in DOMAIN init_frontend_settings |-> Or(f, k, init_frontend_settings[k])]
    IN [read EXCEPT !.boot_resume_mode = normalize_boot_resume_mode(@),
                    !.graphic_theme_id = Or(f, "graphic_theme_id", read.theme_id)]

\* What save_settings leaves in the file: theme_id follows graphic_theme_id.
save_settings(settings) == [settings EXCEPT !.theme_id = settings.graphic_theme_id]

init_device_settings ==
    [volume |-> 8, brightness |-> 10, lumination |-> 5, contrast |-> 10, hue |-> 10, saturation |-> 10,
     audio_output |-> "speaker", language |-> "en.lang", timezone |-> "JST-9",
     automatic_time |-> TRUE, wifi_enabled |-> TRUE]

brightness_raw_value ==
    <<2, 3, 4, 5, 6, 7, 8, 9, 10, 26, 43, 59, 75, 92, 108, 125, 141, 157, 174, 190>>

\* Older files hold the raw backlight value: the nearest of the twenty levels.
brightness_setting_from_stored(stored) ==
    LET off(b) == Abs(stored - brightness_raw_value[b])
    IN IF stored <= 20 THEN Clamp(stored, 1, 20)
       ELSE CHOOSE b \in 1..20 : \A c \in 1..20 : off(b) < off(c) \/ (off(b) = off(c) /\ b <= c)

load_device_settings(f) ==
    LET read == [k \in DOMAIN init_device_settings |-> Or(f, k, init_device_settings[k])]
    IN [read EXCEPT !.volume = Clamp(@, 0, VOLUME_MAX),
                    !.brightness = brightness_setting_from_stored(@),
                    !.audio_output = IF @ \in {"speaker", "headphone"} THEN @ ELSE "speaker",
                    !.timezone = IF @ \in BadZones THEN "JST-9" ELSE @]

init_theme_state ==
    [graphic_top_layout |-> "tile_grid", graphic_transition |-> "none",
     graphic_transition_axis |-> "vertical", graphic_transition_easing |-> "smoothstep",
     graphic_transition_ms |-> 0]

ValidLook(k, v) ==
    CASE k = "graphic_top_layout" -> v \in {"tile_grid", "tile_strip"}
      [] k = "graphic_transition" -> v \in {"slide", "none"}
      [] k = "graphic_transition_axis" -> v \in {"vertical", "horizontal"}
      [] k = "graphic_transition_easing" -> v \in {"smoothstep", "linear"}

load_theme_state(id) ==
    IF id \notin DOMAIN ThemeFiles THEN init_theme_state
    ELSE [k \in LookKeys |->
            LET v == Or(ThemeFiles[id].look, k, init_theme_state[k])
            IN IF k = "graphic_transition_ms" THEN Clamp(v, 0, 1000)
               ELSE IF ValidLook(k, v) THEN v ELSE init_theme_state[k]]

apply_theme_setting_overrides(look, settings) ==
    [k \in LookKeys |->
        IF k = "graphic_transition_ms"
        THEN IF settings[k] > 0 THEN Clamp(settings[k], 80, 1000) ELSE look[k]
        ELSE IF ValidLook(k, settings[k]) THEN settings[k] ELSE look[k]]

Theme(settings) == apply_theme_setting_overrides(load_theme_state(settings.graphic_theme_id), settings)

load_graphic_theme_choices ==
    SelectSeq(ThemeOrder, LAMBDA id : ThemeFiles[id].target = "graphic" /\ ~ThemeFiles[id].blocked)

days_in_month(year, month) ==
    IF month = 2 THEN IF (year % 4 = 0 /\ year % 100 # 0) \/ year % 400 = 0 THEN 29 ELSE 28
    ELSE IF month \in {4, 6, 9, 11} THEN 30 ELSE 31

clamp_manual_time_fields(t) ==
    LET year == Clamp(t.year, 2024, 2037)
        month == Clamp(t.month, 1, 12)
    IN [year |-> year, month |-> month, day |-> Clamp(t.day, 1, days_in_month(year, month)),
        hour |-> Clamp(t.hour, 0, 23), minute |-> Clamp(t.minute, 0, 59)]

Place(choices, value) ==
    IF \E n \in DOMAIN choices : choices[n] = value
    THEN CHOOSE n \in DOMAIN choices : choices[n] = value ELSE 1

\* LEFT and RIGHT go round the choices, from the first one when the value is none of them.
Cycled(choices, value, direction) == choices[((Place(choices, value) - 1 + direction) % Len(choices)) + 1]

\* The policy text-ui prints for a system, an override before the profile's.
load_performance_core_state(overrides, system) ==
    IF overrides[system] = None THEN ProfileCpu[system] ELSE overrides[system]

-----------------------------------------------------------------------------
(* The rows as they are filled from memory just loaded.                    *)

\* The value a row shows, from the files and drafts as they are now.
Value(id, f, s, overrides, svc, u) ==
    LET settings == load_settings(f)
        device == load_device_settings(s)
    IN CASE id \in {"theme_top_layout", "theme_transition", "theme_transition_ms",
                    "theme_transition_axis", "theme_transition_easing"} ->
               Theme(settings)[CHOOSE k \in FeKeysOf[id] : TRUE]
         [] id \in {"ui_mode", "graphic_theme_id"} -> settings[id]
         [] id = "rom_scan_policy" -> settings[id] = "on_enter"
         [] id \in DOMAIN FeKeysOf \ ({"ui_mode", "graphic_theme_id", "rom_scan_policy"}) -> settings[id]
         [] id \in DOMAIN SysKeyOf \ {"system_manual_time_apply"} -> device[SysKeyOf[id]]
         [] id \in ServiceRows -> svc[id]
         [] id = "performance_system" -> u.system
         [] id = "performance_cpu_policy" -> load_performance_core_state(overrides, u.system)
         [] id \in DOMAIN ManualFields -> u.draft[ManualFields[id]]
         [] id = "system_display_color" -> "C T S"
         [] OTHER -> None

\* The categories whose rows are filled from the system file, read again.
LoadsDevice == DOMAIN Rows \ {"UI", "UI_THEME", "SYSTEM_FACTORY_RESET"}

Entries(category) == {Rows[category][n] : n \in DOMAIN Rows[category]}

\* A number is offered while its backend answers.
system_number_setting_runtime_available(id) ==
    /\ id = "system_volume" => hw.audio
    /\ id \in DisplayRows => id \in hw.display

\* The rows filled with N/A, or as not supported, while a backend does not answer.
Blank(id) ==
    \/ ~system_number_setting_runtime_available(id)
    \/ id = "system_display_color" /\ hw.display \cap {"system_contrast", "system_hue", "system_saturation"} = {}

load_settings_entries(category, f, s, overrides, svc, u) ==
    [id \in Entries(category) |-> IF Blank(id) THEN None ELSE Value(id, f, s, overrides, svc, u)]

\* The screen after the rows are loaded again: the cursor stays where it was.
update_settings_entries_after_save(f, s, overrides, svc, u) ==
    [u EXCEPT !.shown = load_settings_entries(u.category, f, s, overrides, svc, u),
              !.volume = IF u.category \in LoadsDevice THEN load_device_settings(s).volume ELSE @,
              !.stale = {}]

Reloaded(u) == update_settings_entries_after_save(fe', sys', cpu', services', u)

open_settings_screen(category, cursor, u) ==
    Reloaded([u EXCEPT !.category = category, !.cursor = cursor, !.pending = None, !.fresh = FALSE])

-----------------------------------------------------------------------------
(* The hardware and the processes at the start. *)

\* What the frontend applies to the hardware when it starts or saves a key.
Applied == {"brightness", "lumination", "contrast", "hue", "saturation", "language", "timezone"}

\* Of these, what a backend of the display is asked to apply: it may fail.
DisplayKeys == {SysKeyOf[id] : id \in DisplayRows}

NoKeys == [on |-> FALSE, held |-> 0, pending |-> FALSE, due |-> FALSE, job |-> "idle",
           target |-> 0, copy |-> << >>, raced |-> {}]
NoScreen == [category |-> "OFF", cursor |-> "", shown |-> << >>, volume |-> 0, stale |-> {},
             system |-> Systems[1], draft |-> Today, pending |-> None, fresh |-> FALSE]

NoSave == [id |-> "", value |-> None, copy |-> << >>, raced |-> {}, step |-> "none"]

Init ==
    /\ sys = FactorySys /\ bak = None /\ fe = FactoryFe
    /\ cpu = [s \in {Systems[n] : n \in DOMAIN Systems} |-> None]
    /\ services = [s \in ServiceRows |-> FALSE]
    /\ hw = [audio |-> TRUE, display |-> Panel, card |-> "ok", volume |-> None, wifi |-> FALSE,
             applied |-> None, refused |-> {}]
    /\ level = None /\ ui = NoScreen /\ save = NoSave /\ keys = NoKeys
    /\ wrote = [sys |-> << >>, fe |-> << >>] /\ lost = {} /\ destroyed = {} /\ trouble = FALSE
    /\ count = [ops |-> 0, faults |-> 0]

read_persisted == Clamp(Or(sys, "volume", 8), 0, VOLUME_MAX)
read_runtime == IF level = None THEN read_persisted ELSE level

\* The key service starts and the frontend reads its settings: values out of range are
\* put right in the file, then volume, backlight, colours, language and zone are applied,
\* the backlight and the colours without a look at whether it worked.
Start ==
    LET device == load_device_settings(sys)
        amended == {k \in {"volume", "brightness"} \cap DOMAIN sys : sys[k] # device[k]}
    IN /\ ui.category = "OFF"
       /\ sys' = IF hw.card = "ok" THEN [k \in DOMAIN sys |-> IF k \in amended THEN device[k] ELSE sys[k]] ELSE sys
       /\ bak' = IF bak = None /\ hw.card = "ok" /\ amended # {} THEN sys ELSE bak
       /\ ui' = [NoScreen EXCEPT !.category = "START", !.volume = device.volume]
       /\ \E failed \in SUBSET {SysKeyOf[id] : id \in Panel} :
             LET refused == failed \cup {SysKeyOf[id] : id \in DisplayRows \ hw.display}
             IN /\ failed # {} => count.faults < MaxFaults
                /\ count' = [count EXCEPT !.faults = IF failed = {} THEN @ ELSE @ + 1]
                /\ hw' = [hw EXCEPT !.applied = [k \in Applied |-> IF k \in refused THEN None ELSE device[k]],
                                   !.refused = refused, !.wifi = device.wifi_enabled,
                                   !.volume = IF hw.audio THEN device.volume ELSE @]
       /\ level' = IF hw.audio THEN device.volume ELSE level
       /\ keys' = [NoKeys EXCEPT !.on = TRUE]
       /\ UNCHANGED <<fe, cpu, services, save, wrote, lost, destroyed, trouble>>

-----------------------------------------------------------------------------
(* The screen. *)

Idle == ui.category \in DOMAIN Rows /\ save = NoSave

\* A category is chosen in the START menu; its cursor is on the first row.
OpenSettings(category) ==
    /\ ui.category = "START" /\ save = NoSave
    /\ UNCHANGED <<card, hw, level, save, keys, wrote, lost, destroyed, trouble, count>>
    /\ ui' = open_settings_screen(category, Rows[category][1], ui)

\* UP and DOWN, as often as it takes to reach a row.
Move(id) ==
    /\ Idle /\ id \in Entries(ui.category) \ {ui.cursor}
    /\ ui' = [ui EXCEPT !.cursor = id, !.pending = None]
    /\ UNCHANGED <<card, hw, level, save, keys, wrote, lost, destroyed, trouble, count>>

\* B leaves a submenu for the row that opened it, and a category for the START menu.
Back ==
    LET opener == {id \in DOMAIN Submenu : Submenu[id] = ui.category}
        parent(id) == CHOOSE c \in DOMAIN Rows : id \in Entries(c)
    IN /\ Idle
       /\ UNCHANGED <<card, hw, level, save, keys, wrote, lost, destroyed, trouble, count>>
       /\ IF opener = {} THEN ui' = [NoScreen EXCEPT !.category = "START", !.volume = ui.volume,
                                                      !.system = ui.system, !.draft = ui.draft]
          ELSE \E id \in opener : ui' = open_settings_screen(parent(id), id, ui)

\* The five seconds in which a second A confirms a factory reset run out.
Expire ==
    /\ ui.fresh
    /\ ui' = [ui EXCEPT !.fresh = FALSE]
    /\ UNCHANGED <<card, hw, level, save, keys, wrote, lost, destroyed, trouble, count>>

\* A control was operated: LEFT and RIGHT disarm the factory reset.
Operate == Idle /\ Available(ui.cursor) /\ count.ops < MaxOps /\ count' = [count EXCEPT !.ops = @ + 1]

-----------------------------------------------------------------------------
(* The frontend file. *)

\* The keys a row's new value stands for.
Changes(id, value) ==
    CASE id = "graphic_theme_id" ->
             [k \in FeKeysOf[id] |-> IF k \in LookKeys THEN IF k = "graphic_transition_ms" THEN 0 ELSE "" ELSE value]
      [] id = "rom_scan_policy" -> [k \in FeKeysOf[id] |-> IF value THEN "on_enter" ELSE "manual"]
      [] OTHER -> [k \in FeKeysOf[id] |-> value]

\* Mutant of SaveFrontend: the file is written without having been loaded.
UnloadedSave(id, value) ==
    LET changes == Changes(id, value) IN
    /\ fe' = IF hw.card = "ok" THEN save_settings(Over(changes, init_frontend_settings)) ELSE fe
    /\ wrote' = IF hw.card = "ok" THEN [wrote EXCEPT !.fe = Over(changes, @)] ELSE wrote
    /\ UNCHANGED <<sys, bak, cpu, services, hw, level, save, keys, lost, destroyed, trouble>>
    /\ ui' = Reloaded([ui EXCEPT !.pending = None])

\* load_settings, the change, save_settings; the rows are loaded again when it was written.
SaveFrontend(id, value) ==
    LET changes == Changes(id, value)
        old == load_settings(fe)
    IN /\ fe' = IF hw.card = "ok" THEN save_settings(Over(changes, old)) ELSE fe
       /\ wrote' = IF hw.card = "ok" THEN [wrote EXCEPT !.fe = Over(changes, @)] ELSE wrote
       /\ UNCHANGED <<sys, bak, cpu, services, hw, level, save, keys, lost, destroyed, trouble>>
       /\ ui' = IF hw.card = "ok" THEN Reloaded([ui EXCEPT !.pending = None]) ELSE [ui EXCEPT !.pending = None]

-----------------------------------------------------------------------------
(* The system file: read, rename, then what is applied. *)

\* replace_json_key_value_atomic has read the file and kept the first backup of it.  An
\* empty file has no place for a key: the save fails.
BeginSave(id, value) ==
    /\ bak' = IF bak = None /\ hw.card = "ok" /\ sys # << >> THEN sys ELSE bak
    /\ save' = IF sys = << >> THEN NoSave
               ELSE [id |-> id, value |-> value, copy |-> sys, raced |-> {}, step |-> "rename"]
    /\ ui' = [ui EXCEPT !.pending = None]
    /\ UNCHANGED <<sys, fe, cpu, services, level, keys, wrote, lost, destroyed, trouble>>

\* The keys on which two states of the file differ.
Differ(f, g) ==
    {k \in DOMAIN f \cup DOMAIN g : k \notin DOMAIN f \/ k \notin DOMAIN g \/ f[k] # g[k]}

\* A writer that holds a copy of the file, after somebody else replaced the file.
Raced(writer) == [writer EXCEPT !.raced = @ \cup Differ(sys, sys')]

\* Mutant of Rename: the value is applied although it could not be saved.
UncheckedRename ==
    LET key == SysKeyOf[save.id]
        after == CASE save.id \in {"system_volume", "system_audio_output"} -> "apply" [] OTHER -> "finish"
    IN /\ save.step = "rename"
       /\ save' = [save EXCEPT !.step = after]
       /\ sys' = IF hw.card = "ok" THEN With(save.copy, key, save.value) ELSE sys
       /\ wrote' = IF hw.card = "ok" THEN [wrote EXCEPT !.sys = With(@, key, save.value)] ELSE wrote
       /\ destroyed' = IF hw.card = "ok" THEN destroyed \ {key} ELSE destroyed
       /\ lost' = IF hw.card = "ok" THEN (lost \cup save.raced) \ {key} ELSE lost
       /\ keys' = IF keys.job = "p_move" THEN Raced(keys) ELSE keys
       /\ UNCHANGED <<bak, fe, cpu, services, hw, level, ui, trouble, count>>

\* Its new text replaces the file: whatever was saved since the read is gone.
Rename ==
    LET key == SysKeyOf[save.id]
        after == CASE save.id \in {"system_volume", "system_audio_output"} -> "apply" [] OTHER -> "finish"
    IN /\ save.step = "rename"
       /\ IF hw.card = "ok"
          THEN /\ sys' = With(save.copy, key, save.value)
               /\ wrote' = [wrote EXCEPT !.sys = With(@, key, save.value)]
               /\ lost' = (lost \cup save.raced) \ {key}
               /\ destroyed' = destroyed \ {key}
               /\ keys' = IF keys.job = "p_move" THEN Raced(keys) ELSE keys
               /\ save' = [save EXCEPT !.step = after]
          ELSE save' = NoSave /\ UNCHANGED <<sys, wrote, lost, destroyed, keys>>
       /\ UNCHANGED <<bak, fe, cpu, services, hw, level, ui, trouble, count>>

\* What the frontend hands to the volume helper: the value just saved or, after a change
\* of the output, the volume it has had in memory since the rows were loaded.
VolumeToApply == IF save.id = "system_volume" THEN save.value ELSE ui.volume

\* The first half of the helper's command: the mixer.  Without audio a volume row is still
\* loaded again; a change of the output returns first.
Apply ==
    /\ save.step = "apply"
    /\ IF hw.audio
       THEN /\ hw' = [hw EXCEPT !.volume = VolumeToApply]
            /\ save' = [save EXCEPT !.step = "record"]
            /\ trouble' = (trouble \/ keys.job # "idle" \/ VolumeToApply # read_persisted)
            /\ UNCHANGED ui
       ELSE /\ save' = NoSave /\ trouble' = TRUE /\ UNCHANGED hw
            /\ ui' = IF save.id = "system_volume"
                     THEN update_settings_entries_after_save(fe, sys, cpu, services, ui)
                     ELSE [ui EXCEPT !.stale = @ \cup {save.id}]
    /\ UNCHANGED <<card, level, keys, wrote, lost, destroyed, count>>

\* The second half: the level in force is recorded, and the rows are loaded again.
Record ==
    /\ save.step = "record"
    /\ level' = VolumeToApply
    /\ trouble' = (trouble \/ keys.job # "idle")
    /\ save' = NoSave
    /\ UNCHANGED <<card, hw, keys, wrote, lost, destroyed, count>>
    /\ ui' = Reloaded(ui)

\* Mutant of Finish: the rows are not loaded again after the save.
StaleFinish ==
    /\ save.step = "finish" /\ save' = NoSave
    /\ hw' = IF SysKeyOf[save.id] \in Applied THEN [hw EXCEPT !.applied[SysKeyOf[save.id]] = save.value] ELSE hw
    /\ UNCHANGED <<card, level, ui, keys, wrote, lost, destroyed, trouble, count>>

\* The other keys are applied by the frontend itself.  A backend of the display may refuse the
\* value, or take it and fail to say so: the screen then says that the setting is saved and not
\* applied.  The clock and Wi-Fi are set by helpers that may fail: a manual time keeps its draft
\* and its rows.
Finish ==
    LET key == SysKeyOf[save.id] IN
    /\ save.step = "finish" /\ save' = NoSave
    /\ UNCHANGED <<card, level, keys, wrote, lost, destroyed, trouble, count>>
    /\ \E ok \in BOOLEAN :
        /\ hw' \in CASE key \in DisplayKeys /\ ~ok ->
                           {[hw EXCEPT !.applied[key] = v, !.refused = @ \cup {key}] : v \in {hw.applied[key], save.value}}
                      [] key \in Applied /\ (ok \/ key \notin DisplayKeys) ->
                           {[hw EXCEPT !.applied[key] = save.value, !.refused = @ \ {key}]}
                      [] key = "wifi_enabled" /\ save.value = TRUE -> {[hw EXCEPT !.wifi = ok]}
                      [] OTHER -> {hw}
        /\ ui' = CASE save.id = "system_manual_time_apply" /\ ~ok -> ui
                   [] save.id = "system_timezone" \/ (save.id = "system_manual_time_apply" /\ ok) ->
                          Reloaded([ui EXCEPT !.draft = Today])
                   [] OTHER -> Reloaded(ui)

-----------------------------------------------------------------------------
(* The keys of the pad on a row. *)

\* A control that only changes what the frontend has in memory.
Draft(u) ==
    /\ UNCHANGED <<card, hw, level, save, keys, wrote, lost, destroyed, trouble>>
    /\ ui' = Reloaded([u EXCEPT !.pending = None])

\* plumos-text-ui core system: the CPU policy of the system on the screen.
save_performance_cpu_policy(policy) ==
    /\ cpu' = IF hw.card = "ok" THEN [cpu EXCEPT ![ui.system] = policy] ELSE cpu
    /\ UNCHANGED <<sys, bak, fe, services, hw, level, save, keys, wrote, lost, destroyed, trouble>>
    /\ ui' = IF hw.card = "ok" THEN Reloaded([ui EXCEPT !.pending = None]) ELSE [ui EXCEPT !.pending = None]

save_performance_system_choice(direction) == Draft([ui EXCEPT !.system = Cycled(Systems, @, direction)])

save_graphic_theme_choice(direction) ==
    /\ load_graphic_theme_choices # << >>
    /\ SaveFrontend("graphic_theme_id",
                    Cycled(load_graphic_theme_choices, load_settings(fe).graphic_theme_id, direction))

\* LEFT and RIGHT on a choice, from the value the row shows.
save_setting_choice(direction) ==
    LET id == ui.cursor
        next == Cycled(setting_choices[id], ui.shown[id], direction)
    IN /\ Operate /\ setting_control_type_for_id(id) = "CHOICE"
       /\ CASE id = "performance_system" -> save_performance_system_choice(direction)
            [] id = "performance_cpu_policy" ->
                   save_performance_cpu_policy(Cycled(CpuPresets, load_performance_core_state(cpu, ui.system), direction))
            [] id = "graphic_theme_id" -> save_graphic_theme_choice(direction)
            [] id \in DOMAIN SysKeyOf -> BeginSave(id, next) /\ UNCHANGED hw
            [] OTHER -> SaveFrontend(id, next)

\* The draft of the manual time is kept a date.
save_manual_time_number(id, direction) ==
    Draft([ui EXCEPT !.draft = clamp_manual_time_fields([@ EXCEPT ![ManualFields[id]] = @ + direction])])

\* LEFT and RIGHT on a number, from the value the row shows; N/A reads as zero.
save_setting_number(direction) ==
    LET id == ui.cursor
        range == NumberRange[id]
        shown == IF ui.shown[id] = None THEN 0 ELSE ui.shown[id]
        next == Clamp(shown + direction * range[3], range[1], range[2])
    IN /\ Operate /\ setting_control_type_for_id(id) = "NUMBER"
       /\ system_number_setting_runtime_available(id)
       /\ CASE id \in DOMAIN ManualFields -> save_manual_time_number(id, direction)
            [] id \in DOMAIN SysKeyOf -> BeginSave(id, next) /\ UNCHANGED hw
            [] OTHER -> SaveFrontend(id, next)

\* A service is started or stopped by its helper, which keeps the setting.
run_network_service_control(id, next) ==
    /\ UNCHANGED <<sys, bak, fe, cpu, hw, level, save, keys, wrote, lost, destroyed, trouble>>
    /\ \E ok \in BOOLEAN : services' = IF ok THEN [services EXCEPT ![id] = next] ELSE services
    /\ ui' = Reloaded(ui)

\* Wi-Fi is saved and then switched on, but switched off and then saved.
run_network_wifi_control(enable) ==
    \E ok \in BOOLEAN :
        IF enable \/ ok
        THEN BeginSave("network_wifi_enabled", enable) /\ hw' = [hw EXCEPT !.wifi = @ /\ enable]
        ELSE UNCHANGED <<card, hw, level, ui, save, keys, wrote, lost, destroyed, trouble>>

\* A on a check box.
save_setting_bool ==
    LET id == ui.cursor
        next == ~ui.shown[id]
    IN /\ Operate /\ setting_control_type_for_id(id) = "CHECKBOX"
       /\ CASE id \in ServiceRows -> run_network_service_control(id, next)
            [] id = "network_wifi_enabled" -> run_network_wifi_control(next)
            [] id \in DOMAIN SysKeyOf \ {"network_wifi_enabled"} -> BeginSave(id, next) /\ UNCHANGED hw
            [] OTHER -> SaveFrontend(id, next)

\* A on a row that opens a submenu; the manual time starts from the clock.
OpenSubmenu ==
    LET id == ui.cursor IN
    /\ Idle /\ Available(id) /\ id \in DOMAIN Submenu
    /\ UNCHANGED <<card, hw, level, save, keys, wrote, lost, destroyed, trouble, count>>
    /\ ui' = open_settings_screen(Submenu[id], Rows[Submenu[id]][1],
                IF id = "system_manual_time" THEN [ui EXCEPT !.draft = Today] ELSE ui)

\* A factory reset runs when A is pressed again on the same row within five seconds.
confirm_or_run_factory_reset(id) ==
    /\ ui' = IF ui.pending = id /\ ui.fresh THEN [ui EXCEPT !.pending = None, !.fresh = FALSE]
             ELSE [ui EXCEPT !.pending = id, !.fresh = TRUE]
    /\ UNCHANGED <<card, hw, level, save, keys, wrote, lost, destroyed, trouble>>

\* The clock is set by hand: automatic time is saved as off before anything else.
apply_manual_system_time == BeginSave("system_manual_time_apply", FALSE) /\ UNCHANGED hw

\* The clock is synchronised by its helper, in either case the rows are loaded again.
sync_time_now == Draft(ui)

\* A on the rows that do something else.
RunRow ==
    LET id == ui.cursor IN
    /\ Operate /\ setting_control_type_for_id(id) = "ACTION" /\ id \notin DOMAIN Submenu
    /\ CASE id = "system_manual_time_apply" -> apply_manual_system_time
         [] id = "system_sync_now" -> sync_time_now
         [] id = "performance_clear_cpu_override" -> save_performance_cpu_policy(None)
         [] id \in ResetRows -> confirm_or_run_factory_reset(id)

-----------------------------------------------------------------------------
(* The service of the volume keys (plumos_bubble_volume_keys.c) and the    *)
(* helper it runs (plumos-volume-control), one command at a time.          *)

\* A key goes down, or is held long enough to repeat.
KeyDown(direction) ==
    /\ keys.on /\ keys.job = "idle" /\ count.ops < MaxOps
    /\ keys' = [keys EXCEPT !.held = direction, !.job = "set",
                           !.target = Clamp(read_runtime + direction, 0, VOLUME_MAX)]
    /\ count' = [count EXCEPT !.ops = @ + 1]
    /\ UNCHANGED <<card, hw, level, ui, save, wrote, lost, destroyed, trouble>>

KeyUp ==
    /\ keys.on /\ keys.job = "idle" /\ keys.held # 0
    /\ keys' = [keys EXCEPT !.held = 0]
    /\ UNCHANGED <<card, hw, level, ui, save, wrote, lost, destroyed, trouble, count>>

\* The helper's apply, for a key (set, record) and for a save of the level (p_set, p_record).
HelperSet ==
    /\ keys.job \in {"set", "p_set"}
    /\ hw' = IF hw.audio THEN [hw EXCEPT !.volume = keys.target] ELSE hw
    /\ keys' = IF ~hw.audio THEN [keys EXCEPT !.job = "idle", !.due = @ /\ keys.job = "set"]
               ELSE [keys EXCEPT !.job = IF @ = "set" THEN "record" ELSE "p_record"]
    /\ UNCHANGED <<card, level, ui, save, wrote, lost, destroyed, trouble, count>>

HelperRecord ==
    /\ keys.job \in {"record", "p_record"}
    /\ level' = keys.target
    /\ keys' = [keys EXCEPT !.job = "idle", !.pending = (keys.job = "record"), !.due = FALSE]
    /\ UNCHANGED <<card, hw, ui, save, wrote, lost, destroyed, trouble, count>>

\* The delay since the last change has passed.
PersistDue ==
    /\ keys.on /\ keys.job = "idle" /\ keys.pending /\ ~keys.due /\ keys.held = 0
    /\ keys' = [keys EXCEPT !.due = TRUE]
    /\ UNCHANGED <<card, hw, level, ui, save, wrote, lost, destroyed, trouble, count>>

\* Mutant of Persist: the saved volume is saved again instead of the level in force.
PersistSaved ==
    /\ keys.on /\ keys.job = "idle" /\ keys.due
    /\ keys' = [keys EXCEPT !.job = "p_move", !.target = read_persisted, !.copy = sys, !.raced = {}]
    /\ UNCHANGED <<card, hw, level, ui, save, wrote, lost, destroyed, trouble, count>>

\* persist-runtime reads the level in force and the file; so does the last one, when the
\* service is told to stop with a change not yet saved.
Persist ==
    /\ keys.on /\ keys.job = "idle" /\ keys.due
    /\ keys' = [keys EXCEPT !.job = "p_move", !.target = read_runtime, !.copy = sys, !.raced = {}]
    /\ UNCHANGED <<card, hw, level, ui, save, wrote, lost, destroyed, trouble, count>>

Stop ==
    /\ keys.on /\ keys.job = "idle" /\ count.faults < MaxFaults
    /\ keys' = IF keys.pending
               THEN [keys EXCEPT !.on = FALSE, !.job = "p_move", !.target = read_runtime, !.copy = sys, !.raced = {}]
               ELSE [keys EXCEPT !.on = FALSE]
    /\ count' = [count EXCEPT !.faults = @ + 1]
    /\ UNCHANGED <<card, hw, level, ui, save, wrote, lost, destroyed, trouble>>

\* The copy with the new volume is moved over the file; a file without a volume is replaced
\* by one that holds nothing else.  A full card either refuses to create the copy or leaves it
\* empty, and it is moved all the same.
PersistMove ==
    LET whole == "volume" \in DOMAIN keys.copy
        written == With(IF whole THEN keys.copy ELSE << >>, "volume", keys.target)
        others == DOMAIN sys \ {"volume"}
        touched == {id \in DOMAIN SysKeyOf : SysKeyOf[id] \in Differ(sys, sys')}
    IN /\ keys.job = "p_move"
       /\ keys' = [keys EXCEPT !.job = "p_set", !.copy = << >>, !.raced = {}]
       /\ IF hw.card = "ok"
          THEN /\ sys' = written
               /\ wrote' = [wrote EXCEPT !.sys = With(@, "volume", keys.target)]
               /\ lost' = (lost \cup keys.raced) \ {"volume"}
               /\ destroyed' = (IF whole THEN destroyed ELSE destroyed \cup others) \ {"volume"}
               /\ UNCHANGED trouble
          ELSE /\ sys' \in {sys, << >>}
               /\ destroyed' = destroyed \cup (DOMAIN sys \ DOMAIN sys')
               /\ trouble' = TRUE
               /\ UNCHANGED <<wrote, lost>>
       /\ save' = IF save = NoSave THEN NoSave ELSE Raced(save)
       /\ ui' = [ui EXCEPT !.stale = @ \cup touched]
       /\ UNCHANGED <<bak, fe, cpu, services, hw, level, count>>

-----------------------------------------------------------------------------
(* The environment. *)

AudioFails ==
    /\ hw.audio /\ ui.category # "OFF" /\ count.faults < MaxFaults
    /\ hw' = [hw EXCEPT !.audio = FALSE] /\ count' = [count EXCEPT !.faults = @ + 1]
    /\ UNCHANGED <<card, level, ui, save, keys, wrote, lost, destroyed, trouble>>

AudioReturns ==
    /\ ~hw.audio
    /\ hw' = [hw EXCEPT !.audio = TRUE]
    /\ UNCHANGED <<card, level, ui, save, keys, wrote, lost, destroyed, trouble, count>>

\* The backend of a display row no longer answers.
DisplayFails(id) ==
    /\ id \in hw.display /\ ui.category # "OFF" /\ count.faults < MaxFaults
    /\ hw' = [hw EXCEPT !.display = @ \ {id}] /\ count' = [count EXCEPT !.faults = @ + 1]
    /\ UNCHANGED <<card, level, ui, save, keys, wrote, lost, destroyed, trouble>>

DisplayReturns ==
    /\ hw.display # Panel
    /\ hw' = [hw EXCEPT !.display = Panel]
    /\ UNCHANGED <<card, level, ui, save, keys, wrote, lost, destroyed, trouble, count>>

CardFills ==
    /\ hw.card = "ok" /\ ui.category # "OFF" /\ count.faults < MaxFaults
    /\ hw' = [hw EXCEPT !.card = "full"] /\ count' = [count EXCEPT !.faults = @ + 1]
    /\ UNCHANGED <<card, level, ui, save, keys, wrote, lost, destroyed, trouble>>

CardFreed ==
    /\ hw.card = "full"
    /\ hw' = [hw EXCEPT !.card = "ok"]
    /\ UNCHANGED <<card, level, ui, save, keys, wrote, lost, destroyed, trouble, count>>

\* Power is lost: only the card keeps what it has.
Cut ==
    /\ ui.category # "OFF" /\ count.faults < MaxFaults
    /\ ui' = NoScreen /\ save' = NoSave /\ keys' = NoKeys /\ level' = None /\ trouble' = FALSE
    /\ hw' = [hw EXCEPT !.audio = TRUE, !.display = Panel, !.volume = None, !.wifi = FALSE,
                        !.applied = None, !.refused = {}]
    /\ count' = [count EXCEPT !.faults = @ + 1]
    /\ UNCHANGED <<card, wrote, lost, destroyed>>

Direction == {-1, 1}
SaveSteps == Rename \/ Apply \/ Record \/ Finish
HelperSteps == HelperSet \/ HelperRecord \/ PersistMove \/ PersistDue \/ Persist

Next ==
    \/ Start \/ Back \/ Expire \/ save_setting_bool \/ OpenSubmenu \/ RunRow
    \/ Rename \/ Apply \/ Record \/ Finish
    \/ HelperSet \/ HelperRecord \/ PersistMove \/ PersistDue \/ Persist \/ Stop \/ KeyUp
    \/ AudioFails \/ AudioReturns \/ DisplayReturns \/ CardFills \/ CardFreed \/ Cut
    \/ \E c \in MenuCategories : OpenSettings(c)
    \/ \E id \in Panel : DisplayFails(id)
    \/ \E id \in Touch : Move(id)
    \/ \E d \in Direction : save_setting_choice(d) \/ save_setting_number(d) \/ KeyDown(d)

\* Processes that are running go on, and so does the sound server after a failure.
Spec == Init /\ [][Next]_vars /\ WF_vars(SaveSteps) /\ WF_vars(HelperSteps) /\ WF_vars(AudioReturns)

-----------------------------------------------------------------------------
(* What the settings promise. *)

\* The keys of the system file that no longer hold what was saved for them.
Gone == lost \cup destroyed

\* Every key holds the value last saved for it, in both files: saving one setting never
\* disturbs another.  Excepted are, in the system file, the keys the other program changed
\* between a save's read and its rename, which the save puts back (lost), and all keys when
\* the volume helper moves an empty copy over the file, the card being full, or writes a file
\* of its own because its copy has no volume (destroyed).
LastSaveStands ==
    /\ \A k \in DOMAIN wrote.fe : fe[k] = wrote.fe[k]
    /\ \A k \in DOMAIN wrote.sys \ Gone : k \in DOMAIN sys /\ sys[k] = wrote.sys[k]

\* While no save is under way every row shows what the files say, so that LEFT and RIGHT
\* start from it: all but the rows whose key the volume keys changed since, a number whose
\* backend did not answer, and an output whose change could not be applied.
ShownIsSaved ==
    Idle => \A id \in DOMAIN ui.shown \ ui.stale :
               \/ ui.shown[id] = Value(id, fe, sys, cpu, services, ui)
               \/ ui.shown[id] = None /\ id \in DisplayRows \cup {"system_volume", "system_display_color"}

\* What the frontend applies to the hardware is what is saved, and the radio is never on
\* while the file says Wi-Fi is off, whatever write fails and wherever power is cut.  Excepted
\* are the values a backend of the display refused, at the start or after the save (refused),
\* and the keys whose saved value a racing save put back or a broken copy destroyed (Gone),
\* where the hardware keeps what was saved and the file does not.
HardwareFollowsFile ==
    /\ (ui.category # "OFF" /\ save = NoSave) =>
            \A k \in Applied \ (Gone \cup hw.refused) : hw.applied[k] = load_device_settings(sys)[k]
    /\ (hw.wifi /\ "wifi_enabled" \notin Gone) => load_device_settings(sys).wifi_enabled

\* After the last change of a volume key, once the key is up, the level it asked for is
\* saved: file, recorded level and mixer hold it, unless the file could not be written, a
\* save of the frontend is under way, a key is lost or destroyed, or a volume command of the
\* frontend's failed or overlapped.
KeysSettle ==
    \A v \in 0..VOLUME_MAX :
        (keys.on /\ keys.pending /\ keys.held = 0 /\ level = v) ~>
            \/ keys.held # 0 \/ ~keys.on \/ save # NoSave \/ trouble \/ Gone # {} \/ hw.card # "ok"
            \/ ~keys.pending /\ sys.volume = v /\ level = v /\ hw.volume = v

=============================================================================
