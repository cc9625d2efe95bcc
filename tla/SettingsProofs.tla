--------------------------- MODULE SettingsProofs ---------------------------
(***************************************************************************)
(* LastSaveStands, ShownIsSaved and HardwareFollowsFile for every content  *)
(* of the files, every theme and system, and any number of presses, saves  *)
(* of the volume keys, failures and power cuts.                            *)
(***************************************************************************)
EXTENDS Settings, WellFoundedInduction, TLAPS

USE DEF Gone

Numbers == {"volume", "brightness"}
Levels == 0..VOLUME_MAX

Fields == {"category", "cursor", "shown", "volume", "stale", "system", "draft", "pending", "fresh"}

\* The fields of the records, and which of them may occur together: a save is
\* of the row under the cursor, and nothing runs while the device is off.
Shape ==
    /\ DOMAIN ui = Fields
    /\ DOMAIN hw = {"audio", "display", "card", "volume", "wifi", "applied", "refused"}
    /\ DOMAIN keys = {"on", "held", "pending", "due", "job", "target", "copy", "raced"}
    /\ DOMAIN save = {"id", "value", "copy", "raced", "step"}
    /\ DOMAIN wrote = {"sys", "fe"}
    /\ save.step \in {"rename", "apply", "record", "finish"} \/ save = NoSave
    /\ keys.job \in {"idle", "set", "record", "p_move", "p_set", "p_record"}
    /\ ui.category \in DOMAIN Rows \cup {"OFF", "START"}
    /\ ui.category \in DOMAIN Rows =>
          DOMAIN ui.shown = Entries(ui.category) /\ ui.cursor \in Entries(ui.category)
    /\ ui.category = "OFF" => keys = NoKeys
    /\ ui.category # "OFF" => DOMAIN hw.applied = Applied
    /\ save # NoSave =>
          /\ ui.category \in DOMAIN Rows
          /\ save.id \in DOMAIN SysKeyOf \cap Entries(ui.category)
          /\ save.step \in {"apply", "record"} => save.id \in {"system_volume", "system_audio_output"}
          /\ save.step = "finish" => save.id \notin {"system_volume", "system_audio_output"}

\* The numbers the frontend puts right when it starts: whoever saves one saves it in range.
Ranges ==
    /\ \A k \in Numbers : /\ k \in DOMAIN sys => sys[k] \in Int
                          /\ k \in DOMAIN save.copy => save.copy[k] \in Int
                          /\ k \in DOMAIN keys.copy => keys.copy[k] \in Int
    /\ "volume" \in DOMAIN wrote.sys => wrote.sys["volume"] \in Levels
    /\ "brightness" \in DOMAIN wrote.sys => wrote.sys["brightness"] \in 1..20
    /\ save.id = "system_volume" => save.value \in Levels
    /\ save.id = "system_brightness" => save.value \in 1..20
    /\ save.id = "network_wifi_enabled" => save.value \in BOOLEAN
    /\ save.id = "system_timezone" => save.value \notin BadZones
    /\ keys.target \in Levels /\ ui.volume \in Levels /\ level \in Levels \cup {None}
    /\ "system_volume" \in DOMAIN ui.shown => ui.shown["system_volume"] \in Int \cup {None}
    /\ "system_brightness" \in DOMAIN ui.shown => ui.shown["system_brightness"] \in Int \cup {None}

\* Two states of the system file agree on a key.
Agree(s, t, k) == (k \in DOMAIN s <=> k \in DOMAIN t) /\ (k \in DOMAIN s => s[k] = t[k])

\* The two copies of the system file: each agrees with the file but for the keys that
\* changed since it was read.
Copies ==
    /\ save.step = "rename" => \A k : k \notin save.raced => Agree(save.copy, sys, k)
    /\ keys.job = "p_move" => \A k : k \notin keys.raced => Agree(keys.copy, sys, k)

FeKeys == DOMAIN init_frontend_settings

\* A frontend file that was saved once has all keys, in the form they are read back in,
\* and holds what was saved last.
Stored(f, last) ==
    /\ DOMAIN last \subseteq FeKeys
    /\ DOMAIN last # {} =>
          /\ DOMAIN f = FeKeys
          /\ f["theme_id"] = f["graphic_theme_id"]
          /\ f["boot_resume_mode"] \in {"off", "on", "recent"}
    /\ \A k \in DOMAIN last : f[k] = last[k]

FileInv ==
    /\ Stored(fe, wrote.fe)
    /\ \A k \in DOMAIN wrote.sys \ Gone : k \in DOMAIN sys /\ sys[k] = wrote.sys[k]

Saved(k) == load_device_settings(sys)[k]

\* The keys a save under way has in the file but not yet in force.
Unapplied == IF save.step = "finish" THEN {SysKeyOf[save.id]} ELSE {}

HardwareInv ==
    /\ ui.category # "OFF" => \A k \in Applied \ (Gone \cup hw.refused \cup Unapplied) : hw.applied[k] = Saved(k)
    /\ (hw.wifi /\ "wifi_enabled" \notin Gone) => Saved("wifi_enabled")
    /\ save.step = "finish" /\ SysKeyOf[save.id] \notin Gone => Saved(SysKeyOf[save.id]) = save.value
    /\ save.id = "network_wifi_enabled" /\ save.value = FALSE => ~hw.wifi

\* A row shows what the files say.
RowTrue(id, f, s, overrides, svc, u) ==
    \/ u.shown[id] = Value(id, f, s, overrides, svc, u)
    \/ u.shown[id] = None /\ id \in DisplayRows \cup {"system_volume", "system_display_color"}

\* The rows that show a key of the system file.
SysRows == DOMAIN SysKeyOf \ {"system_manual_time_apply"}

\* The rows that show what a save under way has just replaced.
Replaced == IF save.step \in {"apply", "record", "finish"}
            THEN {id \in SysRows : SysKeyOf[id] = SysKeyOf[save.id]} ELSE {}

ShownInv ==
    ui.category \in DOMAIN Rows =>
        /\ \A id \in DOMAIN ui.shown \ (ui.stale \cup Replaced) : RowTrue(id, fe, sys, cpu, services, ui)
        /\ save.step = "rename" =>
              \A id \in (DOMAIN ui.shown \cap DOMAIN SysKeyOf) \ ui.stale : Agree(save.copy, sys, SysKeyOf[id])

SettingsInv == Shape /\ Ranges /\ Copies /\ FileInv /\ HardwareInv /\ ShownInv

-----------------------------------------------------------------------------
(* Operators                                                               *)

LEMMA WithFun ==
    ASSUME NEW f, NEW k, NEW v
    PROVE  /\ DOMAIN With(f, k, v) = DOMAIN f \cup {k}
           /\ With(f, k, v)[k] = v
           /\ \A x \in DOMAIN f \ {k} : With(f, k, v)[x] = f[x]
  BY DEF With

LEMMA OverFun ==
    ASSUME NEW f, NEW g
    PROVE  /\ DOMAIN Over(f, g) = DOMAIN f \cup DOMAIN g
           /\ \A x \in DOMAIN f : Over(f, g)[x] = f[x]
           /\ \A x \in DOMAIN g \ DOMAIN f : Over(f, g)[x] = g[x]
  BY DEF Over

LEMMA ClampRange ==
    ASSUME NEW v \in Int, NEW low \in Int, NEW high \in Int, low <= high
    PROVE  /\ Clamp(v, low, high) \in low..high
           /\ v \in low..high => Clamp(v, low, high) = v
  BY DEF Clamp

\* Every non-empty set of naturals has a least element.
LEMMA LeastNat ==
    ASSUME NEW S \in SUBSET Nat, S # {}
    PROVE  \E x \in S : \A y \in S : x <= y
<1>1. PICK x \in S : \A y \in S : ~(<<y, x>> \in OpToRel(<, Nat))
  BY NatLessThanWellFounded, WFMin
<1>2. \A y \in S : ~(y < x)
  BY <1>1 DEF OpToRel
<1> QED
  BY <1>2

\* One of the twenty levels is nearest to a raw backlight value.
LEMMA NearestExists ==
    ASSUME NEW d \in [1..20 -> Nat]
    PROVE  \E b \in 1..20 : \A c \in 1..20 : d[b] < d[c] \/ (d[b] = d[c] /\ b <= c)
<1> DEFINE S == {d[b] : b \in 1..20}
<1>1. PICK m \in S : \A y \in S : m <= y
  <2>1. S \in SUBSET Nat /\ S # {} OBVIOUS
  <2> HIDE DEF S
  <2> QED BY <2>1, LeastNat
<1> DEFINE T == {b \in 1..20 : d[b] = m}
<1>2. PICK b \in T : \A c \in T : b <= c
  <2>1. T \in SUBSET Nat /\ T # {} BY <1>1
  <2> HIDE DEF T
  <2> QED BY <2>1, LeastNat
<1>3. \A c \in 1..20 : d[b] < d[c] \/ (d[b] = d[c] /\ b <= c)
  <2> TAKE c \in 1..20
  <2>1. d[b] = m /\ m <= d[c] /\ d[c] \in Nat BY <1>1, <1>2
  <2>2. CASE d[c] = m BY <2>1, <2>2, <1>2
  <2>3. CASE d[c] # m BY <2>1, <2>3
  <2> QED BY <2>2, <2>3
<1> QED BY <1>2, <1>3

LEMMA BrightnessRange ==
    ASSUME NEW v \in Int
    PROVE  /\ brightness_setting_from_stored(v) \in 1..20
           /\ v \in 1..20 => brightness_setting_from_stored(v) = v
<1>1. CASE v <= 20
  <2>1. brightness_setting_from_stored(v) = Clamp(v, 1, 20)
    BY <1>1, Zenon DEF brightness_setting_from_stored
  <2> QED BY <2>1, <1>1 DEF Clamp
<1>2. CASE ~(v <= 20)
  <2> DEFINE off(b) == Abs(v - brightness_raw_value[b])
             d == [b \in 1..20 |-> off(b)]
             Nearest(b) == \A c \in 1..20 : off(b) < off(c) \/ (off(b) = off(c) /\ b <= c)
  <2>1. \A b \in 1..20 : brightness_raw_value[b] \in Int
    BY DEF brightness_raw_value
  <2>2. d \in [1..20 -> Nat]
    BY <2>1 DEF Abs
  <2>3. \E b \in 1..20 : Nearest(b)
    <3> HIDE DEF off
    <3>1. PICK b \in 1..20 : \A c \in 1..20 : d[b] < d[c] \/ (d[b] = d[c] /\ b <= c)
      BY <2>2, NearestExists
    <3> QED BY <3>1
  <2>4. brightness_setting_from_stored(v) = CHOOSE b \in 1..20 : Nearest(b)
    BY <1>2 DEF brightness_setting_from_stored
  <2> HIDE DEF Nearest
  <2> QED BY <1>2, <2>3, <2>4
<1> QED BY <1>1, <1>2

DeviceKeys == DOMAIN init_device_settings

\* Each key of the settings in memory comes from that key of the file alone.
LEMMA DeviceOf ==
    ASSUME NEW s
    PROVE  /\ DOMAIN load_device_settings(s) = DeviceKeys
           /\ \A k \in DeviceKeys \ {"volume", "brightness", "audio_output", "timezone"} :
                 load_device_settings(s)[k] = Or(s, k, init_device_settings[k])
           /\ load_device_settings(s)["volume"] = Clamp(Or(s, "volume", 8), 0, VOLUME_MAX)
           /\ load_device_settings(s)["brightness"] = brightness_setting_from_stored(Or(s, "brightness", 10))
           /\ load_device_settings(s)["audio_output"] =
                 IF Or(s, "audio_output", "speaker") \in {"speaker", "headphone"}
                 THEN Or(s, "audio_output", "speaker") ELSE "speaker"
           /\ load_device_settings(s)["timezone"] =
                 IF Or(s, "timezone", "JST-9") \in BadZones THEN "JST-9" ELSE Or(s, "timezone", "JST-9")
  BY DEF load_device_settings, init_device_settings, DeviceKeys

LEMMA DeviceAgrees ==
    ASSUME NEW s, NEW t, NEW k \in DeviceKeys, Agree(s, t, k)
    PROVE  load_device_settings(s)[k] = load_device_settings(t)[k]
<1>1. \A d : Or(s, k, d) = Or(t, k, d)
  BY DEF Or, Agree
<1> QED
  BY <1>1, DeviceOf

LEMMA DeviceRange ==
    ASSUME NEW s, \A k \in Numbers : k \in DOMAIN s => s[k] \in Int
    PROVE  /\ load_device_settings(s)["volume"] \in Levels
           /\ load_device_settings(s)["brightness"] \in 1..20
           /\ "volume" \in DOMAIN s /\ s["volume"] \in Levels => load_device_settings(s)["volume"] = s["volume"]
           /\ "brightness" \in DOMAIN s /\ s["brightness"] \in 1..20 =>
                 load_device_settings(s)["brightness"] = s["brightness"]
<1>1. Or(s, "volume", 8) \in Int /\ Or(s, "brightness", 10) \in Int
  BY DEF Or, Numbers
<1>2. VOLUME_MAX \in Int /\ 0 <= VOLUME_MAX
  BY BoundsAreNatural
<1>3. /\ "volume" \in DOMAIN s => Or(s, "volume", 8) = s["volume"]
      /\ "brightness" \in DOMAIN s => Or(s, "brightness", 10) = s["brightness"]
  BY DEF Or
<1>4. load_device_settings(s)["volume"] = Clamp(Or(s, "volume", 8), 0, VOLUME_MAX)
  BY DeviceOf
<1>5. load_device_settings(s)["brightness"] = brightness_setting_from_stored(Or(s, "brightness", 10))
  BY DeviceOf
<1>6. /\ Clamp(Or(s, "volume", 8), 0, VOLUME_MAX) \in Levels
      /\ Or(s, "volume", 8) \in Levels => Clamp(Or(s, "volume", 8), 0, VOLUME_MAX) = Or(s, "volume", 8)
  BY <1>1, <1>2, BoundsAreNatural DEF Levels, Clamp
<1> QED
  BY <1>1, <1>3, <1>4, <1>5, <1>6, BrightnessRange

-----------------------------------------------------------------------------
(* Tables                                                                  *)

Pages == {"UI", "UI_THEME", "SYSTEM", "SYSTEM_DISPLAY_COLOR", "SYSTEM_TIME", "SYSTEM_TIME_MANUAL",
          "SYSTEM_INFORMATION", "SYSTEM_FACTORY_RESET", "NETWORK", "NETWORK_SERVICE",
          "NETWORK_INFORMATION", "PERFORMANCE"}

LEMMA RowsOf ==
    /\ DOMAIN Rows = Pages
    /\ Rows["UI"] = add_ui_settings_entries
    /\ Rows["UI_THEME"] = add_ui_theme_settings_entries
    /\ Rows["SYSTEM"] = add_system_settings_entries
    /\ Rows["SYSTEM_DISPLAY_COLOR"] = add_system_display_color_entries
    /\ Rows["SYSTEM_TIME"] = add_system_time_entries
    /\ Rows["SYSTEM_TIME_MANUAL"] = add_system_time_manual_entries
    /\ Rows["SYSTEM_INFORMATION"] = add_system_information_entries
    /\ Rows["SYSTEM_FACTORY_RESET"] = add_system_factory_reset_entries
    /\ Rows["NETWORK"] = add_network_settings_entries
    /\ Rows["NETWORK_SERVICE"] = add_network_service_entries
    /\ Rows["NETWORK_INFORMATION"] = add_network_information_entries
    /\ Rows["PERFORMANCE"] = add_performance_settings_entries
  BY DEF Rows, Pages

LEMMA ResetPage ==
    /\ 1 \in DOMAIN add_system_factory_reset_entries
    /\ \A n \in DOMAIN add_system_factory_reset_entries :
          add_system_factory_reset_entries[n] \in ResetRows \cup {"system_factory_reset_none"}
<1> DEFINE first == IF ResetTargets # {} THEN <<"system_factory_reset_all">> ELSE << >>
           middle == <<"system_factory_reset_ra", "system_factory_reset_pico", "system_factory_reset_sa">>
           last == IF ResetTargets = {} THEN <<"system_factory_reset_none">> ELSE << >>
           Names == ResetRows \cup {"system_factory_reset_none"}
<1>1. first \in Seq(Names) /\ middle \in Seq(Names) /\ last \in Seq(Names) /\ Len(middle) = 3
  <2>1. /\ <<"system_factory_reset_all">> \in Seq(Names) /\ <<"system_factory_reset_none">> \in Seq(Names)
        /\ << >> \in Seq(Names)
    BY DEF ResetRows
  <2>2. middle \in Seq(Names) /\ Len(middle) = 3
    BY DEF ResetRows
  <2> HIDE DEF Names
  <2> QED BY <2>1, <2>2
<1>2. add_system_factory_reset_entries = (first \o middle) \o last
  BY DEF add_system_factory_reset_entries
<1> HIDE DEF first, middle, last, Names
<1>0. ASSUME NEW a \in Seq(Names), NEW b \in Seq(Names)
      PROVE  a \o b \in Seq(Names) /\ Len(a \o b) = Len(a) + Len(b)
  OBVIOUS
<1>3. first \o middle \in Seq(Names) /\ Len(first \o middle) = Len(first) + 3
  BY <1>0, <1>1
<1>4. /\ add_system_factory_reset_entries \in Seq(Names)
      /\ Len(add_system_factory_reset_entries) = Len(first) + 3 + Len(last)
  BY <1>0, <1>1, <1>2, <1>3
<1> QED
  BY <1>1, <1>4 DEF Names

LEMMA FirstRow ==
    ASSUME NEW c \in DOMAIN Rows
    PROVE  Rows[c][1] \in Entries(c)
<1>1. 1 \in DOMAIN Rows[c]
  <2>1. CASE c = "SYSTEM_FACTORY_RESET"
    BY <2>1, RowsOf, ResetPage
  <2>2. CASE c # "SYSTEM_FACTORY_RESET"
    BY <2>2, RowsOf DEF Pages, add_ui_settings_entries, add_ui_theme_settings_entries,
       add_system_settings_entries, add_system_display_color_entries, add_system_time_entries,
       add_system_time_manual_entries, add_system_information_entries, add_network_settings_entries,
       add_network_service_entries, add_network_information_entries, add_performance_settings_entries
  <2> QED BY <2>1, <2>2
<1> QED
  BY <1>1 DEF Entries

LEMMA SubmenuPages ==
    ASSUME NEW id \in DOMAIN Submenu
    PROVE  Submenu[id] \in DOMAIN Rows /\ \E c \in DOMAIN Rows : id \in Entries(c)
<1>1. Submenu[id] \in DOMAIN Rows
  BY RowsOf DEF Submenu, Pages
<1>2. \/ id = add_ui_settings_entries[11] \/ id = add_network_settings_entries[3]
      \/ id = add_network_settings_entries[4] \/ id = add_system_settings_entries[6]
      \/ id = add_system_settings_entries[7] \/ id = add_system_time_entries[6]
      \/ id = add_system_settings_entries[12] \/ id = add_system_settings_entries[10]
  BY DEF Submenu, add_ui_settings_entries, add_network_settings_entries, add_system_settings_entries,
     add_system_time_entries
<1>3. /\ 11 \in DOMAIN add_ui_settings_entries /\ {3, 4} \subseteq DOMAIN add_network_settings_entries
      /\ {6, 7, 10, 12} \subseteq DOMAIN add_system_settings_entries /\ 6 \in DOMAIN add_system_time_entries
  BY DEF add_ui_settings_entries, add_network_settings_entries, add_system_settings_entries,
     add_system_time_entries
<1>4. {"UI", "NETWORK", "SYSTEM", "SYSTEM_TIME"} \subseteq DOMAIN Rows
  BY RowsOf DEF Pages
<1>5. \A c \in DOMAIN Rows : \A n \in DOMAIN Rows[c] : Rows[c][n] \in Entries(c)
  BY DEF Entries
<1>6. \/ id \in Entries("UI") \/ id \in Entries("NETWORK") \/ id \in Entries("SYSTEM")
      \/ id \in Entries("SYSTEM_TIME")
  BY <1>2, <1>3, <1>4, <1>5, RowsOf
<1> QED
  BY <1>1, <1>4, <1>6

\* No page shows both rows that stand for the automatic time.
LEMMA OneTimeRow ==
    ASSUME NEW c \in DOMAIN Rows, "system_manual_time_apply" \in Entries(c)
    PROVE  "system_automatic_time" \notin Entries(c)
<1>1. CASE c = "SYSTEM_FACTORY_RESET"
  BY <1>1, RowsOf, ResetPage DEF Entries, ResetRows
<1>2. CASE c = "SYSTEM_TIME_MANUAL"
  BY <1>2, RowsOf DEF Entries, add_system_time_manual_entries
<1>3. CASE c \notin {"SYSTEM_FACTORY_RESET", "SYSTEM_TIME_MANUAL"}
  BY <1>3, RowsOf DEF Entries, Pages, add_ui_settings_entries, add_ui_theme_settings_entries,
     add_system_settings_entries, add_system_display_color_entries, add_system_time_entries,
     add_system_information_entries, add_network_settings_entries,
     add_network_service_entries, add_network_information_entries, add_performance_settings_entries
<1> QED BY <1>1, <1>2, <1>3

LEMMA SysKeys ==
    /\ \A id \in DOMAIN SysKeyOf : SysKeyOf[id] \in DeviceKeys
    /\ \A id \in DOMAIN SysKeyOf :
          /\ SysKeyOf[id] = "volume" <=> id = "system_volume"
          /\ SysKeyOf[id] = "brightness" <=> id = "system_brightness"
          /\ SysKeyOf[id] = "audio_output" <=> id = "system_audio_output"
          /\ SysKeyOf[id] = "timezone" <=> id = "system_timezone"
          /\ SysKeyOf[id] = "wifi_enabled" <=> id = "network_wifi_enabled"
          /\ SysKeyOf[id] = "automatic_time" <=> id \in {"system_automatic_time", "system_manual_time_apply"}
    /\ {"volume", "brightness", "wifi_enabled"} \cup Applied \subseteq DeviceKeys
    /\ Applied \cap {"volume", "wifi_enabled", "audio_output", "automatic_time"} = {}
  BY DEF SysKeyOf, DeviceKeys, init_device_settings, Applied

-----------------------------------------------------------------------------
(* The frontend file                                                       *)

\* What load_settings makes of each key.
LEMMA LoadOf ==
    ASSUME NEW f
    PROVE  /\ DOMAIN load_settings(f) = FeKeys
           /\ \A k \in FeKeys \ {"boot_resume_mode", "graphic_theme_id"} :
                 load_settings(f)[k] = Or(f, k, init_frontend_settings[k])
           /\ load_settings(f)["boot_resume_mode"] = normalize_boot_resume_mode(Or(f, "boot_resume_mode", "off"))
           /\ load_settings(f)["graphic_theme_id"] = Or(f, "graphic_theme_id", Or(f, "theme_id", "default"))
  BY DEF load_settings, init_frontend_settings, FeKeys

LEMMA Normal ==
    ASSUME NEW mode
    PROVE  /\ normalize_boot_resume_mode(mode) \in {"off", "on", "recent"}
           /\ mode \in {"off", "on", "recent"} => normalize_boot_resume_mode(mode) = mode
  BY DEF normalize_boot_resume_mode

\* A file that was saved is read back as it is.
LEMMA LoadsStored ==
    ASSUME NEW f, NEW last, Stored(f, last), NEW k \in DOMAIN last
    PROVE  load_settings(f)[k] = last[k]
<1>1. k \in FeKeys /\ DOMAIN f = FeKeys /\ f[k] = last[k] BY DEF Stored
<1>2. \A d : Or(f, k, d) = last[k] BY <1>1 DEF Or
<1>3. CASE k = "boot_resume_mode" BY <1>1, <1>2, <1>3, LoadOf, Normal DEF Stored
<1>4. CASE k # "boot_resume_mode" BY <1>1, <1>2, <1>4, LoadOf
<1> QED BY <1>3, <1>4

\* The two names of the theme change together, and every change is of known keys.
LEMMA ChangesOf ==
    ASSUME NEW id \in DOMAIN FeKeysOf, NEW value
    PROVE  /\ DOMAIN Changes(id, value) \subseteq FeKeys
           /\ "theme_id" \in DOMAIN Changes(id, value) <=> "graphic_theme_id" \in DOMAIN Changes(id, value)
           /\ "theme_id" \in DOMAIN Changes(id, value) =>
                 Changes(id, value)["theme_id"] = Changes(id, value)["graphic_theme_id"]
           /\ "boot_resume_mode" \in DOMAIN Changes(id, value) =>
                 id = "boot_resume_mode" /\ Changes(id, value)["boot_resume_mode"] = value
<1>1. DOMAIN Changes(id, value) = FeKeysOf[id]
  BY DEF Changes
<1>2. FeKeysOf[id] \subseteq FeKeys
  BY DEF FeKeysOf, FeKeys, LookKeys, init_frontend_settings
<1>3. /\ "theme_id" \in FeKeysOf[id] <=> id = "graphic_theme_id"
      /\ "graphic_theme_id" \in FeKeysOf[id] <=> id = "graphic_theme_id"
      /\ "boot_resume_mode" \in FeKeysOf[id] <=> id = "boot_resume_mode"
  BY DEF FeKeysOf, LookKeys
<1>4. id = "graphic_theme_id" =>
         Changes(id, value)["theme_id"] = value /\ Changes(id, value)["graphic_theme_id"] = value
  BY <1>3 DEF Changes, LookKeys
<1>5. id = "boot_resume_mode" => Changes(id, value)["boot_resume_mode"] = value
  BY <1>3 DEF Changes
<1> QED BY <1>1, <1>2, <1>3, <1>4, <1>5

LEMMA StoredAgain ==
    ASSUME NEW f, NEW last, Stored(f, last), NEW id \in DOMAIN FeKeysOf, NEW value,
           id = "boot_resume_mode" => value \in {"off", "on", "recent"}
    PROVE  Stored(save_settings(Over(Changes(id, value), load_settings(f))), Over(Changes(id, value), last))
<1> DEFINE c == Changes(id, value)
           m == Over(c, load_settings(f))
           w == Over(c, last)
           g == save_settings(m)
<1>1. /\ DOMAIN c \subseteq FeKeys
      /\ "theme_id" \in DOMAIN c <=> "graphic_theme_id" \in DOMAIN c
      /\ "theme_id" \in DOMAIN c => c["theme_id"] = c["graphic_theme_id"]
      /\ "boot_resume_mode" \in DOMAIN c => c["boot_resume_mode"] \in {"off", "on", "recent"}
  BY ChangesOf
<1> HIDE DEF c
<1>2. /\ DOMAIN m = FeKeys
      /\ \A k \in DOMAIN c : m[k] = c[k]
      /\ \A k \in FeKeys \ DOMAIN c : m[k] = load_settings(f)[k]
  <2>1. DOMAIN load_settings(f) = FeKeys BY LoadOf
  <2> QED BY <1>1, <2>1, OverFun
<1>3. /\ DOMAIN w = DOMAIN c \cup DOMAIN last
      /\ \A k \in DOMAIN c : w[k] = c[k]
      /\ \A k \in DOMAIN last \ DOMAIN c : w[k] = last[k]
  BY OverFun
<1> HIDE DEF m, w
<1>4. "theme_id" \in FeKeys /\ "graphic_theme_id" \in FeKeys /\ "boot_resume_mode" \in FeKeys
  BY DEF FeKeys, init_frontend_settings
<1>5. /\ DOMAIN g = FeKeys
      /\ \A k \in FeKeys \ {"theme_id"} : g[k] = m[k]
      /\ g["theme_id"] = m["graphic_theme_id"]
  BY <1>2, <1>4 DEF save_settings
<1> HIDE DEF g
<1>6. g["boot_resume_mode"] \in {"off", "on", "recent"}
  BY <1>1, <1>2, <1>4, <1>5, LoadOf, Normal
<1>7. \A k \in DOMAIN last : load_settings(f)[k] = last[k] /\ k \in FeKeys
  BY LoadsStored DEF Stored
<1>8. "theme_id" \in DOMAIN last => load_settings(f)["graphic_theme_id"] = last["theme_id"]
  <2> SUFFICES ASSUME "theme_id" \in DOMAIN last PROVE load_settings(f)["graphic_theme_id"] = last["theme_id"]
    OBVIOUS
  <2>1. DOMAIN f = FeKeys /\ f["graphic_theme_id"] = last["theme_id"] BY DEF Stored
  <2> QED BY <2>1, <1>4, LoadOf DEF Or
<1>9. \A k \in DOMAIN w : g[k] = w[k]
  <2> SUFFICES ASSUME NEW k \in DOMAIN w PROVE g[k] = w[k]
    OBVIOUS
  <2>1. CASE k = "theme_id" BY <2>1, <1>1, <1>2, <1>3, <1>4, <1>5, <1>7, <1>8
  <2>2. CASE k # "theme_id" BY <2>2, <1>1, <1>2, <1>3, <1>5, <1>7
  <2> QED BY <2>1, <2>2
<1>10. DOMAIN w \subseteq FeKeys BY <1>1, <1>3, <1>7
<1>11. g["theme_id"] = g["graphic_theme_id"] BY <1>4, <1>5
<1> QED BY <1>5, <1>6, <1>9, <1>10, <1>11 DEF Stored, c, m, w, g

-----------------------------------------------------------------------------
(* The rows                                                                *)

\* A row's value depends on one key of the system file at most, and on the drafts.
LEMMA ValueAgrees ==
    ASSUME NEW id, NEW f, NEW s, NEW t, NEW o, NEW svc, NEW u, NEW v,
           u.system = v.system, u.draft = v.draft,
           id \in SysRows => Agree(s, t, SysKeyOf[id])
    PROVE  Value(id, f, s, o, svc, u) = Value(id, f, t, o, svc, v)
<1>1. id \in SysRows => load_device_settings(s)[SysKeyOf[id]] = load_device_settings(t)[SysKeyOf[id]]
  BY SysKeys, DeviceAgrees DEF SysRows
<1> QED
  BY <1>1 DEF Value, SysRows

LEMMA RowAgrees ==
    ASSUME NEW id, NEW f, NEW s, NEW t, NEW o, NEW svc, NEW u, NEW v,
           u.system = v.system, u.draft = v.draft, u.shown = v.shown,
           id \in SysRows => Agree(s, t, SysKeyOf[id]), RowTrue(id, f, s, o, svc, u)
    PROVE  RowTrue(id, f, t, o, svc, v)
<1>1. Value(id, f, s, o, svc, u) = Value(id, f, t, o, svc, v)
  BY ValueAgrees
<1> QED
  BY <1>1 DEF RowTrue

LEMMA NumberRows ==
    ASSUME NEW f, NEW s, NEW o, NEW svc, NEW u
    PROVE  /\ Value("system_volume", f, s, o, svc, u) = load_device_settings(s)["volume"]
           /\ Value("system_brightness", f, s, o, svc, u) = load_device_settings(s)["brightness"]
           /\ Value("system_manual_time_apply", f, s, o, svc, u) = None
  BY DEF Value, FeKeysOf, SysKeyOf, ServiceRows, ManualFields

Typed(s) == \A k \in Numbers : k \in DOMAIN s => s[k] \in Int

\* The screen after its rows were loaded.
Loaded(f, s, o, svc, u, v) ==
    /\ DOMAIN v = Fields
    /\ v.category = u.category /\ v.cursor = u.cursor /\ v.system = u.system /\ v.draft = u.draft
    /\ v.stale = {}
    /\ v.volume \in Levels
    /\ DOMAIN v.shown = Entries(u.category)
    /\ \A id \in DOMAIN v.shown : RowTrue(id, f, s, o, svc, v)
    /\ "system_volume" \in DOMAIN v.shown => v.shown["system_volume"] \in Int \cup {None}
    /\ "system_brightness" \in DOMAIN v.shown => v.shown["system_brightness"] \in Int \cup {None}

LEMMA UpdateLoads ==
    ASSUME NEW f, NEW s, NEW o, NEW svc, NEW u, DOMAIN u = Fields, u.volume \in Levels, Typed(s)
    PROVE  Loaded(f, s, o, svc, u, update_settings_entries_after_save(f, s, o, svc, u))
<1> DEFINE v == update_settings_entries_after_save(f, s, o, svc, u)
           rows == load_settings_entries(u.category, f, s, o, svc, u)
<1>1. /\ DOMAIN v = Fields
      /\ v.category = u.category /\ v.cursor = u.cursor /\ v.system = u.system /\ v.draft = u.draft
      /\ v.stale = {} /\ v.shown = rows
      /\ v.volume \in {u.volume, load_device_settings(s).volume}
  BY DEF update_settings_entries_after_save, Fields
<1>2. load_device_settings(s)["volume"] \in Levels /\ load_device_settings(s)["brightness"] \in 1..20
  BY DeviceRange DEF Typed
<1>3. /\ DOMAIN rows = Entries(u.category)
      /\ \A id \in DOMAIN rows :
            \/ rows[id] = Value(id, f, s, o, svc, u)
            \/ rows[id] = None /\ id \in DisplayRows \cup {"system_volume", "system_display_color"}
  BY DEF load_settings_entries, Blank, system_number_setting_runtime_available
<1> HIDE DEF v, rows
<1>4. \A id \in DOMAIN v.shown : RowTrue(id, f, s, o, svc, v)
  <2> SUFFICES ASSUME NEW id \in DOMAIN v.shown PROVE RowTrue(id, f, s, o, svc, v)
    OBVIOUS
  <2>1. id \in SysRows => Agree(s, s, SysKeyOf[id])
    BY DEF Agree
  <2>2. Value(id, f, s, o, svc, u) = Value(id, f, s, o, svc, v)
    BY <1>1, <2>1, ValueAgrees
  <2> QED BY <1>1, <1>3, <2>2 DEF RowTrue
<1>5. "system_volume" \in DOMAIN v.shown => v.shown["system_volume"] \in Int \cup {None}
  BY <1>1, <1>2, <1>3, NumberRows DEF Levels
<1>6. "system_brightness" \in DOMAIN v.shown => v.shown["system_brightness"] \in Int \cup {None}
  BY <1>1, <1>2, <1>3, NumberRows
<1> QED BY <1>1, <1>2, <1>3, <1>4, <1>5, <1>6 DEF Loaded, v

-----------------------------------------------------------------------------
(* Steps of the screen                                                     *)

\* A screen that shows what the files say.
Screen(f, s, o, svc, v) ==
    /\ DOMAIN v = Fields
    /\ v.category \in DOMAIN Rows \cup {"START"}
    /\ v.volume \in Levels
    /\ v.category \in DOMAIN Rows =>
          /\ DOMAIN v.shown = Entries(v.category) /\ v.cursor \in Entries(v.category)
          /\ \A id \in DOMAIN v.shown \ v.stale : RowTrue(id, f, s, o, svc, v)
    /\ "system_volume" \in DOMAIN v.shown => v.shown["system_volume"] \in Int \cup {None}
    /\ "system_brightness" \in DOMAIN v.shown => v.shown["system_brightness"] \in Int \cup {None}

LEMMA LoadedScreen ==
    ASSUME NEW f, NEW s, NEW o, NEW svc, NEW u, NEW v, Loaded(f, s, o, svc, u, v),
           u.category \in DOMAIN Rows, u.cursor \in Entries(u.category)
    PROVE  Screen(f, s, o, svc, v)
  BY DEF Loaded, Screen

\* While no save is under way, a step that leaves the system file and the hardware alone
\* may do anything to the rest that keeps the screen true and the frontend file stored.
LEMMA ScreenStep ==
    ASSUME SettingsInv, save = NoSave, ui.category # "OFF",
           UNCHANGED <<sys, hw, level, save, keys, lost, destroyed>>, DOMAIN wrote' = {"sys", "fe"},
           wrote'.sys = wrote.sys, Stored(fe', wrote'.fe), Screen(fe', sys', cpu', services', ui')
    PROVE  SettingsInv'
<1> USE DEF SettingsInv
<1>0. save.step = "none" /\ save.id = ""
  BY DEF NoSave
<1>1. ui'.category # "OFF"
  BY RowsOf DEF Screen, Pages
<1>2. Shape' BY <1>1 DEF Shape, Screen
<1>3. Ranges' BY DEF Ranges, Screen
<1>4. Copies' BY DEF Copies
<1>5. FileInv' BY DEF FileInv
<1>6. HardwareInv' BY <1>0, <1>1 DEF HardwareInv, Saved, Unapplied
<1>7. ShownInv' BY <1>0 DEF ShownInv, Replaced, Screen
<1> QED BY <1>2, <1>3, <1>4, <1>5, <1>6, <1>7

LEMMA ReloadStep ==
    ASSUME SettingsInv, save = NoSave, ui.category # "OFF",
           UNCHANGED <<sys, hw, level, save, keys, lost, destroyed>>, DOMAIN wrote' = {"sys", "fe"},
           wrote'.sys = wrote.sys, Stored(fe', wrote'.fe),
           NEW u, DOMAIN u = Fields, u.volume \in Levels, u.category \in DOMAIN Rows,
           u.cursor \in Entries(u.category), ui' = Reloaded(u)
    PROVE  SettingsInv'
<1>1. Typed(sys')
  BY DEF SettingsInv, Ranges, Typed
<1>2. Loaded(fe', sys', cpu', services', u, ui')
  BY <1>1, UpdateLoads DEF Reloaded
<1>3. Screen(fe', sys', cpu', services', ui')
  BY <1>2, LoadedScreen
<1> QED
  BY <1>3, ScreenStep

\* The screen as it is, when it is left as it is.
LEMMA ScreenNow ==
    ASSUME SettingsInv, save = NoSave, ui.category # "OFF"
    PROVE  Screen(fe, sys, cpu, services, ui)
  BY DEF SettingsInv, Shape, Ranges, ShownInv, Replaced, NoSave, Screen

LEMMA StayStep ==
    ASSUME SettingsInv, save = NoSave, ui.category # "OFF",
           UNCHANGED <<card, hw, level, save, keys, wrote, lost, destroyed>>,
           DOMAIN ui' = Fields, ui'.cursor \in Entries(ui.category) \cup {ui.cursor},
           \A x \in Fields \ {"cursor", "pending", "fresh"} : ui'[x] = ui[x]
    PROVE  SettingsInv'
<1>1. Screen(fe, sys, cpu, services, ui)
  BY ScreenNow
<1>2. /\ ui'.category = ui.category /\ ui'.shown = ui.shown /\ ui'.volume = ui.volume
      /\ ui'.stale = ui.stale /\ ui'.system = ui.system /\ ui'.draft = ui.draft
  BY DEF Fields
<1>3. ASSUME NEW id, RowTrue(id, fe, sys, cpu, services, ui)
      PROVE  RowTrue(id, fe, sys, cpu, services, ui')
  BY <1>2, <1>3, RowAgrees DEF Agree
<1>4. Screen(fe, sys, cpu, services, ui')
  BY <1>1, <1>2, <1>3 DEF Screen
<1> QED
  BY <1>4, ScreenStep DEF card, SettingsInv, Shape, FileInv

LEMMA OpenSettingsStep == ASSUME SettingsInv, NEW c \in MenuCategories, OpenSettings(c) PROVE SettingsInv'
<1> DEFINE u == [ui EXCEPT !.category = c, !.cursor = Rows[c][1], !.pending = None, !.fresh = FALSE]
<1>1. c \in DOMAIN Rows BY RowsOf DEF MenuCategories, Pages
<1>2. DOMAIN u = Fields /\ u.volume \in Levels /\ u.category = c /\ u.cursor = Rows[c][1]
  BY DEF SettingsInv, Shape, Ranges, Fields
<1>3. ui' = Reloaded(u) BY DEF OpenSettings, open_settings_screen
<1> HIDE DEF u
<1> QED BY <1>1, <1>2, <1>3, FirstRow, ReloadStep DEF OpenSettings, card, SettingsInv, Shape, FileInv

LEMMA MoveStep == ASSUME SettingsInv, NEW id, Move(id) PROVE SettingsInv'
  BY StayStep, RowsOf DEF Move, Idle, Fields, Pages, SettingsInv, Shape

LEMMA OpenSubmenuStep == ASSUME SettingsInv, OpenSubmenu PROVE SettingsInv'
<1> DEFINE base == IF ui.cursor = "system_manual_time" THEN [ui EXCEPT !.draft = Today] ELSE ui
           c == Submenu[ui.cursor]
           u == [base EXCEPT !.category = c, !.cursor = Rows[c][1], !.pending = None, !.fresh = FALSE]
<1>1. c \in DOMAIN Rows BY SubmenuPages DEF OpenSubmenu
<1>2. DOMAIN base = Fields /\ base.volume \in Levels
  BY DEF SettingsInv, Shape, Ranges, Fields
<1>3. ui' = Reloaded(u) BY DEF OpenSubmenu, open_settings_screen
<1> HIDE DEF base, c
<1>4. DOMAIN u = Fields /\ u.volume \in Levels /\ u.category = c /\ u.cursor = Rows[c][1]
  BY <1>2 DEF Fields
<1> HIDE DEF u
<1>5. save = NoSave /\ ui.category # "OFF"
  BY RowsOf DEF OpenSubmenu, Idle, Pages
<1> QED BY <1>1, <1>3, <1>4, <1>5, FirstRow, ReloadStep DEF OpenSubmenu, card, SettingsInv, Shape, FileInv

LEMMA BackStep == ASSUME SettingsInv, Back PROVE SettingsInv'
<1> DEFINE opener == {id \in DOMAIN Submenu : Submenu[id] = ui.category}
           parent(id) == CHOOSE c \in DOMAIN Rows : id \in Entries(c)
<1>1. save = NoSave /\ ui.category # "OFF"
  BY RowsOf DEF Back, Idle, Pages
<1>2. CASE opener = {}
  <2>1. ui' = [NoScreen EXCEPT !.category = "START", !.volume = ui.volume, !.system = ui.system, !.draft = ui.draft]
    BY <1>2 DEF Back
  <2>2. /\ DOMAIN ui' = Fields /\ ui'.category = "START" /\ ui'.volume = ui.volume /\ ui'.shown = << >>
    BY <2>1 DEF NoScreen, Fields
  <2>3. Screen(fe, sys, cpu, services, ui')
    BY <2>2, RowsOf DEF Screen, Pages, SettingsInv, Ranges
  <2> QED BY <1>1, <2>3, ScreenStep DEF Back, card, SettingsInv, Shape, FileInv
<1>3. CASE opener # {}
  <2>1. PICK id \in opener : ui' = open_settings_screen(parent(id), id, ui)
    BY <1>3 DEF Back
  <2>2. parent(id) \in DOMAIN Rows /\ id \in Entries(parent(id))
    BY SubmenuPages
  <2> DEFINE u == [ui EXCEPT !.category = parent(id), !.cursor = id, !.pending = None, !.fresh = FALSE]
  <2>3. DOMAIN u = Fields /\ u.volume \in Levels /\ u.category = parent(id) /\ u.cursor = id
    BY DEF SettingsInv, Shape, Ranges, Fields
  <2>4. ui' = Reloaded(u) BY <2>1 DEF open_settings_screen
  <2> HIDE DEF u, parent
  <2> QED BY <1>1, <2>2, <2>3, <2>4, ReloadStep DEF Back, card, SettingsInv, Shape, FileInv
<1> QED BY <1>2, <1>3

-----------------------------------------------------------------------------
(* Steps of the controls                                                   *)

LEMMA DraftStep ==
    ASSUME SettingsInv, Idle, NEW u, DOMAIN u = Fields, Draft(u),
           u.volume = ui.volume, u.category = ui.category, u.cursor = ui.cursor
    PROVE  SettingsInv'
<1> DEFINE w == [u EXCEPT !.pending = None]
<1>1. DOMAIN w = Fields /\ w.volume = ui.volume /\ w.category = ui.category /\ w.cursor = ui.cursor
  BY DEF Fields
<1>2. ui' = Reloaded(w) BY DEF Draft
<1> HIDE DEF w
<1>3. ui.category \in DOMAIN Rows /\ ui.category # "OFF" /\ save = NoSave
  BY RowsOf DEF Idle, Pages
<1> QED
  BY <1>1, <1>2, <1>3, ReloadStep DEF Draft, card, SettingsInv, Shape, Ranges, FileInv

\* A step that reloads the screen, or leaves it when the card is full.
LEMMA PendingStep ==
    ASSUME SettingsInv, Idle, UNCHANGED <<sys, hw, level, save, keys, lost, destroyed>>, DOMAIN wrote' = {"sys", "fe"},
           wrote'.sys = wrote.sys, Stored(fe', wrote'.fe),
           \/ ui' = Reloaded([ui EXCEPT !.pending = None])
           \/ UNCHANGED <<fe, cpu, services, bak, wrote>> /\ ui' = [ui EXCEPT !.pending = None]
    PROVE  SettingsInv'
<1> DEFINE w == [ui EXCEPT !.pending = None]
<1>1. /\ DOMAIN w = Fields /\ w.volume = ui.volume /\ w.category = ui.category /\ w.cursor = ui.cursor
      /\ \A x \in Fields \ {"pending"} : w[x] = ui[x]
  BY DEF Fields, SettingsInv, Shape
<1>2. ui.category \in DOMAIN Rows /\ ui.category # "OFF" /\ save = NoSave
  BY RowsOf DEF Idle, Pages
<1>3. CASE ui' = Reloaded(w)
  <2> HIDE DEF w
  <2> QED BY <1>1, <1>2, <1>3, ReloadStep DEF SettingsInv, Shape, Ranges
<1>4. CASE UNCHANGED <<fe, cpu, services, bak, wrote>> /\ ui' = w
  <2> HIDE DEF w
  <2> QED BY <1>1, <1>2, <1>4, StayStep DEF card
<1> QED BY <1>3, <1>4

LEMMA CpuStep ==
    ASSUME SettingsInv, Idle, NEW policy, save_performance_cpu_policy(policy)
    PROVE  SettingsInv'
  BY PendingStep DEF save_performance_cpu_policy, SettingsInv, Shape, FileInv

LEMMA SaveFrontendStep ==
    ASSUME SettingsInv, Idle, NEW id \in DOMAIN FeKeysOf, NEW value, SaveFrontend(id, value),
           id = "boot_resume_mode" => value \in {"off", "on", "recent"}
    PROVE  SettingsInv'
<1>1. Stored(fe, wrote.fe) /\ DOMAIN wrote = {"sys", "fe"}
  BY DEF SettingsInv, FileInv, Shape
<1>2. CASE hw.card = "ok"
  <2>1. /\ fe' = save_settings(Over(Changes(id, value), load_settings(fe)))
        /\ wrote' = [wrote EXCEPT !.fe = Over(Changes(id, value), @)]
        /\ ui' = Reloaded([ui EXCEPT !.pending = None])
    BY <1>2 DEF SaveFrontend
  <2>2. DOMAIN wrote' = {"sys", "fe"} /\ wrote'.sys = wrote.sys /\ wrote'.fe = Over(Changes(id, value), wrote.fe)
    BY <1>1, <2>1
  <2>3. Stored(fe', wrote'.fe)
    BY <1>1, <2>1, <2>2, StoredAgain
  <2> QED BY <2>1, <2>2, <2>3, PendingStep DEF SaveFrontend
<1>3. CASE hw.card # "ok"
  <2>1. UNCHANGED <<fe, wrote, cpu, services, bak>> /\ ui' = [ui EXCEPT !.pending = None]
    BY <1>3 DEF SaveFrontend
  <2> QED BY <1>1, <2>1, PendingStep DEF SaveFrontend
<1> QED BY <1>2, <1>3

LEMMA ServiceStep ==
    ASSUME SettingsInv, Idle, NEW id, NEW next, run_network_service_control(id, next)
    PROVE  SettingsInv'
<1>1. ui.category \in DOMAIN Rows /\ ui.category # "OFF" /\ save = NoSave
  BY RowsOf DEF Idle, Pages
<1> QED
  BY <1>1, ReloadStep DEF run_network_service_control, SettingsInv, Shape, Ranges, FileInv

LEMMA ResetStep ==
    ASSUME SettingsInv, Idle, NEW id, confirm_or_run_factory_reset(id)
    PROVE  SettingsInv'
<1>1. ui.category # "OFF" /\ save = NoSave
  BY RowsOf DEF Idle, Pages
<1> QED
  BY <1>1, StayStep DEF confirm_or_run_factory_reset, SettingsInv, Shape, Fields

\* The file is read: the copy is the file.
LEMMA BeginSaveStep ==
    ASSUME SettingsInv, Idle, NEW id \in DOMAIN SysKeyOf \cap Entries(ui.category), NEW value, BeginSave(id, value),
           id = "system_volume" => value \in Levels, id = "system_brightness" => value \in 1..20,
           id = "system_timezone" => value \notin BadZones,
           DOMAIN hw' = DOMAIN hw, hw'.applied = hw.applied, hw'.refused = hw.refused, hw'.wifi => hw.wifi,
           id = "network_wifi_enabled" => value \in BOOLEAN,
           id = "network_wifi_enabled" /\ value = FALSE => ~hw'.wifi
    PROVE  SettingsInv'
<1>0. ui.category \in DOMAIN Rows /\ ui.category # "OFF" /\ save = NoSave
  BY RowsOf DEF Idle, Pages
<1>1. /\ DOMAIN ui' = Fields
      /\ \A x \in Fields \ {"pending"} : ui'[x] = ui[x]
  BY DEF BeginSave, Fields, SettingsInv, Shape
<1>2. /\ ui'.category = ui.category /\ ui'.shown = ui.shown /\ ui'.volume = ui.volume /\ ui'.cursor = ui.cursor
      /\ ui'.stale = ui.stale /\ ui'.system = ui.system /\ ui'.draft = ui.draft
  BY <1>1 DEF Fields
<1>4. UNCHANGED <<sys, fe, cpu, services, level, keys, wrote, lost, destroyed>>
  BY DEF BeginSave
<1>5. \/ save' = NoSave
      \/ /\ DOMAIN save' = {"id", "value", "copy", "raced", "step"}
         /\ save'.id = id /\ save'.value = value /\ save'.copy = sys /\ save'.raced = {} /\ save'.step = "rename"
  BY DEF BeginSave
<1>6. NoSave.step = "none" /\ NoSave.id = "" /\ NoSave.copy = << >> /\ DOMAIN NoSave = DOMAIN save
  BY <1>0 DEF NoSave
<1>7. ASSUME NEW row, RowTrue(row, fe, sys, cpu, services, ui)
      PROVE  RowTrue(row, fe, sys, cpu, services, ui')
  BY <1>2, <1>7, RowAgrees DEF Agree
<1> USE DEF SettingsInv
<1>8. Shape'
  <2>1. /\ DOMAIN save' = {"id", "value", "copy", "raced", "step"}
        /\ (save'.step = "rename" /\ save'.id = id) \/ save' = NoSave
    BY <1>0, <1>5, <1>6 DEF Shape
  <2>2. DOMAIN hw'.applied = DOMAIN hw.applied /\ ui.category \in DOMAIN Rows BY <1>0
  <2> QED BY <1>1, <1>2, <1>4, <2>1, <2>2 DEF Shape
<1>9. Ranges' BY <1>0, <1>2, <1>4, <1>5, <1>6 DEF Ranges
<1>10. Copies' BY <1>4, <1>5, <1>6 DEF Copies, Agree
<1>11. FileInv' BY <1>4 DEF FileInv
<1>12. HardwareInv'
  <2>1. \A k \in Applied \ (Gone \cup hw.refused) : hw.applied[k] = Saved(k)
    BY <1>0, <1>6 DEF HardwareInv, Unapplied
  <2>2. \A k : Saved(k)' = Saved(k)
    BY <1>4 DEF Saved
  <2>3. save'.step # "finish"
    BY <1>5, <1>6
  <2>4. (hw'.wifi /\ "wifi_enabled" \notin Gone') => Saved("wifi_enabled")'
    BY <1>4, <2>2 DEF HardwareInv
  <2>5. save'.id = "network_wifi_enabled" /\ save'.value = FALSE => ~hw'.wifi
    BY <1>5, <1>6
  <2> QED BY <1>4, <2>1, <2>2, <2>3, <2>4, <2>5 DEF HardwareInv
<1>13. ShownInv' BY <1>0, <1>2, <1>4, <1>5, <1>6, <1>7 DEF ShownInv, Replaced, Agree
<1> QED BY <1>8, <1>9, <1>10, <1>11, <1>12, <1>13

LEMMA PlainBeginSave ==
    ASSUME SettingsInv, Idle, NEW id \in DOMAIN SysKeyOf, id = ui.cursor \/ id \in Entries(ui.category),
           NEW value, BeginSave(id, value), UNCHANGED hw, id # "network_wifi_enabled",
           id = "system_volume" => value \in Levels, id = "system_brightness" => value \in 1..20,
           id = "system_timezone" => value \notin BadZones
    PROVE  SettingsInv'
<1>1. id \in Entries(ui.category)
  BY DEF SettingsInv, Shape, Idle
<1> QED
  BY <1>1, BeginSaveStep

\* LEFT and RIGHT stay among the choices.
LEMMA CycledBoot ==
    ASSUME NEW value, NEW d \in Direction
    PROVE  Cycled(setting_choices["boot_resume_mode"], value, d) \in {"off", "on", "recent"}
<1> DEFINE choices == <<"off", "on", "recent">>
           p == Place(choices, value)
<1>1. setting_choices["boot_resume_mode"] = choices
  BY DEF setting_choices
<1>2. p \in 1..3
  <2>1. DOMAIN choices = 1..3 OBVIOUS
  <2> HIDE DEF choices
  <2> QED BY <2>1 DEF Place
<1>3. ((p - 1 + d) % 3) + 1 \in 1..3
  BY <1>2 DEF Direction
<1>4. Len(choices) = 3 /\ \A n \in 1..3 : choices[n] \in {"off", "on", "recent"}
  OBVIOUS
<1> HIDE DEF p, choices
<1> QED
  BY <1>1, <1>3, <1>4 DEF Cycled, p

LEMMA CycledZone ==
    ASSUME NEW value, NEW d \in Direction
    PROVE  Cycled(setting_choices["system_timezone"], value, d) \notin BadZones
<1> DEFINE choices == setting_choices["system_timezone"]
           p == Place(choices, value)
<1>1. DOMAIN choices = 1..10 /\ Len(choices) = 10
  BY DEF setting_choices
<1>2. \A n \in 1..10 : choices[n] \notin BadZones
  BY <1>1, ChosenZonesAreGood
<1>3. p \in 1..10
  <2> HIDE DEF choices
  <2> QED BY <1>1 DEF Place
<1>4. ((p - 1 + d) % 10) + 1 \in 1..10
  BY <1>3 DEF Direction
<1> HIDE DEF p, choices
<1> QED
  BY <1>1, <1>2, <1>4 DEF Cycled, p, choices

LEMMA ChoiceRows ==
    ASSUME NEW id, setting_control_type_for_id(id) = "CHOICE"
    PROVE  /\ id \notin {"network_wifi_enabled", "system_volume", "system_brightness"}
           /\ id \in DOMAIN SysKeyOf \/ id \in DOMAIN FeKeysOf \/ id \in {"performance_system", "performance_cpu_policy"}
<1>1. id \in DOMAIN setting_choices \cup {"graphic_theme_id", "performance_system", "performance_cpu_policy"}
  BY DEF setting_control_type_for_id
<1> QED
  BY <1>1 DEF setting_choices, SysKeyOf, FeKeysOf

LEMMA ChoiceStep == ASSUME SettingsInv, NEW d \in Direction, save_setting_choice(d) PROVE SettingsInv'
<1> DEFINE id == ui.cursor
           next == Cycled(setting_choices[id], ui.shown[id], d)
<1>1. Idle /\ setting_control_type_for_id(id) = "CHOICE" /\ DOMAIN ui = Fields
  BY DEF save_setting_choice, Operate, SettingsInv, Shape
<1>2. CASE id = "performance_system"
  <2> DEFINE u == [ui EXCEPT !.system = Cycled(Systems, @, d)]
  <2>1. Draft(u)
    BY <1>2 DEF save_setting_choice, SysKeyOf, save_performance_system_choice
  <2>2. DOMAIN u = Fields /\ u.volume = ui.volume /\ u.category = ui.category /\ u.cursor = ui.cursor
    BY <1>1 DEF Fields
  <2> HIDE DEF u
  <2> QED BY <1>1, <2>1, <2>2, DraftStep
<1>3. CASE id = "performance_cpu_policy"
  <2>1. save_performance_cpu_policy(Cycled(CpuPresets, load_performance_core_state(cpu, ui.system), d))
    BY <1>3 DEF save_setting_choice, SysKeyOf
  <2> QED BY <1>1, <2>1, CpuStep
<1>4. CASE id = "graphic_theme_id"
  <2>1. SaveFrontend("graphic_theme_id",
                     Cycled(load_graphic_theme_choices, load_settings(fe).graphic_theme_id, d))
    BY <1>4 DEF save_setting_choice, SysKeyOf, save_graphic_theme_choice
  <2>2. "graphic_theme_id" \in DOMAIN FeKeysOf
    BY DEF FeKeysOf
  <2> QED BY <1>1, <2>1, <2>2, SaveFrontendStep
<1>5. CASE id \notin {"performance_system", "performance_cpu_policy", "graphic_theme_id"} /\ id \in DOMAIN SysKeyOf
  <2>1. BeginSave(id, next) /\ UNCHANGED hw
    BY <1>5 DEF save_setting_choice
  <2>2. id \notin {"network_wifi_enabled", "system_volume", "system_brightness"}
    BY <1>1, ChoiceRows
  <2>3. id = "system_timezone" => next \notin BadZones
    BY CycledZone
  <2> QED BY <1>1, <1>5, <2>1, <2>2, <2>3, PlainBeginSave
<1>6. CASE id \notin {"performance_system", "performance_cpu_policy", "graphic_theme_id"} /\ id \notin DOMAIN SysKeyOf
  <2>1. SaveFrontend(id, next)
    BY <1>6 DEF save_setting_choice
  <2>2. id \in DOMAIN FeKeysOf
    BY <1>1, <1>6, ChoiceRows
  <2>3. id = "boot_resume_mode" => next \in {"off", "on", "recent"}
    BY CycledBoot
  <2> QED BY <1>1, <2>1, <2>2, <2>3, SaveFrontendStep
<1> QED BY <1>2, <1>3, <1>4, <1>5, <1>6

LEMMA NumberRow ==
    ASSUME NEW id, setting_control_type_for_id(id) = "NUMBER"
    PROVE  /\ id # "network_wifi_enabled" /\ id # "boot_resume_mode" /\ id # "system_timezone"
           /\ id \in DOMAIN ManualFields \/ id \in DOMAIN SysKeyOf \/ id \in DOMAIN FeKeysOf
<1>1. id \in DOMAIN NumberRange \cup DOMAIN ManualFields
  BY DEF setting_control_type_for_id
<1> QED
  BY <1>1 DEF NumberRange, ManualFields, SysKeyOf, FeKeysOf

LEMMA NumberStep == ASSUME SettingsInv, NEW d \in Direction, save_setting_number(d) PROVE SettingsInv'
<1> DEFINE id == ui.cursor
           range == NumberRange[id]
           shown == IF ui.shown[id] = None THEN 0 ELSE ui.shown[id]
           next == Clamp(shown + d * range[3], range[1], range[2])
<1>1. /\ Idle /\ setting_control_type_for_id(id) = "NUMBER" /\ DOMAIN ui = Fields
      /\ DOMAIN ui.shown = Entries(ui.category) /\ id \in DOMAIN ui.shown
  BY DEF save_setting_number, Operate, SettingsInv, Shape, Idle
<1>2. CASE id \in DOMAIN ManualFields
  <2> DEFINE u == [ui EXCEPT !.draft = clamp_manual_time_fields([@ EXCEPT ![ManualFields[id]] = @ + d])]
  <2>1. Draft(u)
    BY <1>2 DEF save_setting_number, SysKeyOf, ManualFields, save_manual_time_number
  <2>2. DOMAIN u = Fields /\ u.volume = ui.volume /\ u.category = ui.category /\ u.cursor = ui.cursor
    BY <1>1 DEF Fields
  <2> HIDE DEF u
  <2> QED BY <1>1, <2>1, <2>2, DraftStep
<1>3. CASE id \notin DOMAIN ManualFields /\ id \in DOMAIN SysKeyOf
  <2>1. BeginSave(id, next) /\ UNCHANGED hw
    BY <1>3 DEF save_setting_number
  <2>2. /\ NumberRange["system_volume"] = <<0, VOLUME_MAX, 1>>
        /\ NumberRange["system_brightness"] = <<1, 20, 1>>
    BY DEF NumberRange
  <2>3. id = "system_volume" => next \in Levels
    <3> SUFFICES ASSUME id = "system_volume" PROVE next \in Levels
      OBVIOUS
    <3>1. shown + d * range[3] \in Int
      BY <1>1, <2>2 DEF SettingsInv, Ranges, Direction
    <3>2. next = Clamp(shown + d * range[3], 0, VOLUME_MAX)
      BY <2>2
    <3> HIDE DEF shown, range, next
    <3> QED BY <3>1, <3>2, BoundsAreNatural DEF Clamp, Levels
  <2>4. id = "system_brightness" => next \in 1..20
    <3> SUFFICES ASSUME id = "system_brightness" PROVE next \in 1..20
      OBVIOUS
    <3>1. shown + d * range[3] \in Int
      BY <1>1, <2>2 DEF SettingsInv, Ranges, Direction
    <3>2. next = Clamp(shown + d * range[3], 1, 20)
      BY <2>2
    <3> HIDE DEF shown, range, next
    <3> QED BY <3>1, <3>2 DEF Clamp
  <2>5. id # "network_wifi_enabled" /\ id # "system_timezone"
    BY <1>1, NumberRow
  <2> HIDE DEF next
  <2> QED BY <1>1, <1>3, <2>1, <2>3, <2>4, <2>5, PlainBeginSave
<1>4. CASE id \notin DOMAIN ManualFields /\ id \notin DOMAIN SysKeyOf
  <2>1. SaveFrontend(id, next)
    BY <1>4 DEF save_setting_number
  <2>2. id \in DOMAIN FeKeysOf /\ id # "boot_resume_mode"
    BY <1>1, <1>4, NumberRow
  <2> QED BY <1>1, <2>1, <2>2, SaveFrontendStep
<1> QED BY <1>2, <1>3, <1>4

LEMMA CheckRow ==
    ASSUME NEW id, setting_control_type_for_id(id) = "CHECKBOX", id \notin ServiceRows
    PROVE  /\ id \notin {"system_volume", "system_brightness", "system_timezone", "boot_resume_mode"}
           /\ id \in DOMAIN SysKeyOf \/ id \in DOMAIN FeKeysOf
<1>1. id \in {"show_empty_systems", "show_favorites_on_top", "show_recent_on_top", "rom_cursor_wrap",
              "rom_scan_policy", "system_automatic_time", "network_wifi_enabled"}
  BY DEF setting_control_type_for_id
<1> QED
  BY <1>1 DEF SysKeyOf, FeKeysOf

\* Wi-Fi: the radio is off before the file says so.
LEMMA WifiStep ==
    ASSUME SettingsInv, Idle, ui.cursor = "network_wifi_enabled", NEW enable \in BOOLEAN, run_network_wifi_control(enable)
    PROVE  SettingsInv'
<1>1. CASE BeginSave("network_wifi_enabled", enable) /\ hw' = [hw EXCEPT !.wifi = @ /\ enable]
  <2>1. /\ DOMAIN hw' = DOMAIN hw /\ hw'.applied = hw.applied /\ hw'.refused = hw.refused /\ (hw'.wifi => hw.wifi)
        /\ enable = FALSE => ~hw'.wifi
    BY <1>1 DEF SettingsInv, Shape
  <2>2. "network_wifi_enabled" \in DOMAIN SysKeyOf \cap Entries(ui.category)
    BY DEF SysKeyOf, SettingsInv, Shape, Idle
  <2> QED BY <1>1, <2>1, <2>2, BeginSaveStep
<1>2. CASE UNCHANGED <<card, hw, level, ui, save, keys, wrote, lost, destroyed, trouble>>
  <2>1. save = NoSave /\ ui.category # "OFF" /\ DOMAIN ui' = Fields
    BY <1>2, RowsOf DEF Idle, Pages, SettingsInv, Shape
  <2> QED BY <1>2, <2>1, StayStep
<1> QED BY <1>1, <1>2 DEF run_network_wifi_control

LEMMA BoolStep == ASSUME SettingsInv, save_setting_bool PROVE SettingsInv'
<1> DEFINE id == ui.cursor
           next == ~ui.shown[id]
<1>1. Idle /\ setting_control_type_for_id(id) = "CHECKBOX"
  BY DEF save_setting_bool, Operate
<1>2. CASE id \in ServiceRows
  <2>1. run_network_service_control(id, next)
    BY <1>2 DEF save_setting_bool, ServiceRows, SysKeyOf
  <2> QED BY <1>1, <2>1, ServiceStep
<1>3. CASE id \notin ServiceRows /\ id = "network_wifi_enabled"
  <2>1. run_network_wifi_control(next) /\ next \in BOOLEAN
    BY <1>3 DEF save_setting_bool, ServiceRows
  <2> QED BY <1>1, <1>3, <2>1, WifiStep
<1>4. CASE id \notin ServiceRows \cup {"network_wifi_enabled"} /\ id \in DOMAIN SysKeyOf
  <2>1. BeginSave(id, next) /\ UNCHANGED hw
    BY <1>4 DEF save_setting_bool
  <2>2. id \notin {"system_volume", "system_brightness", "system_timezone"}
    BY <1>1, <1>4, CheckRow
  <2> QED BY <1>1, <1>4, <2>1, <2>2, PlainBeginSave
<1>5. CASE id \notin ServiceRows \cup {"network_wifi_enabled"} /\ id \notin DOMAIN SysKeyOf
  <2>1. SaveFrontend(id, next)
    BY <1>5 DEF save_setting_bool
  <2>2. id \in DOMAIN FeKeysOf /\ id # "boot_resume_mode"
    BY <1>1, <1>5, CheckRow
  <2> QED BY <1>1, <2>1, <2>2, SaveFrontendStep
<1> QED BY <1>2, <1>3, <1>4, <1>5

LEMMA RunRowStep == ASSUME SettingsInv, RunRow PROVE SettingsInv'
<1> DEFINE id == ui.cursor
<1>1. /\ Idle /\ DOMAIN ui = Fields
      /\ id \in ResetRows \cup {"system_sync_now", "system_manual_time_apply", "performance_clear_cpu_override"}
  BY DEF RunRow, Operate, setting_control_type_for_id, SettingsInv, Shape
<1>2. CASE id = "system_manual_time_apply"
  <2>1. BeginSave(id, FALSE) /\ UNCHANGED hw
    BY <1>2 DEF RunRow, ResetRows, apply_manual_system_time
  <2>2. id \in DOMAIN SysKeyOf
    BY <1>2 DEF SysKeyOf
  <2> QED BY <1>1, <1>2, <2>1, <2>2, PlainBeginSave
<1>3. CASE id = "system_sync_now"
  <2>1. Draft(ui)
    BY <1>3 DEF RunRow, ResetRows, sync_time_now
  <2> QED BY <1>1, <2>1, DraftStep
<1>4. CASE id = "performance_clear_cpu_override"
  <2>1. save_performance_cpu_policy(None)
    BY <1>4 DEF RunRow, ResetRows
  <2> QED BY <1>1, <2>1, CpuStep
<1>5. CASE id \in ResetRows
  <2>1. confirm_or_run_factory_reset(id)
    BY <1>5 DEF RunRow, ResetRows
  <2> QED BY <1>1, <2>1, ResetStep
<1> QED BY <1>1, <1>2, <1>3, <1>4, <1>5

-----------------------------------------------------------------------------
(* Steps of a save                                                         *)

\* A key in the file is in force as it was saved; volume and output have their own way.
LEMMA DeviceSaved ==
    ASSUME NEW s, NEW k \in DeviceKeys \ {"volume", "audio_output"}, k \in DOMAIN s, k = "brightness" => s[k] \in 1..20,
           k = "timezone" => s[k] \notin BadZones
    PROVE  load_device_settings(s)[k] = s[k]
<1>1. \A d : Or(s, k, d) = s[k]
  BY DEF Or
<1>2. CASE k = "brightness"
  <2>1. s["brightness"] \in Int /\ s["brightness"] \in 1..20 BY <1>2
  <2>2. brightness_setting_from_stored(s["brightness"]) = s["brightness"] BY <2>1, BrightnessRange
  <2> QED BY <1>1, <1>2, <2>2, DeviceOf
<1>3. CASE k # "brightness" BY <1>1, <1>3, DeviceOf
<1> QED BY <1>2, <1>3

LEMMA DifferAgree ==
    ASSUME NEW s, NEW t, NEW k
    PROVE  k \notin Differ(s, t) <=> Agree(s, t, k)
  BY DEF Differ, Agree

LEMMA NoSaveIs ==
    /\ NoSave.step = "none" /\ NoSave.id = "" /\ DOMAIN NoSave = {"id", "value", "copy", "raced", "step"}
    /\ \A k \in Numbers : k \notin DOMAIN NoSave.copy
<1>1. DOMAIN << >> = {} OBVIOUS
<1>2. NoSave.copy = << >> BY DEF NoSave
<1> QED BY <1>1, <1>2 DEF NoSave

LEMMA RenameStep == ASSUME SettingsInv, Rename PROVE SettingsInv'
<1> USE DEF SettingsInv
<1>a. PICK key : key = SysKeyOf[save.id] OBVIOUS
<1>b. PICK after : /\ after = CASE save.id \in {"system_volume", "system_audio_output"} -> "apply" [] OTHER -> "finish"
                   /\ after \in {"apply", "finish"}
                   /\ after = "apply" <=> save.id \in {"system_volume", "system_audio_output"}
  OBVIOUS
<1>0. /\ save # NoSave /\ save.step = "rename" /\ save.id \in DOMAIN SysKeyOf /\ key \in DeviceKeys
      /\ ui.category \in DOMAIN Rows /\ ui.category # "OFF"
  <2>1. save.step = "rename" /\ save # NoSave BY NoSaveIs DEF Rename
  <2>2. ui.category \in DOMAIN Rows /\ save.id \in DOMAIN SysKeyOf BY <2>1 DEF Shape
  <2> QED BY <1>a, <2>1, <2>2, SysKeys, RowsOf DEF Pages
<1>1. UNCHANGED <<bak, fe, cpu, services, hw, level, ui>>
  BY DEF Rename
<1>2. CASE hw.card = "ok"
  <2>1. /\ sys' = With(save.copy, key, save.value)
        /\ wrote' = [wrote EXCEPT !.sys = With(@, key, save.value)]
        /\ lost' = (lost \cup save.raced) \ {key} /\ destroyed' = destroyed \ {key}
        /\ keys' = IF keys.job = "p_move" THEN Raced(keys) ELSE keys
        /\ save' = [save EXCEPT !.step = after]
    BY <1>a, <1>b, <1>2, Zenon DEF Rename
  <2>2. /\ DOMAIN sys' = DOMAIN save.copy \cup {key} /\ sys'[key] = save.value
        /\ \A k \in DOMAIN save.copy \ {key} : sys'[k] = save.copy[k]
    BY <2>1 DEF With
  <2>3. /\ DOMAIN wrote' = {"sys", "fe"} /\ wrote'.fe = wrote.fe
        /\ DOMAIN wrote'.sys = DOMAIN wrote.sys \cup {key} /\ wrote'.sys[key] = save.value
        /\ \A k \in DOMAIN wrote.sys \ {key} : wrote'.sys[k] = wrote.sys[k]
    BY <2>1 DEF Shape, With
  <2>4. /\ DOMAIN save' = DOMAIN save /\ save'.id = save.id /\ save'.value = save.value /\ save'.copy = save.copy
        /\ save'.step = after /\ after \in {"apply", "finish"}
        /\ after = "apply" <=> save.id \in {"system_volume", "system_audio_output"}
    BY <1>b, <2>1 DEF Shape
  <2>5. /\ DOMAIN keys' = DOMAIN keys /\ keys'.job = keys.job /\ keys'.copy = keys.copy /\ keys'.target = keys.target
        /\ keys.job = "p_move" => keys'.raced = keys.raced \cup Differ(sys, sys')
        /\ keys.job # "p_move" => keys' = keys
    BY <2>1 DEF Shape, Raced
  <2>6. \A k : k \notin Gone' /\ k # key => k \notin Gone /\ Agree(sys, sys', k)
    <3> SUFFICES ASSUME NEW k, k \notin Gone', k # key PROVE k \notin Gone /\ Agree(sys, sys', k)
      OBVIOUS
    <3>1. k \notin Gone /\ k \notin save.raced
      BY <2>1
    <3>2. Agree(save.copy, sys, k) BY <1>0, <3>1 DEF Copies
    <3> QED BY <2>2, <3>1, <3>2 DEF Agree
  <2>7. save'.step # "rename" /\ save' # NoSave
    BY <2>4, NoSaveIs
  <2>8. \A k \in DeviceKeys : k \notin Gone' /\ k # key => Saved(k)' = Saved(k)
    BY <2>6, DeviceAgrees DEF Saved
  <2>9. after = "finish" => Saved(key)' = save.value
    <3> SUFFICES ASSUME after = "finish" PROVE Saved(key)' = save.value
      OBVIOUS
    <3>1. key \notin {"volume", "audio_output"} BY <1>a, <1>0, <2>4, SysKeys
    <3>2. key = "brightness" => save.value \in 1..20 BY <1>a, <1>0, SysKeys DEF Ranges
    <3>4. key = "timezone" => save.value \notin BadZones BY <1>a, <1>0, SysKeys DEF Ranges
    <3>3. load_device_settings(sys')[key] = sys'[key] BY <1>0, <2>2, <3>1, <3>2, <3>4, DeviceSaved
    <3> QED BY <2>2, <3>3 DEF Saved
  <2>10. Shape' BY <1>0, <1>1, <2>3, <2>4, <2>5, <2>7 DEF Shape
  <2>11. Ranges'
    <3>1. /\ key = "volume" => save.value \in Levels
          /\ key = "brightness" => save.value \in 1..20
      BY <1>a, <1>0, SysKeys DEF Ranges
    <3>2. \A k \in Numbers : k \in DOMAIN sys' => sys'[k] \in Int
      BY <2>2, <3>1 DEF Ranges, Numbers, Levels
    <3>3. /\ "volume" \in DOMAIN wrote'.sys => wrote'.sys["volume"] \in Levels
          /\ "brightness" \in DOMAIN wrote'.sys => wrote'.sys["brightness"] \in 1..20
      BY <2>3, <3>1 DEF Ranges
    <3> QED BY <1>1, <2>4, <2>5, <3>2, <3>3 DEF Ranges
  <2>12. Copies'
    <3> SUFFICES ASSUME keys.job = "p_move", NEW k, k \notin keys'.raced PROVE Agree(keys.copy, sys', k)
      BY <2>5, <2>7 DEF Copies
    <3>1. Agree(keys.copy, sys, k) /\ Agree(sys, sys', k) BY <2>5, DifferAgree DEF Copies
    <3> QED BY <3>1 DEF Agree
  <2>13. FileInv' BY <1>1, <2>2, <2>3, <2>6 DEF FileInv, Agree
  <2>14. HardwareInv'
    <3>1. Unapplied = {} /\ Unapplied' = (IF after = "finish" THEN {key} ELSE {})
      BY <1>a, <1>0, <2>4 DEF Unapplied
    <3>2. after = "apply" => key \notin Applied
      BY <1>a, <1>0, <2>4, SysKeys
    <3>3. \A k \in Applied \ (Gone' \cup hw'.refused \cup Unapplied') : hw'.applied[k] = Saved(k)'
      BY <1>0, <1>1, <2>4, <2>6, <2>8, <3>1, <3>2, SysKeys DEF HardwareInv
    <3>4. key = "wifi_enabled" /\ hw'.wifi => Saved("wifi_enabled")'
      <4> SUFFICES ASSUME key = "wifi_enabled", hw.wifi PROVE Saved("wifi_enabled")'
        BY <1>1
      <4>1. save.id = "network_wifi_enabled" BY <1>a, <1>0, SysKeys
      <4>2. save.value = TRUE BY <4>1 DEF HardwareInv, Ranges
      <4>3. after = "finish" BY <4>1, <2>4
      <4> QED BY <2>9, <4>2, <4>3
    <3>5. (hw'.wifi /\ "wifi_enabled" \notin Gone') => Saved("wifi_enabled")'
      BY <1>1, <2>6, <2>8, <3>4, SysKeys DEF HardwareInv
    <3>6. save'.step = "finish" => load_device_settings(sys')[SysKeyOf[save'.id]] = save'.value
      BY <1>a, <2>4, <2>9 DEF Saved
    <3>7. save'.id = "network_wifi_enabled" /\ save'.value = FALSE => ~hw'.wifi
      BY <1>1, <2>4 DEF HardwareInv
    <3> QED BY <1>1, <3>3, <3>5, <3>6, <3>7 DEF HardwareInv, Saved
  <2>15. ShownInv'
    <3>1. Replaced = {} /\ Replaced' = {id \in SysRows : SysKeyOf[id] = key}
      BY <1>a, <1>0, <2>4 DEF Replaced
    <3> SUFFICES ASSUME NEW id \in DOMAIN ui.shown \ (ui.stale \cup Replaced')
                 PROVE  RowTrue(id, fe, sys', cpu, services, ui)
      BY <1>1, <2>7 DEF ShownInv
    <3>2. RowTrue(id, fe, sys, cpu, services, ui)
      BY <1>0, <3>1 DEF ShownInv
    <3>3. id \in SysRows => Agree(sys, sys', SysKeyOf[id])
      <4> SUFFICES ASSUME id \in SysRows PROVE Agree(sys, sys', SysKeyOf[id])
        OBVIOUS
      <4>1. Agree(save.copy, sys, SysKeyOf[id]) BY <1>0 DEF ShownInv, SysRows
      <4>2. SysKeyOf[id] # key BY <3>1
      <4> QED BY <2>2, <4>1, <4>2 DEF Agree
    <3> QED BY <3>2, <3>3, RowAgrees
  <2> QED BY <2>10, <2>11, <2>12, <2>13, <2>14, <2>15
<1>3. CASE hw.card # "ok"
  <2>1. save' = NoSave /\ UNCHANGED <<sys, wrote, lost, destroyed, keys>>
    BY <1>3 DEF Rename
  <2>2. /\ save'.step = "none" /\ save'.id = "" /\ DOMAIN save' = DOMAIN save
        /\ \A k \in Numbers : k \notin DOMAIN save'.copy
    BY <2>1, NoSaveIs DEF Shape
  <2>3. Shape' BY <1>1, <2>1, <2>2 DEF Shape
  <2>4. Ranges' BY <1>1, <2>1, <2>2 DEF Ranges
  <2>5. Copies' BY <2>1, <2>2 DEF Copies
  <2>6. FileInv' BY <1>1, <2>1 DEF FileInv
  <2>7. HardwareInv' BY <1>0, <1>1, <2>1, <2>2 DEF HardwareInv, Saved, Unapplied
  <2>8. ShownInv' BY <1>0, <1>1, <2>1, <2>2 DEF ShownInv, Replaced
  <2> QED BY <2>3, <2>4, <2>5, <2>6, <2>7, <2>8
<1> QED BY <1>2, <1>3

\* A save ends: what was saved is in force, and the screen is true again.
LEMMA EndSave ==
    ASSUME SettingsInv, save # NoSave, save' = NoSave, UNCHANGED <<card, keys, wrote, lost, destroyed>>,
           DOMAIN hw' = DOMAIN hw, DOMAIN hw'.applied = Applied,
           \A k \in Applied \ (Gone \cup hw'.refused) : hw'.applied[k] = Saved(k),
           (hw'.wifi /\ "wifi_enabled" \notin Gone) => Saved("wifi_enabled"),
           level' \in Levels \cup {None}, Screen(fe, sys, cpu, services, ui')
    PROVE  SettingsInv'
<1> USE DEF SettingsInv
<1>1. save'.step = "none" /\ save'.id = "" /\ DOMAIN save' = DOMAIN save /\ \A k \in Numbers : k \notin DOMAIN save'.copy
  BY NoSaveIs DEF Shape
<1>2. ui'.category # "OFF" BY RowsOf DEF Screen, Pages
<1>3. UNCHANGED <<sys, fe, cpu, services, keys, wrote, lost, destroyed>> BY DEF card
<1>4. Shape' BY <1>1, <1>2, <1>3 DEF Shape, Screen
<1>5. Ranges' BY <1>1, <1>3 DEF Ranges, Screen
<1>6. Copies' BY <1>1, <1>3 DEF Copies
<1>7. FileInv' BY <1>3 DEF FileInv
<1>8. HardwareInv' BY <1>1, <1>2, <1>3 DEF HardwareInv, Saved, Unapplied
<1>9. ShownInv' BY <1>1, <1>3 DEF ShownInv, Replaced, Screen
<1> QED BY <1>4, <1>5, <1>6, <1>7, <1>8, <1>9

LEMMA SaveUnderWay ==
    ASSUME SettingsInv, save.step \in {"rename", "apply", "record", "finish"}
    PROVE  /\ save # NoSave /\ ui.category \in DOMAIN Rows /\ ui.category # "OFF" /\ ui.cursor \in Entries(ui.category)
           /\ DOMAIN ui = Fields /\ ui.volume \in Levels /\ DOMAIN ui.shown = Entries(ui.category)
           /\ save.id \in DOMAIN SysKeyOf \cap Entries(ui.category) /\ SysKeyOf[save.id] \in DeviceKeys
           /\ DOMAIN hw.applied = Applied /\ Typed(sys)
<1>1. save # NoSave BY NoSaveIs
<1>2. ui.category \in DOMAIN Rows /\ ui.category # "OFF" BY <1>1, RowsOf DEF SettingsInv, Shape, Pages
<1>3. Typed(sys) BY DEF SettingsInv, Ranges, Typed
<1> QED BY <1>1, <1>2, <1>3, SysKeys DEF SettingsInv, Shape, Ranges

\* The screen after a save that loads the rows again.
LEMMA ReloadedScreen ==
    ASSUME SettingsInv, save.step \in {"apply", "record", "finish"}, NEW u,
           DOMAIN u = Fields, u.volume = ui.volume, u.category = ui.category, u.cursor = ui.cursor
    PROVE  Screen(fe, sys, cpu, services, update_settings_entries_after_save(fe, sys, cpu, services, u))
<1>1. Loaded(fe, sys, cpu, services, u, update_settings_entries_after_save(fe, sys, cpu, services, u))
  BY SaveUnderWay, UpdateLoads
<1> QED
  BY <1>1, SaveUnderWay, LoadedScreen

LEMMA ApplyStep == ASSUME SettingsInv, Apply PROVE SettingsInv'
<1> USE DEF SettingsInv
<1>0. save.step = "apply" /\ UNCHANGED <<card, level, keys, wrote, lost, destroyed>>
  BY DEF Apply
<1>1. UNCHANGED <<sys, fe, cpu, services, keys, wrote, lost, destroyed>> BY <1>0 DEF card
<1>2. save # NoSave /\ save.id \in {"system_volume", "system_audio_output"}
  BY <1>0, SaveUnderWay DEF Shape
<1>3. CASE hw.audio
  <2>1. hw' = [hw EXCEPT !.volume = VolumeToApply] /\ save' = [save EXCEPT !.step = "record"] /\ ui' = ui
    BY <1>3 DEF Apply
  <2>2. DOMAIN hw' = DOMAIN hw /\ hw'.applied = hw.applied /\ hw'.wifi = hw.wifi /\ hw'.refused = hw.refused
    BY <2>1 DEF Shape
  <2>3. /\ DOMAIN save' = DOMAIN save /\ save'.id = save.id /\ save'.value = save.value /\ save'.copy = save.copy
        /\ save'.step = "record"
    BY <2>1 DEF Shape
  <2>4. Shape' BY <1>0, <1>1, <1>2, <2>1, <2>2, <2>3 DEF Shape
  <2>5. Ranges' BY <1>0, <1>1, <2>1, <2>3 DEF Ranges
  <2>6. Copies' BY <1>1, <2>3 DEF Copies
  <2>7. FileInv' BY <1>1 DEF FileInv
  <2>8. HardwareInv' BY <1>0, <1>1, <2>1, <2>2, <2>3 DEF HardwareInv, Saved, Unapplied
  <2>9. ShownInv' BY <1>0, <1>1, <2>1, <2>3 DEF ShownInv, Replaced
  <2> QED BY <2>4, <2>5, <2>6, <2>7, <2>8, <2>9
<1>4. CASE ~hw.audio
  <2>1. /\ save' = NoSave /\ hw' = hw
        /\ ui' = IF save.id = "system_volume"
                 THEN update_settings_entries_after_save(fe, sys, cpu, services, ui)
                 ELSE [ui EXCEPT !.stale = @ \cup {save.id}]
    BY <1>4 DEF Apply
  <2>2. /\ \A k \in Applied \ (Gone \cup hw.refused) : hw.applied[k] = Saved(k)
        /\ (hw.wifi /\ "wifi_enabled" \notin Gone) => Saved("wifi_enabled")
    BY <1>0, SaveUnderWay DEF HardwareInv, Unapplied
  <2>3. Screen(fe, sys, cpu, services, ui')
    <3>1. CASE save.id = "system_volume"
      BY <1>0, <2>1, <3>1, SaveUnderWay, ReloadedScreen
    <3>2. CASE save.id = "system_audio_output"
      <4>1. /\ DOMAIN ui' = Fields /\ ui'.stale = ui.stale \cup {save.id}
            /\ ui'.category = ui.category /\ ui'.shown = ui.shown /\ ui'.volume = ui.volume
            /\ ui'.cursor = ui.cursor /\ ui'.system = ui.system /\ ui'.draft = ui.draft
        BY <2>1, <3>2 DEF Shape, Fields
      <4>2. Replaced \subseteq {save.id}
        BY <1>0, <3>2, SysKeys, SaveUnderWay DEF Replaced, SysRows
      <4>3. \A id \in DOMAIN ui'.shown \ ui'.stale : RowTrue(id, fe, sys, cpu, services, ui')
        <5> SUFFICES ASSUME NEW id \in DOMAIN ui'.shown \ ui'.stale PROVE RowTrue(id, fe, sys, cpu, services, ui')
          OBVIOUS
        <5>1. RowTrue(id, fe, sys, cpu, services, ui) BY <1>0, <4>1, <4>2, SaveUnderWay DEF ShownInv
        <5> QED BY <4>1, <5>1, RowAgrees DEF Agree
      <4> QED BY <1>0, <4>1, <4>3, SaveUnderWay DEF Screen, Ranges
    <3> QED BY <1>2, <3>1, <3>2
  <2> QED BY <1>0, <1>2, <2>1, <2>2, <2>3, SaveUnderWay, EndSave DEF Ranges
<1> QED BY <1>3, <1>4

LEMMA RecordStep == ASSUME SettingsInv, Record PROVE SettingsInv'
<1> USE DEF SettingsInv
<1>0. save.step = "record" /\ UNCHANGED <<card, hw, keys, wrote, lost, destroyed>> /\ save' = NoSave /\ level' = VolumeToApply
  BY DEF Record
<1>1. save # NoSave /\ DOMAIN hw.applied = Applied /\ DOMAIN ui = Fields
  BY <1>0, SaveUnderWay
<1>2. Screen(fe, sys, cpu, services, ui')
  <2>1. ui' = update_settings_entries_after_save(fe, sys, cpu, services, ui)
    BY <1>0 DEF Record, Reloaded, card
  <2> QED BY <1>0, <1>1, <2>1, ReloadedScreen
<1>3. /\ \A k \in Applied \ (Gone \cup hw.refused) : hw.applied[k] = Saved(k)
      /\ (hw.wifi /\ "wifi_enabled" \notin Gone) => Saved("wifi_enabled")
  BY <1>0, SaveUnderWay DEF HardwareInv, Unapplied
<1>4. level' \in Levels BY <1>0 DEF Ranges, VolumeToApply
<1> QED BY <1>0, <1>1, <1>2, <1>3, <1>4, EndSave

LEMMA FinishStep == ASSUME SettingsInv, Finish PROVE SettingsInv'
<1> USE DEF SettingsInv
<1>a. PICK key : key = SysKeyOf[save.id] OBVIOUS
<1>0. save.step = "finish" /\ UNCHANGED <<card, level, keys, wrote, lost, destroyed>> /\ save' = NoSave
  BY DEF Finish
<1>1. PICK ok \in BOOLEAN :
        /\ hw' \in CASE key \in DisplayKeys /\ ~ok ->
                           {[hw EXCEPT !.applied[key] = v, !.refused = @ \cup {key}] : v \in {hw.applied[key], save.value}}
                      [] key \in Applied /\ (ok \/ key \notin DisplayKeys) ->
                           {[hw EXCEPT !.applied[key] = save.value, !.refused = @ \ {key}]}
                      [] key = "wifi_enabled" /\ save.value = TRUE -> {[hw EXCEPT !.wifi = ok]}
                      [] OTHER -> {hw}
        /\ ui' = CASE save.id = "system_manual_time_apply" /\ ~ok -> ui
                   [] save.id = "system_timezone" \/ (save.id = "system_manual_time_apply" /\ ok) ->
                          Reloaded([ui EXCEPT !.draft = Today])
                   [] OTHER -> Reloaded(ui)
  BY <1>a, Zenon DEF Finish
<1>2. /\ save # NoSave /\ DOMAIN hw.applied = Applied /\ DOMAIN ui = Fields /\ key \in DeviceKeys
      /\ save.id \in DOMAIN SysKeyOf
  BY <1>a, <1>0, SaveUnderWay
<1>3. /\ \A k \in Applied \ (Gone \cup hw.refused \cup {key}) : hw.applied[k] = Saved(k)
      /\ (hw.wifi /\ "wifi_enabled" \notin Gone) => Saved("wifi_enabled")
      /\ key \notin Gone => Saved(key) = save.value
  BY <1>a, <1>0, SaveUnderWay DEF HardwareInv, Unapplied, Saved
<1>4. /\ DOMAIN hw' = DOMAIN hw /\ DOMAIN hw'.applied = Applied
      /\ \A k \in Applied \ (Gone \cup hw'.refused) : hw'.applied[k] = Saved(k)
      /\ (hw'.wifi /\ "wifi_enabled" \notin Gone) => Saved("wifi_enabled")
  <2>0. DisplayKeys \subseteq Applied BY DEF DisplayKeys, DisplayRows, SysKeyOf, Applied
  <2>1. CASE key \in DisplayKeys /\ ~ok
    <3>1. /\ \E v : hw' = [hw EXCEPT !.applied[key] = v, !.refused = @ \cup {key}]
          /\ key # "wifi_enabled" /\ key \in Applied
      BY <1>1, <2>0, <2>1, SysKeys
    <3>2. /\ DOMAIN hw' = DOMAIN hw /\ hw'.wifi = hw.wifi /\ DOMAIN hw'.applied = Applied
          /\ hw'.refused = hw.refused \cup {key} /\ \A k \in Applied \ {key} : hw'.applied[k] = hw.applied[k]
      BY <1>2, <3>1 DEF Shape
    <3> QED BY <1>3, <3>2
  <2>2. CASE key \in Applied /\ (ok \/ key \notin DisplayKeys)
    <3>1. hw' = [hw EXCEPT !.applied[key] = save.value, !.refused = @ \ {key}] /\ key # "wifi_enabled"
      BY <1>1, <2>2, SysKeys
    <3>2. /\ DOMAIN hw' = DOMAIN hw /\ hw'.wifi = hw.wifi /\ DOMAIN hw'.applied = Applied
          /\ hw'.refused = hw.refused \ {key}
          /\ hw'.applied[key] = save.value /\ \A k \in Applied \ {key} : hw'.applied[k] = hw.applied[k]
      BY <1>2, <2>2, <3>1 DEF Shape
    <3> QED BY <1>3, <2>2, <3>2
  <2>3. CASE key = "wifi_enabled" /\ save.value = TRUE
    <3>1. hw' = [hw EXCEPT !.wifi = ok] /\ key \notin Applied BY <1>1, <2>0, <2>3, SysKeys
    <3>2. DOMAIN hw' = DOMAIN hw /\ hw'.applied = hw.applied /\ hw'.refused = hw.refused BY <3>1 DEF Shape
    <3> QED BY <1>2, <1>3, <2>3, <3>1, <3>2
  <2>4. CASE key \notin Applied /\ ~(key = "wifi_enabled" /\ save.value = TRUE)
    <3>1. hw' = hw BY <1>1, <2>0, <2>4
    <3> QED BY <1>2, <1>3, <2>4, <3>1
  <2> QED BY <2>0, <2>1, <2>2, <2>3, <2>4
<1>5. Screen(fe, sys, cpu, services, ui')
  <2>0. \A u : Reloaded(u) = update_settings_entries_after_save(fe, sys, cpu, services, u)
    BY <1>0 DEF Reloaded, card
  <2>1. CASE save.id = "system_manual_time_apply" /\ ~ok
    <3>1. ui' = ui BY <1>1, <2>1
    <3>2. key = "automatic_time" BY <1>a, <1>2, <2>1, SysKeys
    <3>3. "system_automatic_time" \notin DOMAIN ui.shown BY <1>0, <2>1, SaveUnderWay, OneTimeRow
    <3>4. \A id \in DOMAIN ui.shown : id \notin Replaced
      BY <1>a, <1>0, <3>2, <3>3, SysKeys DEF Replaced, SysRows
    <3>5. \A id \in DOMAIN ui.shown \ ui.stale : RowTrue(id, fe, sys, cpu, services, ui)
      BY <1>0, <3>4, SaveUnderWay DEF ShownInv
    <3> QED BY <1>0, <3>1, <3>5, SaveUnderWay DEF Screen, Ranges
  <2>2. CASE save.id = "system_timezone" \/ (save.id = "system_manual_time_apply" /\ ok)
    <3> DEFINE u == [ui EXCEPT !.draft = Today]
    <3>1. ui' = Reloaded(u) BY <1>1, <2>2
    <3>2. DOMAIN u = Fields /\ u.volume = ui.volume /\ u.category = ui.category /\ u.cursor = ui.cursor
      BY <1>2 DEF Fields
    <3> HIDE DEF u
    <3> QED BY <1>0, <2>0, <3>1, <3>2, ReloadedScreen
  <2>3. CASE save.id \notin {"system_manual_time_apply", "system_timezone"}
    <3>1. ui' = Reloaded(ui) BY <1>1, <2>3
    <3> QED BY <1>0, <1>2, <2>0, <3>1, ReloadedScreen
  <2> QED BY <1>1, <2>1, <2>2, <2>3
<1>6. level' \in Levels \cup {None} BY <1>0 DEF Ranges
<1> QED BY <1>0, <1>2, <1>4, <1>5, <1>6, EndSave

-----------------------------------------------------------------------------
(* Steps that only touch one part                                          *)

LEMMA ExpireStep == ASSUME SettingsInv, Expire PROVE SettingsInv'
<1> USE DEF SettingsInv
<1>1. UNCHANGED <<sys, fe, cpu, services, hw, level, save, keys, wrote, lost, destroyed>> BY DEF Expire, card
<1>2. /\ DOMAIN ui' = Fields /\ ui'.category = ui.category /\ ui'.cursor = ui.cursor /\ ui'.shown = ui.shown
      /\ ui'.volume = ui.volume /\ ui'.stale = ui.stale /\ ui'.system = ui.system /\ ui'.draft = ui.draft
  BY DEF Expire, Shape, Fields
<1>3. ASSUME NEW id, RowTrue(id, fe, sys, cpu, services, ui)
      PROVE  RowTrue(id, fe, sys, cpu, services, ui')
  BY <1>2, <1>3, RowAgrees DEF Agree
<1>4. Shape' BY <1>1, <1>2 DEF Shape
<1>5. Ranges' BY <1>1, <1>2 DEF Ranges
<1>6. Copies' BY <1>1 DEF Copies
<1>7. FileInv' BY <1>1 DEF FileInv
<1>8. HardwareInv' BY <1>1, <1>2 DEF HardwareInv, Saved, Unapplied
<1>9. ShownInv' BY <1>1, <1>2, <1>3 DEF ShownInv, Replaced
<1> QED BY <1>4, <1>5, <1>6, <1>7, <1>8, <1>9

\* The volume keys' service and its helper, the sound server and the card: while the files,
\* the screen and the save stay, only the level, the mixer and the service's own state move.
LEMMA QuietStep ==
    ASSUME SettingsInv, UNCHANGED <<card, ui, save, wrote, lost, destroyed>>,
           DOMAIN hw' = DOMAIN hw, hw'.applied = hw.applied, hw'.refused = hw.refused, hw'.wifi = hw.wifi,
           DOMAIN keys' = DOMAIN keys, ui.category = "OFF" => keys' = NoKeys,
           keys'.job \in {"idle", "set", "record", "p_move", "p_set", "p_record"},
           keys'.target \in Levels, level' \in Levels \cup {None},
           \/ keys'.copy = keys.copy /\ keys'.raced = keys.raced /\ (keys'.job = "p_move" => keys.job = "p_move")
           \/ keys'.copy = sys
    PROVE  SettingsInv'
<1> USE DEF SettingsInv
<1>1. UNCHANGED <<sys, fe, cpu, services>> BY DEF card
<1>2. Shape' BY DEF Shape
<1>3. Ranges' BY <1>1 DEF Ranges
<1>4. Copies' BY <1>1 DEF Copies, Agree
<1>5. FileInv' BY <1>1 DEF FileInv
<1>6. HardwareInv' BY <1>1 DEF HardwareInv, Saved, Unapplied
<1>7. ShownInv' BY <1>1 DEF ShownInv, Replaced
<1> QED BY <1>2, <1>3, <1>4, <1>5, <1>6, <1>7

\* What the helper reads is in range.
LEMMA ReadInRange == ASSUME SettingsInv PROVE read_runtime \in Levels
<1>1. Or(sys, "volume", 8) \in Int BY DEF SettingsInv, Ranges, Numbers, Or
<1>2. read_persisted \in Levels BY <1>1, BoundsAreNatural DEF read_persisted, Clamp, Levels
<1> QED BY <1>2 DEF read_runtime, SettingsInv, Ranges

LEMMA ServiceRuns ==
    ASSUME SettingsInv, keys.on \/ keys.job # "idle"
    PROVE  ui.category # "OFF"
  BY DEF SettingsInv, Shape, NoKeys

LEMMA KeyDownStep == ASSUME SettingsInv, NEW d \in Direction, KeyDown(d) PROVE SettingsInv'
<1>1. Clamp(read_runtime + d, 0, VOLUME_MAX) \in Levels
  BY ReadInRange, BoundsAreNatural DEF Levels, Direction, Clamp
<1> HIDE DEF Direction
<1>2. /\ DOMAIN keys' = DOMAIN keys /\ keys'.job = "set" /\ keys'.target \in Levels
      /\ keys'.copy = keys.copy /\ keys'.raced = keys.raced
  BY <1>1 DEF KeyDown, SettingsInv, Shape
<1> QED BY <1>2, ServiceRuns, QuietStep DEF KeyDown, SettingsInv, Ranges

LEMMA KeyUpStep == ASSUME SettingsInv, KeyUp PROVE SettingsInv'
<1>1. /\ DOMAIN keys' = DOMAIN keys /\ keys'.job = keys.job /\ keys'.target = keys.target
      /\ keys'.copy = keys.copy /\ keys'.raced = keys.raced
  BY DEF KeyUp, SettingsInv, Shape
<1> QED BY <1>1, ServiceRuns, QuietStep DEF KeyUp, SettingsInv, Shape, Ranges

LEMMA PersistDueStep == ASSUME SettingsInv, PersistDue PROVE SettingsInv'
<1>1. /\ DOMAIN keys' = DOMAIN keys /\ keys'.job = keys.job /\ keys'.target = keys.target
      /\ keys'.copy = keys.copy /\ keys'.raced = keys.raced
  BY DEF PersistDue, SettingsInv, Shape
<1> QED BY <1>1, ServiceRuns, QuietStep DEF PersistDue, SettingsInv, Shape, Ranges

LEMMA HelperSetStep == ASSUME SettingsInv, HelperSet PROVE SettingsInv'
<1>1. /\ DOMAIN keys' = DOMAIN keys /\ keys'.job \in {"idle", "record", "p_record"} /\ keys'.target = keys.target
      /\ keys'.copy = keys.copy /\ keys'.raced = keys.raced
  BY DEF HelperSet, SettingsInv, Shape
<1>2. DOMAIN hw' = DOMAIN hw /\ hw'.applied = hw.applied /\ hw'.refused = hw.refused /\ hw'.wifi = hw.wifi
  BY DEF HelperSet, SettingsInv, Shape
<1>3. ui.category # "OFF" BY ServiceRuns DEF HelperSet
<1> QED BY <1>1, <1>2, <1>3, QuietStep DEF HelperSet, SettingsInv, Ranges

LEMMA HelperRecordStep == ASSUME SettingsInv, HelperRecord PROVE SettingsInv'
<1>1. /\ DOMAIN keys' = DOMAIN keys /\ keys'.job = "idle" /\ keys'.target = keys.target
      /\ keys'.copy = keys.copy /\ keys'.raced = keys.raced
  BY DEF HelperRecord, SettingsInv, Shape
<1>2. ui.category # "OFF" BY ServiceRuns DEF HelperRecord
<1> QED BY <1>1, <1>2, QuietStep DEF HelperRecord, SettingsInv, Ranges

LEMMA PersistStep == ASSUME SettingsInv, Persist PROVE SettingsInv'
<1>1. /\ DOMAIN keys' = DOMAIN keys /\ keys'.job = "p_move" /\ keys'.target = read_runtime /\ keys'.copy = sys
  BY DEF Persist, SettingsInv, Shape
<1> QED BY <1>1, ServiceRuns, ReadInRange, QuietStep DEF Persist, SettingsInv, Ranges

LEMMA StopStep == ASSUME SettingsInv, Stop PROVE SettingsInv'
<1>1. /\ DOMAIN keys' = DOMAIN keys /\ keys'.job \in {"idle", "p_move"} /\ keys'.target \in {keys.target, read_runtime}
      /\ \/ keys'.copy = sys
         \/ keys'.copy = keys.copy /\ keys'.raced = keys.raced /\ keys'.job = "idle"
  BY DEF Stop, SettingsInv, Shape
<1> QED BY <1>1, ServiceRuns, ReadInRange, QuietStep DEF Stop, SettingsInv, Ranges

LEMMA HardwareStep ==
    ASSUME SettingsInv,
           \/ AudioFails \/ AudioReturns \/ CardFills \/ CardFreed
           \/ DisplayReturns \/ \E id \in Panel : DisplayFails(id)
    PROVE  SettingsInv'
<1>1. UNCHANGED <<card, ui, save, wrote, lost, destroyed, keys, level>>
  BY DEF AudioFails, AudioReturns, CardFills, CardFreed, DisplayFails, DisplayReturns
<1>2. DOMAIN hw' = DOMAIN hw /\ hw'.applied = hw.applied /\ hw'.refused = hw.refused /\ hw'.wifi = hw.wifi
  BY DEF AudioFails, AudioReturns, CardFills, CardFreed, DisplayFails, DisplayReturns, SettingsInv, Shape
<1> QED BY <1>1, <1>2, QuietStep DEF SettingsInv, Shape, Ranges

-----------------------------------------------------------------------------
(* The helper replaces the file                                            *)

\* Its move changes keys of the file: all but the volume are then gone, and the rows that
\* show them are marked; a save of the frontend that was under way knows they changed.
LEMMA FileReplaced ==
    ASSUME SettingsInv, keys.job = "p_move", UNCHANGED <<fe, cpu, services, hw, level>>,
           DOMAIN keys' = DOMAIN keys, keys'.job = "p_set", keys'.target = keys.target,
           \A k \in Numbers : k \notin DOMAIN keys'.copy, Typed(sys'),
           \A k : k \notin Gone' /\ k # "volume" => k \notin Gone /\ Agree(sys, sys', k),
           DOMAIN wrote' = {"sys", "fe"}, wrote'.fe = wrote.fe,
           \A k \in DOMAIN wrote'.sys : k # "volume" => k \in DOMAIN wrote.sys /\ wrote'.sys[k] = wrote.sys[k],
           "volume" \in DOMAIN wrote'.sys => /\ wrote'.sys["volume"] \in Levels
                                             /\ "volume" \notin Gone' => "volume" \in DOMAIN sys' /\ sys'["volume"] = wrote'.sys["volume"],
           DOMAIN save' = DOMAIN save, \A x \in {"id", "value", "copy", "step"} : save'[x] = save[x], save = NoSave => save' = NoSave,
           save.step = "rename" => save'.raced = save.raced \cup Differ(sys, sys'),
           DOMAIN ui' = Fields, \A x \in Fields \ {"stale"} : ui'[x] = ui[x],
           ui.stale \subseteq ui'.stale,
           \A id \in DOMAIN SysKeyOf : id \notin ui'.stale => Agree(sys, sys', SysKeyOf[id])
    PROVE  SettingsInv'
<1> USE DEF SettingsInv
<1>1. save'.id = save.id /\ save'.value = save.value /\ save'.copy = save.copy /\ save'.step = save.step
  OBVIOUS
<1>2. /\ ui'.category = ui.category /\ ui'.cursor = ui.cursor /\ ui'.shown = ui.shown
      /\ ui'.volume = ui.volume /\ ui'.system = ui.system /\ ui'.draft = ui.draft
  BY DEF Fields
<1>3. ui.category # "OFF"
  BY ServiceRuns
<1>4. save.step \in {"rename", "apply", "record", "finish"} \/ save' = NoSave
  BY DEF Shape
<1>5. save.step = "finish" => SysKeyOf[save.id] # "volume" /\ SysKeyOf[save.id] \in DeviceKeys
  BY SaveUnderWay, SysKeys DEF Shape
<1>6. \A k \in DeviceKeys : k \notin Gone' /\ k # "volume" => k \notin Gone /\ Saved(k)' = Saved(k)
  BY DeviceAgrees DEF Saved
<1>7. Shape' BY <1>1, <1>2, <1>3, <1>4 DEF Shape
<1>8. Ranges' BY <1>1, <1>2 DEF Ranges, Typed
<1>9. Copies'
  <2> SUFFICES ASSUME save.step = "rename", NEW k, k \notin save'.raced PROVE Agree(save.copy, sys', k)
    BY <1>1 DEF Copies
  <2>1. Agree(save.copy, sys, k) /\ Agree(sys, sys', k) BY DifferAgree DEF Copies
  <2> QED BY <2>1 DEF Agree
<1>10. FileInv' BY DEF FileInv, Agree
<1>11. HardwareInv'
  <2>1. Unapplied' = Unapplied BY <1>1 DEF Unapplied
  <2>2. \A k \in Applied \ (Gone' \cup hw'.refused \cup Unapplied') : hw'.applied[k] = Saved(k)'
    BY <1>3, <1>6, <2>1, SysKeys DEF HardwareInv
  <2>3. (hw'.wifi /\ "wifi_enabled" \notin Gone') => Saved("wifi_enabled")'
    BY <1>6, SysKeys DEF HardwareInv
  <2>4. save'.step = "finish" /\ SysKeyOf[save'.id] \notin Gone' =>
           load_device_settings(sys')[SysKeyOf[save'.id]] = save'.value
    <3> SUFFICES ASSUME save.step = "finish", SysKeyOf[save.id] \notin Gone'
                 PROVE  load_device_settings(sys')[SysKeyOf[save.id]] = save.value
      BY <1>1
    <3>1. PICK key : key = SysKeyOf[save.id] OBVIOUS
    <3>2. key \notin Gone /\ Saved(key)' = Saved(key) BY <1>5, <1>6, <3>1
    <3> QED BY <3>1, <3>2 DEF HardwareInv, Saved
  <2> QED BY <1>1, <2>2, <2>3, <2>4 DEF HardwareInv, Saved
<1>12. ShownInv'
  <2>1. Replaced' = Replaced BY <1>1 DEF Replaced
  <2> SUFFICES ASSUME ui.category \in DOMAIN Rows
               PROVE  /\ \A id \in DOMAIN ui.shown \ (ui'.stale \cup Replaced) : RowTrue(id, fe, sys', cpu, services, ui')
                      /\ save.step = "rename" =>
                           \A id \in (DOMAIN ui.shown \cap DOMAIN SysKeyOf) \ ui'.stale : Agree(save.copy, sys', SysKeyOf[id])
    BY <1>1, <1>2, <2>1 DEF ShownInv
  <2>2. ASSUME NEW id \in DOMAIN ui.shown \ (ui'.stale \cup Replaced) PROVE RowTrue(id, fe, sys', cpu, services, ui')
    <3>1. RowTrue(id, fe, sys, cpu, services, ui) BY DEF ShownInv
    <3>2. id \in SysRows => Agree(sys, sys', SysKeyOf[id]) BY DEF SysRows
    <3> QED BY <1>2, <3>1, <3>2, RowAgrees
  <2>3. ASSUME save.step = "rename", NEW id \in (DOMAIN ui.shown \cap DOMAIN SysKeyOf) \ ui'.stale
        PROVE  Agree(save.copy, sys', SysKeyOf[id])
    <3>1. Agree(save.copy, sys, SysKeyOf[id]) BY <2>3 DEF ShownInv
    <3> QED BY <3>1 DEF Agree
  <2> QED BY <2>2, <2>3
<1> QED BY <1>7, <1>8, <1>9, <1>10, <1>11, <1>12

LEMMA PersistMoveStep == ASSUME SettingsInv, PersistMove PROVE SettingsInv'
<1> USE DEF SettingsInv
<1>0. keys.job = "p_move" /\ UNCHANGED <<fe, cpu, services, hw, level>> /\ DOMAIN << >> = {}
  BY DEF PersistMove
<1>1. /\ DOMAIN keys' = DOMAIN keys /\ keys'.job = "p_set" /\ keys'.target = keys.target
      /\ \A k \in Numbers : k \notin DOMAIN keys'.copy
  <2>1. keys' = [keys EXCEPT !.job = "p_set", !.copy = << >>, !.raced = {}] BY DEF PersistMove
  <2>2. DOMAIN keys' = DOMAIN keys /\ keys'.job = "p_set" /\ keys'.target = keys.target /\ keys'.copy = << >>
    BY <2>1 DEF Shape
  <2> QED BY <1>0, <2>2
<1>2. /\ save' = IF save = NoSave THEN NoSave ELSE [save EXCEPT !.raced = @ \cup Differ(sys, sys')]
      /\ ui' = [ui EXCEPT !.stale = @ \cup {id \in DOMAIN SysKeyOf : SysKeyOf[id] \in Differ(sys, sys')}]
  BY DEF PersistMove, Raced
<1>3. /\ DOMAIN save' = DOMAIN save /\ \A x \in {"id", "value", "copy", "step"} : save'[x] = save[x]
      /\ save = NoSave => save' = NoSave
      /\ save.step = "rename" => save'.raced = save.raced \cup Differ(sys, sys')
  BY <1>2, NoSaveIs DEF Shape
<1>4. /\ DOMAIN ui' = Fields /\ \A x \in Fields \ {"stale"} : ui'[x] = ui[x]
      /\ ui.stale \subseteq ui'.stale
      /\ \A id \in DOMAIN SysKeyOf : id \notin ui'.stale => SysKeyOf[id] \notin Differ(sys, sys')
  BY <1>2 DEF Shape, Fields
<1>5. \A id \in DOMAIN SysKeyOf : id \notin ui'.stale => Agree(sys, sys', SysKeyOf[id])
  BY <1>4, DifferAgree
<1>6. CASE hw.card = "ok"
  <2> DEFINE whole == "volume" \in DOMAIN keys.copy
             base == IF whole THEN keys.copy ELSE << >>
  <2>1. /\ sys' = With(base, "volume", keys.target)
        /\ wrote' = [wrote EXCEPT !.sys = With(@, "volume", keys.target)]
        /\ lost' = (lost \cup keys.raced) \ {"volume"}
        /\ destroyed' = (IF whole THEN destroyed ELSE destroyed \cup (DOMAIN sys \ {"volume"})) \ {"volume"}
    BY <1>6, Zenon DEF PersistMove
  <2>2. /\ DOMAIN sys' = DOMAIN base \cup {"volume"} /\ sys'["volume"] = keys.target
        /\ \A k \in DOMAIN base \ {"volume"} : sys'[k] = base[k]
    BY <2>1 DEF With
  <2>3. \A k : k \notin Gone' /\ k # "volume" => k \notin Gone /\ Agree(sys, sys', k)
    <3> SUFFICES ASSUME NEW k, k \notin lost', k \notin destroyed', k # "volume"
                 PROVE  k \notin Gone /\ Agree(sys, sys', k)
      OBVIOUS
    <3>1. k \notin Gone /\ Agree(keys.copy, sys, k) BY <1>0, <2>1 DEF Copies
    <3>2. CASE whole BY <2>2, <3>1, <3>2 DEF Agree
    <3>3. CASE ~whole
      <4>1. k \notin DOMAIN sys BY <2>1, <3>3
      <4>2. k \notin DOMAIN sys' BY <1>0, <2>2, <3>3
      <4> QED BY <3>1, <4>1, <4>2 DEF Agree
    <3> QED BY <3>2, <3>3
  <2>4. Typed(sys')
    <3>1. \A k \in Numbers : k \in DOMAIN base => base[k] \in Int BY <1>0 DEF Ranges
    <3> HIDE DEF base
    <3> QED BY <2>2, <3>1 DEF Ranges, Typed, Numbers, Levels
  <2> HIDE DEF base, whole
  <2>5. /\ DOMAIN wrote' = {"sys", "fe"} /\ wrote'.fe = wrote.fe
        /\ DOMAIN wrote'.sys = DOMAIN wrote.sys \cup {"volume"} /\ wrote'.sys["volume"] = keys.target
        /\ \A k \in DOMAIN wrote.sys \ {"volume"} : wrote'.sys[k] = wrote.sys[k]
    BY <2>1 DEF Shape, With
  <2>6. keys.target \in Levels BY DEF Ranges
  <2> QED BY <1>0, <1>1, <1>3, <1>4, <1>5, <2>2, <2>3, <2>4, <2>5, <2>6, FileReplaced
<1>7. CASE hw.card # "ok"
  <2>1. /\ sys' \in {sys, << >>} /\ lost' = lost /\ wrote' = wrote
        /\ destroyed' = destroyed \cup (DOMAIN sys \ DOMAIN sys')
    BY <1>7 DEF PersistMove
  <2>2. Typed(sys') BY <1>0, <2>1 DEF Typed, Ranges
  <2>3. \A k : k \notin Gone' => k \notin Gone /\ Agree(sys, sys', k)
    BY <1>0, <2>1 DEF Agree
  <2>4. /\ DOMAIN wrote' = {"sys", "fe"} /\ wrote' = wrote
        /\ "volume" \in DOMAIN wrote'.sys =>
              /\ wrote'.sys["volume"] \in Levels
              /\ "volume" \notin Gone' => "volume" \in DOMAIN sys' /\ sys'["volume"] = wrote'.sys["volume"]
    BY <2>1, <2>3 DEF Shape, Ranges, FileInv, Agree
  <2> QED BY <1>0, <1>1, <1>3, <1>4, <1>5, <2>2, <2>3, <2>4, FileReplaced
<1> QED BY <1>6, <1>7

-----------------------------------------------------------------------------
(* Power, and the three properties                                         *)

LEMMA OffIs ==
    /\ DOMAIN NoScreen = Fields /\ NoScreen.category = "OFF" /\ NoScreen.volume = 0
    /\ "system_volume" \notin DOMAIN NoScreen.shown /\ "system_brightness" \notin DOMAIN NoScreen.shown
    /\ DOMAIN NoKeys = {"on", "held", "pending", "due", "job", "target", "copy", "raced"}
    /\ NoKeys.job = "idle" /\ NoKeys.target = 0 /\ \A k \in Numbers : k \notin DOMAIN NoKeys.copy
    /\ 0 \in Levels /\ "OFF" \notin DOMAIN Rows /\ "START" \notin DOMAIN Rows
<1>1. DOMAIN << >> = {} OBVIOUS
<1>2. NoScreen.shown = << >> /\ NoKeys.copy = << >> BY DEF NoScreen, NoKeys
<1>3. 0 \in Levels BY BoundsAreNatural DEF Levels
<1>4. "OFF" \notin DOMAIN Rows /\ "START" \notin DOMAIN Rows BY RowsOf DEF Pages
<1>5. DOMAIN NoScreen = Fields /\ NoScreen.category = "OFF" /\ NoScreen.volume = 0 BY DEF NoScreen, Fields
<1> QED BY <1>1, <1>2, <1>3, <1>4, <1>5 DEF NoKeys

LEMMA CutStep == ASSUME SettingsInv, Cut PROVE SettingsInv'
<1> USE DEF SettingsInv
<1>1. UNCHANGED <<sys, fe, cpu, services, wrote, lost, destroyed>> BY DEF Cut, card
<1>2. ui' = NoScreen /\ save' = NoSave /\ keys' = NoKeys /\ level' = None BY DEF Cut
<1>3. DOMAIN hw' = DOMAIN hw /\ ~hw'.wifi BY DEF Cut, Shape
<1>4. Shape' BY <1>1, <1>2, <1>3, OffIs, NoSaveIs DEF Shape
<1>5. Ranges' BY <1>1, <1>2, OffIs, NoSaveIs DEF Ranges
<1>6. Copies' BY <1>2, OffIs, NoSaveIs DEF Copies
<1>7. FileInv' BY <1>1 DEF FileInv
<1>8. HardwareInv' BY <1>2, <1>3, OffIs, NoSaveIs DEF HardwareInv
<1>9. ShownInv' BY <1>2, OffIs DEF ShownInv
<1> QED BY <1>4, <1>5, <1>6, <1>7, <1>8, <1>9

\* Putting the numbers right changes nothing that is read, and nothing that was saved.
LEMMA StartStep == ASSUME SettingsInv, Start PROVE SettingsInv'
<1> USE DEF SettingsInv
<1> DEFINE device == load_device_settings(sys)
           amended == {k \in {"volume", "brightness"} \cap DOMAIN sys : sys[k] # device[k]}
<1>0. save = NoSave /\ save' = save /\ UNCHANGED <<fe, cpu, services, wrote, lost, destroyed>>
  BY RowsOf DEF Start, Shape, Pages
<1>1. /\ DOMAIN sys' = DOMAIN sys
      /\ \A k \in DOMAIN sys : sys'[k] = sys[k] \/ (k \in Numbers /\ sys'[k] = device[k] /\ sys[k] # device[k])
  BY DEF Start, Numbers
<1>2. /\ device["volume"] \in Levels /\ device["brightness"] \in 1..20
      /\ "volume" \in DOMAIN sys /\ sys["volume"] \in Levels => device["volume"] = sys["volume"]
      /\ "brightness" \in DOMAIN sys /\ sys["brightness"] \in 1..20 => device["brightness"] = sys["brightness"]
  BY DeviceRange DEF Ranges
<1>3. /\ DOMAIN ui' = Fields /\ ui'.category = "START" /\ ui'.shown = NoScreen.shown /\ ui'.volume = device["volume"]
  BY OffIs DEF Start, Fields
<1>4. /\ DOMAIN hw' = DOMAIN hw /\ DOMAIN hw'.applied = Applied /\ hw'.wifi = device["wifi_enabled"]
      /\ \A k \in Applied \ hw'.refused : hw'.applied[k] = device[k]
  BY DEF Start, Shape
<1>5. /\ DOMAIN keys' = DOMAIN keys /\ keys'.job = "idle" /\ keys'.target = 0 /\ keys'.copy = NoKeys.copy
  BY OffIs DEF Start, Shape
<1>6. level' \in {device["volume"], level} BY DEF Start
<1> HIDE DEF device
<1>7. Typed(sys') BY <1>1, <1>2 DEF Ranges, Typed, Numbers, Levels
<1>8. \A k \in DeviceKeys : load_device_settings(sys')[k] = device[k]
  <2> SUFFICES ASSUME NEW k \in DeviceKeys PROVE load_device_settings(sys')[k] = device[k]
    OBVIOUS
  <2>1. CASE Agree(sys, sys', k) BY <2>1, DeviceAgrees DEF device
  <2>2. CASE ~Agree(sys, sys', k)
    <3>1. k \in DOMAIN sys' /\ k \in Numbers /\ sys'[k] = device[k] BY <1>1, <2>2 DEF Agree
    <3>2. /\ sys'["volume"] \in Levels /\ "volume" \in DOMAIN sys' => load_device_settings(sys')["volume"] = sys'["volume"]
          /\ sys'["brightness"] \in 1..20 /\ "brightness" \in DOMAIN sys' =>
                load_device_settings(sys')["brightness"] = sys'["brightness"]
      BY <1>7, DeviceRange DEF Typed
    <3> QED BY <1>2, <3>1, <3>2 DEF Numbers
  <2> QED BY <2>1, <2>2
<1>9. Shape' BY <1>0, <1>3, <1>4, <1>5, OffIs DEF Shape
<1>10. Ranges' BY <1>0, <1>2, <1>3, <1>5, <1>6, <1>7, OffIs DEF Ranges, Typed
<1>11. Copies' BY <1>0, <1>5, NoSaveIs DEF Copies
<1>12. FileInv'
  <2>1. \A k \in DOMAIN wrote.sys \ Gone : k \in DOMAIN sys /\ sys[k] = wrote.sys[k] BY DEF FileInv
  <2>2. \A k \in DOMAIN wrote.sys \ Gone : k \in Numbers => device[k] = sys[k]
    BY <1>2, <2>1 DEF Ranges, Numbers
  <2>3. \A k \in DOMAIN wrote.sys \ Gone : k \in DOMAIN sys' /\ sys'[k] = wrote.sys[k]
    BY <1>1, <2>1, <2>2
  <2> QED BY <1>0, <2>3 DEF FileInv
<1>13. HardwareInv'
  <2>1. \A k \in Applied \cup {"wifi_enabled"} : Saved(k)' = device[k] BY <1>8, SysKeys DEF Saved
  <2> QED BY <1>0, <1>3, <1>4, <2>1, NoSaveIs DEF HardwareInv
<1>14. ShownInv' BY <1>3, OffIs DEF ShownInv
<1> QED BY <1>9, <1>10, <1>11, <1>12, <1>13, <1>14

LEMMA SettingsStart == ASSUME Init PROVE SettingsInv
<1> DEFINE none == << >>
<1>0. DOMAIN none = {} OBVIOUS
<1>1. /\ sys = FactorySys /\ ui = NoScreen /\ save = NoSave /\ keys = NoKeys /\ level = None
      /\ DOMAIN hw = {"audio", "display", "card", "volume", "wifi", "applied", "refused"} /\ ~hw.wifi
      /\ DOMAIN wrote = {"sys", "fe"} /\ wrote.sys = none /\ wrote.fe = none
  BY DEF Init
<1> HIDE DEF none
<1>2. Shape BY <1>1, OffIs, NoSaveIs DEF Shape
<1>3. Ranges BY <1>0, <1>1, OffIs, NoSaveIs, FactoryIsTyped DEF Ranges, Numbers
<1>4. Copies BY <1>1, OffIs, NoSaveIs DEF Copies
<1>5. FileInv BY <1>0, <1>1 DEF FileInv, Stored
<1>6. HardwareInv BY <1>1, OffIs, NoSaveIs DEF HardwareInv
<1>7. ShownInv BY <1>1, OffIs DEF ShownInv
<1> QED BY <1>2, <1>3, <1>4, <1>5, <1>6, <1>7 DEF SettingsInv

LEMMA SettingsStep == ASSUME SettingsInv, [Next]_vars PROVE SettingsInv'
<1>1. CASE UNCHANGED vars
  BY <1>1 DEF vars, SettingsInv, Shape, Ranges, Copies, FileInv, HardwareInv, ShownInv, Saved, Unapplied, Replaced
<1>2. ASSUME NEW c \in MenuCategories, OpenSettings(c) PROVE SettingsInv'
  BY <1>2, OpenSettingsStep
<1>3. ASSUME NEW id \in Touch, Move(id) PROVE SettingsInv'
  BY <1>3, MoveStep
<1>4. ASSUME NEW d \in Direction, save_setting_choice(d) \/ save_setting_number(d) \/ KeyDown(d) PROVE SettingsInv'
  BY <1>4, ChoiceStep, NumberStep, KeyDownStep
<1>5. CASE Start \/ Back \/ Expire \/ save_setting_bool \/ OpenSubmenu \/ RunRow
  BY <1>5, StartStep, BackStep, ExpireStep, BoolStep, OpenSubmenuStep, RunRowStep
<1>6. CASE Rename \/ Apply \/ Record \/ Finish
  BY <1>6, RenameStep, ApplyStep, RecordStep, FinishStep
<1>7. CASE HelperSet \/ HelperRecord \/ PersistMove \/ PersistDue \/ Persist \/ Stop \/ KeyUp
  BY <1>7, HelperSetStep, HelperRecordStep, PersistMoveStep, PersistDueStep, PersistStep, StopStep, KeyUpStep
<1>8. CASE \/ AudioFails \/ AudioReturns \/ CardFills \/ CardFreed \/ Cut
           \/ DisplayReturns \/ \E id \in Panel : DisplayFails(id)
  BY <1>8, HardwareStep, CutStep
<1> QED
  BY <1>1, <1>2, <1>3, <1>4, <1>5, <1>6, <1>7, <1>8 DEF Next

LEMMA SettingsAlways == Spec => []SettingsInv
<1>1. Init => SettingsInv BY SettingsStart
<1>2. SettingsInv /\ [Next]_vars => SettingsInv' BY SettingsStep
<1> QED BY <1>1, <1>2, PTL DEF Spec

\* Every key of both files holds what was last saved for it (SaveFrontend, Rename, PersistMove
\* and Start), unless the other program changed it between the read and the rename of a save,
\* or the volume helper moved an empty copy or a file of its own over the system file: no
\* other setting, failure or power cut disturbs it.
THEOREM LastSaveStandsHolds == Spec => []LastSaveStands
<1>1. SettingsInv => LastSaveStands
  BY DEF SettingsInv, FileInv, Stored, LastSaveStands
<1> QED BY <1>1, SettingsAlways, PTL

\* While no save is under way every row that is not marked shows what the files say
\* (update_settings_entries_after_save and its callers), for every page and every file.
THEOREM ShownIsSavedHolds == Spec => []ShownIsSaved
<1>1. SettingsInv => ShownIsSaved
  <2> SUFFICES ASSUME SettingsInv, Idle, NEW id \in DOMAIN ui.shown \ ui.stale
               PROVE  RowTrue(id, fe, sys, cpu, services, ui)
    BY DEF ShownIsSaved, RowTrue
  <2>1. Replaced = {} BY NoSaveIs DEF Idle, Replaced
  <2> QED BY <2>1 DEF Idle, SettingsInv, ShownInv
<1> QED BY <1>1, SettingsAlways, PTL

\* What the frontend applied to the hardware is what is saved once a save has ended, and
\* the radio is never on while the file says Wi-Fi is off (Finish, run_network_wifi_control,
\* Start), whichever write or helper fails; but for the values the display refused and the
\* keys whose saved value is gone from the file.
THEOREM HardwareFollowsFileHolds == Spec => []HardwareFollowsFile
<1>1. SettingsInv => HardwareFollowsFile
  BY NoSaveIs DEF SettingsInv, HardwareInv, Saved, Unapplied, HardwareFollowsFile
<1> QED BY <1>1, SettingsAlways, PTL

=============================================================================
