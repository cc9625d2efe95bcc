---------------------------- MODULE FrontendLoop ----------------------------
(***************************************************************************)
(* The controller frontend between the input devices and the screens       *)
(* (plumos_controller_ui.c): the event loop with its key repeat, the       *)
(* screens and what each button does on them, the Wi-Fi dialogue, the      *)
(* confirmations of destructive rows, and the children a row or a game     *)
(* runs while the loop stands still and the user goes on typing.           *)
(*                                                                         *)
(* Left to other modules: the cursor inside a game list or the gallery     *)
(* (RomBrowser), the values of settings rows (Settings), what a launch     *)
(* does (LaunchSession), and what power actions do (PowerTransaction).     *)
(* Left out: the SSH keyboard and --script, which type the same actions;   *)
(* the compatibility recovery screen; the brightness tiles, which only an  *)
(* environment variable opens; the renderer.                               *)
(***************************************************************************)
EXTENDS Integers, Sequences, FiniteSets

CONSTANTS Codes,          \* the event codes the user's controls send
          StartMenu,      \* menus.json: rows [id, action, arg, ...]
          AppsMenu,       \* apps.json: rows with confirm and visible
          SettingRows,    \* category -> its rows [id, action, arg]
          PowerMenu,      \* the entries of the power menu, the last one cancel
          TopStrip,       \* the theme shows TOP as a strip (BOOLEAN)
          Networks,       \* names a Wi-Fi scan can find
          Open,           \* those of them without a password
          MinPassword,    \* 8 in the code
          MaxPassword,    \* UI_WIFI_PASSWORD_MAX, 64
          EventBuffer,    \* events the kernel keeps for one reader
          None

VARIABLES ui,             \* struct ui_state, and the child it waits for
          repeat,         \* repeat_action with repeat_key_code
          ignoring,       \* ignore_input_until_ms is in the future
          queue,          \* events the kernel holds for input_event_fd
          power,          \* a power key press waits on power_event_fd
          pos,            \* where each direction control stands
          term,           \* g_terminate_requested
          lost,           \* history: an event of the repeating control was dropped
          trail           \* history: the row of the last A on a page

vars == <<ui, repeat, ignoring, queue, power, pos, term, lost, trail>>

-----------------------------------------------------------------------------
(* What the codes mean.                                                    *)

KeyAction ==
  [KEY_UP |-> "UP", KEY_DOWN |-> "DOWN", KEY_LEFT |-> "LEFT",
   KEY_RIGHT |-> "RIGHT", BTN_EAST |-> "A", BTN_SOUTH |-> "B",
   BTN_NORTH |-> "X", BTN_WEST |-> "Y", BTN_START |-> "START",
   BTN_SELECT |-> "SELECT", BTN_MODE |-> "FUNCTION"]

AbsActions ==
  [ABS_X |-> {"LEFT", "RIGHT"}, ABS_Y |-> {"UP", "DOWN"},
   ABS_HAT0X |-> {"LEFT", "RIGHT"}, ABS_HAT0Y |-> {"UP", "DOWN"}]

ActionsOf(c) == IF c \in DOMAIN AbsActions THEN AbsActions[c] ELSE {KeyAction[c]}

Directions == {"UP", "DOWN", "LEFT", "RIGHT"}
Buttons == {"A", "B", "X", "Y", "START", "SELECT", "FUNCTION", "POWER"}

\* Only a control that can repeat has to be followed to its release.
Sticks == {c \in Codes : ActionsOf(c) \cap Directions # {}}

NoRepeat == [code |-> None, act |-> None]

-----------------------------------------------------------------------------
(* The screens.  Every operator maps a ui_state to those it can become.    *)

Screens ==
  {"TOP", "ROMS", "GALLERY", "START_MENU", "SETTINGS", "HELP", "WIFI_CONNECT", "SCRAPING",
   "THUMBNAIL_RESULTS", "CORE_SELECT", "POWER_MENU", "GONE"}
Busy == {"POWER_RUNNING", "THUMBNAIL_RUNNING", "TOP_REFRESH_RUNNING"}

\* The children, and the wait after those that play with the input.
Settling == {"launch", "app", "scrape", "connect", "wifi"}
Kinds ==
  Settling \cup
  {"settle", "boot", "core", "wifi-scan", "scan", "sleep", "reboot", "shutdown",
   "repair", "reset", "update", "storage"}

ASSUME NoneAssumption ==
  None \notin Screens \cup Busy \cup Kinds \cup Directions \cup Buttons

Idle == [kind |-> None, arg |-> None, from |-> None]
Settle == [Idle EXCEPT !.kind = "settle"]
NoSecret == [len |-> 0, of |-> {}]

\* The process as main leaves it for the event loop.
Fresh ==
  [screen |-> "TOP", back |-> "TOP", powerBack |-> "TOP", coreBack |-> "TOP",
   menu |-> "start", mrow |-> 1, cat |-> "ui", srow |-> 1, prow |-> 1,
   ret |-> "scraping", stage |-> "SELECT", found |-> {}, sel |-> None,
   pw |-> NoSecret, confirm |-> None, reset |-> None, run |-> Idle,
   overlay |-> FALSE, exit |-> FALSE]

VisibleApps == SelectSeq(AppsMenu, LAMBDA row : row.visible)
Rows(u) == IF u.menu = "start" THEN StartMenu ELSE VisibleApps
MenuRow(u) == Rows(u)[u.mrow]
SettingRow(u) == SettingRows[u.cat][u.srow]

IndexOf(rows, id) ==
  IF \E i \in DOMAIN rows : rows[i].id = id
  THEN CHOOSE i \in DOMAIN rows : rows[i].id = id ELSE 1

Moved(row, a, n) ==
  CASE a = "UP" /\ row > 1 -> row - 1
    [] a = "DOWN" /\ row < n -> row + 1
    [] OTHER -> row

Running(u, kind, arg) ==
  [u EXCEPT !.run = [kind |-> kind, arg |-> arg, from |-> u.screen]]

load_start_menu_entries(u, id) ==
  [u EXCEPT !.menu = "start", !.mrow = IndexOf(StartMenu, id)]

load_apps_menu_entries(u, id) ==
  [u EXCEPT !.menu = "apps", !.mrow = IndexOf(VisibleApps, id)]

open_start_menu(u) ==
  load_start_menu_entries([u EXCEPT !.back = u.screen, !.screen = "START_MENU"], None)

open_apps_menu(u, id) ==
  load_apps_menu_entries([u EXCEPT !.screen = "START_MENU"], id)

open_settings_screen(u, cat, id) ==
  [u EXCEPT !.screen = "SETTINGS", !.cat = cat, !.reset = None,
            !.srow = IndexOf(SettingRows[cat], id)]

open_power_menu(u) ==
  [u EXCEPT !.powerBack = u.screen, !.screen = "POWER_MENU",
            !.prow = Len(PowerMenu)]

close_power_menu(u) ==
  [u EXCEPT !.exit = @ \/ u.overlay, !.screen = u.powerBack]

\* The core menu is the text UI's: each change is one call of it.
load_core_select_lines(u) == Running(u, "core", None)
run_core_text_ui_extra(u) == Running(u, "core", None)

open_core_select_screen(u) ==
  load_core_select_lines([u EXCEPT !.coreBack = u.screen, !.screen = "CORE_SELECT"])

open_wifi_connect_screen(u) ==
  Running([u EXCEPT !.screen = "WIFI_CONNECT", !.stage = "SELECT",
                    !.pw = NoSecret, !.found = {}, !.sel = None],
          "wifi-scan", None)

\* A terminal action covers the screen and forgets the repeat (see Act).
\* An action of another name is refused.
run_power_action(u, what) ==
  CASE what = "sleep" -> {u, Running(u, what, None)}
    [] what \in {"reboot", "shutdown"} ->
         {u, [Running(u, what, None) EXCEPT !.screen = "POWER_RUNNING"]}
    [] OTHER -> {u}

-----------------------------------------------------------------------------
(* The power menu, the core menu, scraping and its results.                *)

OnPowerMenu(u, a) ==
  LET entry == PowerMenu[u.prow]
  IN CASE a \in {"UP", "DOWN"} ->
            {[u EXCEPT !.prow = Moved(@, a, Len(PowerMenu))]}
       [] a = "B" \/ (a = "A" /\ entry = "cancel") -> {close_power_menu(u)}
       [] a = "A" /\ entry # "cancel" ->
            IF u.overlay THEN {u, [u EXCEPT !.exit = TRUE]}
            ELSE run_power_action(u, entry)
       [] OTHER -> {u}

\* A restores the default on one row only, LEFT and RIGHT do nothing there.
OnCoreSelect(u, a) ==
  CASE a = "B" -> {[u EXCEPT !.screen = u.coreBack]}
    [] a \in {"LEFT", "RIGHT", "A"} -> {u, run_core_text_ui_extra(u)}
    [] a = "SELECT" -> {load_core_select_lines(u)}
    [] OTHER -> {u}

\* No target, or no scraper: nothing runs.
run_scraping_action(u) ==
  {u, [Running(u, "scrape", None) EXCEPT !.screen = "THUMBNAIL_RUNNING"]}

open_scraping_screen(u) ==
  Running([u EXCEPT !.screen = "SCRAPING", !.ret = "scraping"], "scan", None)

open_thumbnail_results_screen(u) ==
  [u EXCEPT !.screen = "THUMBNAIL_RESULTS", !.ret = "scraping"]

OnScraping(u, a) ==
  CASE a = "A" -> run_scraping_action(u)
    [] a = "SELECT" -> {open_thumbnail_results_screen(u)}
    [] a = "B" -> {open_apps_menu(u, "scraping")}
    [] a = "START" -> {open_start_menu(u)}
    [] OTHER -> {u}

OnResults(u, a) ==
  CASE a = "B" -> {open_apps_menu(u, u.ret)}
    [] a = "START" -> {open_start_menu(u)}
    [] OTHER -> {u}

-----------------------------------------------------------------------------
(* The Wi-Fi dialogue.  The password is kept by its length and the         *)
(* networks it was typed for; the key under the keyboard cursor is any.    *)

back_to_network_settings(u) ==
  open_settings_screen(u, "network", "network_connect_wifi")

\* Refused for a bad length; otherwise a temporary file carries the name
\* and the password to the helper, unless it cannot be written, or the helper
\* does not start: then the result is shown at once.
run_wifi_connect_selected(u) ==
  IF u.found = {} \/ (u.sel \notin Open /\ u.pw.len \notin MinPassword..MaxPassword)
  THEN {u}
  ELSE {u, [u EXCEPT !.stage = "RESULT"],
        [Running(u, "connect", [net |-> u.sel, secret |-> u.pw]) EXCEPT !.stage = "RESULT"]}

wifi_append_password_char(u) ==
  IF u.pw.len >= MaxPassword THEN u
  ELSE [u EXCEPT !.pw = [len |-> @.len + 1, of |-> @.of \cup {u.sel}]]

wifi_delete_password_char(u) ==
  IF u.pw.len <= 1 THEN [u EXCEPT !.pw = NoSecret] ELSE [u EXCEPT !.pw.len = @ - 1]

\* SHIFT, CLEAR, DEL, a character or CONNECT.
handle_wifi_password_key(u) ==
  {u, [u EXCEPT !.pw = NoSecret], wifi_delete_password_char(u),
   wifi_append_password_char(u)} \cup run_wifi_connect_selected(u)

\* Mutant of ChooseNetwork: the password of an earlier choice survives.
ChooseNetworkKeeping(u) ==
  IF u.sel \in Open THEN run_wifi_connect_selected(u)
  ELSE {[u EXCEPT !.stage = "PASSWORD"]}

ChooseNetwork(u) ==
  LET cleared == [u EXCEPT !.pw = NoSecret]
  IN IF u.sel \in Open THEN run_wifi_connect_selected(cleared)
     ELSE {[cleared EXCEPT !.stage = "PASSWORD"]}

OnWifi(u, a) ==
  CASE u.stage = "RESULT" ->
         IF a \in {"A", "B"} THEN {back_to_network_settings(u)} ELSE {u}
    [] u.stage = "SELECT" ->
         CASE a \in Directions /\ u.found # {} -> {[u EXCEPT !.sel = n] : n \in u.found}
           [] a = "SELECT" -> {Running([u EXCEPT !.found = {}, !.sel = None],
                                       "wifi-scan", None)}
           [] a = "B" -> {back_to_network_settings(u)}
           [] a = "A" /\ u.found # {} -> ChooseNetwork(u)
           [] OTHER -> {u}
    [] u.stage = "PASSWORD" ->
         CASE a = "B" -> {[u EXCEPT !.stage = "SELECT"]}
           [] a = "A" -> handle_wifi_password_key(u)
           [] OTHER -> {u}

-----------------------------------------------------------------------------
(* TOP, the game lists, the START and Apps menus, settings, help.          *)

OnTop(u, a) ==
  CASE a = "A" -> {u, [u EXCEPT !.screen = "ROMS"], [u EXCEPT !.screen = "GALLERY"]}
    [] a = "START" -> {open_start_menu(u)}
    [] a = "SELECT" -> {u, open_core_select_screen(u)}
    [] OTHER -> {u}

launch_rom_entry(u) == {u, Running(u, "launch", None)}

\* The artwork of a list that has games is scanned for, of ROMS in a child.
open_gallery_screen(u) == {u, [u EXCEPT !.screen = "GALLERY"], Running(u, "scan", None)}

\* ROMS stands for FAVORITES and RECENT too.  B leaves a directory first.
OnRoms(u, a) ==
  CASE a = "A" -> launch_rom_entry(u)
    [] a = "B" -> {u, [u EXCEPT !.screen = "TOP"]}
    [] a = "X" /\ u.screen = "ROMS" -> open_gallery_screen(u)
    [] a = "X" /\ u.screen = "GALLERY" -> {[u EXCEPT !.screen = "ROMS"]}
    [] a = "START" -> {open_start_menu(u)}
    [] a = "SELECT" -> {u, open_core_select_screen(u)}
    [] OTHER -> {u}

\* An app with results covers the screen until it ends.
run_menu_shell_action(u, row) ==
  IF row.arg = "results"
  THEN {[Running(u, "app", row.arg) EXCEPT !.screen = "THUMBNAIL_RUNNING",
                                           !.ret = row.id]}
  ELSE {Running(u, "app", row.arg)}

run_sd2_repair(u, row) == {u, Running(u, "repair", row.id)}

\* menu_entry_confirmation_ready, asked of this action only.
RepairRow(u, row) ==
  IF row.confirm /\ u.confirm # row.id THEN {[u EXCEPT !.confirm = row.id]}
  ELSE run_sd2_repair([u EXCEPT !.confirm = None], row)

MenuChosen(u) ==
  LET row == MenuRow(u)
  IN CASE row.action = "settings" -> {open_settings_screen(u, row.arg, None)}
       [] row.action = "help" -> {[u EXCEPT !.screen = "HELP"]}
       [] row.action = "favorites" -> {[u EXCEPT !.screen = "ROMS"]}
       [] row.action = "scraping" -> {open_scraping_screen(u)}
       [] row.action = "sd2-repair" -> RepairRow(u, row)
       [] row.action = "system" -> run_power_action(u, row.arg)
       [] row.action = "apps" -> {open_apps_menu(u, None)}
       [] row.action = "shell" -> run_menu_shell_action(u, row)
       [] row.action = "thumbnail-results" -> {open_thumbnail_results_screen(u)}
       [] OTHER -> {u}                          \* not on this device

\* Mutant of MenuMoved: another row keeps the question alive.
MenuMovedAsking(u, a) == [u EXCEPT !.mrow = Moved(@, a, Len(Rows(u)))]

MenuMoved(u, a) ==
  [u EXCEPT !.mrow = Moved(@, a, Len(Rows(u))), !.confirm = None]

OnStartMenu(u, a) ==
  CASE a \in {"UP", "DOWN"} -> {MenuMoved(u, a)}
    [] a = "B" ->
         LET v == [u EXCEPT !.confirm = None]
         IN IF u.menu = "apps"
            THEN {load_start_menu_entries(v, "apps")}
            ELSE {[v EXCEPT !.screen = u.back]}
    [] a = "A" -> MenuChosen(u)
    [] OTHER -> {u}

\* Where B leads from a category inside another one, and to which row.
ParentOf ==
  [theme |-> [cat |-> "ui", row |-> "ui_theme_settings"],
   color |-> [cat |-> "system", row |-> "system_display_color"],
   time |-> [cat |-> "system", row |-> "system_time_settings"],
   manual |-> [cat |-> "time", row |-> "system_manual_time"],
   information |-> [cat |-> "system", row |-> "system_information"],
   reset |-> [cat |-> "system", row |-> "system_factory_reset"],
   netinfo |-> [cat |-> "network", row |-> "network_information"],
   service |-> [cat |-> "network", row |-> "network_services"]]

\* The helpers behind rows: each may be missing, and then nothing runs.
run_factory_reset_action(u, row) == {u, Running(u, "reset", row.id)}
request_latest_system_update(u) == {u, Running(u, "update", None)}
run_storage_health_check(u) == {u, Running(u, "storage", None)}

confirm_or_run_factory_reset(u, row) ==
  IF u.reset # row.id THEN {[u EXCEPT !.reset = row.id]}
  ELSE run_factory_reset_action([u EXCEPT !.reset = None], row)

refresh_top_entries_manual(u) ==
  {[Running(u, "scan", None) EXCEPT !.screen = "TOP_REFRESH_RUNNING"]}

\* Switching Wi-Fi on waits for its helper.
run_network_wifi_control(u) == {u, Running(u, "wifi", None)}

SettingChosen(u) ==
  LET row == SettingRow(u)
  IN CASE row.action = "value" -> {u}
       [] row.action = "wifi" -> run_network_wifi_control(u)
       [] row.action = "open" -> {open_settings_screen(u, row.arg, None)}
       [] row.action = "refresh" -> refresh_top_entries_manual(u)
       [] row.action = "connect" -> {open_wifi_connect_screen(u)}
       [] row.action = "storage" -> run_storage_health_check(u)
       [] row.action = "update" -> request_latest_system_update(u)
       [] row.action = "reset" -> confirm_or_run_factory_reset(u, row)
       [] OTHER -> {u}

OnSettings(u, a) ==
  CASE a \in {"UP", "DOWN"} ->
         LET r == Moved(u.srow, a, Len(SettingRows[u.cat]))
         IN {IF r = u.srow THEN u ELSE [u EXCEPT !.srow = r, !.reset = None]}
    [] a \in {"LEFT", "RIGHT"} -> {[u EXCEPT !.reset = None]}
    [] a = "B" ->
         LET v == [u EXCEPT !.reset = None]
         IN IF u.cat \in DOMAIN ParentOf
            THEN {open_settings_screen(v, ParentOf[u.cat].cat, ParentOf[u.cat].row)}
            ELSE {[v EXCEPT !.screen = "START_MENU"]}
    [] a = "A" -> SettingChosen(u)
    [] a = "START" -> {open_start_menu(u)}
    [] OTHER -> {u}

OnHelp(u, a) ==
  CASE a = "B" -> {[u EXCEPT !.screen = "START_MENU"]}
    [] a = "START" -> {open_start_menu(u)}
    [] OTHER -> {u}

handle_action(u, a) ==
  CASE a \in {None, "FUNCTION"} \/ u.screen = "POWER_RUNNING" -> {u}
    [] a = "POWER" /\ u.screen # "POWER_RUNNING" ->
         {IF u.screen = "POWER_MENU" THEN u ELSE open_power_menu(u)}
    [] OTHER ->
         CASE u.screen = "POWER_MENU" -> OnPowerMenu(u, a)
           [] u.screen = "CORE_SELECT" -> OnCoreSelect(u, a)
           [] u.screen = "SCRAPING" -> OnScraping(u, a)
           [] u.screen = "THUMBNAIL_RESULTS" -> OnResults(u, a)
           [] u.screen = "WIFI_CONNECT" -> OnWifi(u, a)
           [] u.screen = "TOP" -> OnTop(u, a)
           [] u.screen = "START_MENU" -> OnStartMenu(u, a)
           [] u.screen = "SETTINGS" -> OnSettings(u, a)
           [] u.screen = "HELP" -> OnHelp(u, a)
           [] OTHER -> OnRoms(u, a)

\* A menu has rows, every row a name, and a repair asks first: apps.json of
\* the package says so.  Pages lead to pages that exist.
Listed(rows) ==
  /\ Len(rows) \in Nat \ {0} /\ DOMAIN rows = 1..Len(rows)
  /\ \A i \in DOMAIN rows : rows[i].id # None

Asking(rows) ==
  \A i \in DOMAIN rows :
    /\ rows[i].action = "sd2-repair" => rows[i].confirm = TRUE
    /\ rows[i].action = "settings" => rows[i].arg \in DOMAIN SettingRows

Leading(rows) ==
  \A i \in DOMAIN rows : rows[i].action = "open" => rows[i].arg \in DOMAIN SettingRows

ASSUME MenuAssumption ==
  /\ Listed(StartMenu) /\ Asking(StartMenu)
  /\ Listed(VisibleApps) /\ Asking(VisibleApps)
  /\ {"ui", "network"} \subseteq DOMAIN SettingRows
  /\ \A c \in DOMAIN SettingRows :
       /\ Listed(SettingRows[c]) /\ Leading(SettingRows[c])
       /\ c \in DOMAIN ParentOf => ParentOf[c].cat \in DOMAIN SettingRows

-----------------------------------------------------------------------------
(* Children.  The loop does nothing until the child it started has ended.  *)

Scanned(u) ==
  UNION {{[u EXCEPT !.found = f, !.sel = n] : n \in f} : f \in SUBSET Networks}

\* What the caller does with the child's end: cover screens come down, a
\* refused power action gives the screen back, a done one ends the process.
Ended(u) ==
  LET r == u.run
      v == [u EXCEPT !.run = IF r.kind \in Settling THEN Settle ELSE Idle]
  IN CASE r.kind = "scrape" \/ (r.kind = "app" /\ r.arg = "results") ->
            {[v EXCEPT !.screen = "THUMBNAIL_RESULTS"]}
       [] r.kind = "wifi-scan" ->
            {v} \cup Scanned(v)
       [] r.kind = "scan" /\ u.screen = "TOP_REFRESH_RUNNING" ->
            {[v EXCEPT !.screen = r.from]}
       [] r.kind = "scan" /\ u.screen = "ROMS" -> {[v EXCEPT !.screen = "GALLERY"]}
       [] r.kind = "sleep" /\ u.screen = "POWER_MENU" ->
            {v, [v EXCEPT !.screen = u.powerBack]}
       [] r.kind \in {"reboot", "shutdown"} ->
            {[v EXCEPT !.screen = r.from], [v EXCEPT !.exit = TRUE]}
       [] r.kind = "update" -> {v} \cup run_power_action(v, "reboot")
       [] OTHER -> {v}

-----------------------------------------------------------------------------
(* The event loop.                                                         *)

MenuScreens ==
  {"START_MENU", "SETTINGS", "HELP", "WIFI_CONNECT", "SCRAPING",
   "THUMBNAIL_RESULTS", "THUMBNAIL_RUNNING", "TOP_REFRESH_RUNNING"}

\* The screens the user can be given back without their being opened anew.
Remaining(u) ==
  LET under == IF u.screen \in Busy THEN {u.screen, u.run.from} ELSE {u.screen}
      over == under \cup (IF "POWER_MENU" \in under THEN {u.powerBack} ELSE {})
      core == over \cup (IF "CORE_SELECT" \in over THEN {u.coreBack} ELSE {})
  IN core \cup (IF core \cap MenuScreens # {} THEN {u.back, "START_MENU"} ELSE {})

Kept(screens, remaining, value, dead) ==
  IF screens \cap remaining # {} THEN value ELSE dead

SettingsPages == {"SETTINGS", "TOP_REFRESH_RUNNING"}
ResultPages == {"THUMBNAIL_RESULTS", "THUMBNAIL_RUNNING"}

\* What other screens leave behind is overwritten before it is read again.
Tidy(u) ==
  LET to == Remaining(u)
  IN [u EXCEPT !.powerBack = Kept({"POWER_MENU"}, to, @, "TOP"),
               !.prow = Kept({"POWER_MENU"}, to, @, 1),
               !.coreBack = Kept({"CORE_SELECT"}, to, @, "TOP"),
               !.back = Kept(MenuScreens, to, @, "TOP"),
               !.menu = Kept(MenuScreens, to, @, "start"),
               !.mrow = Kept(MenuScreens, to, @, 1),
               !.confirm = Kept(MenuScreens, to, @, None),
               !.cat = Kept(SettingsPages, to, @, "ui"),
               !.srow = Kept(SettingsPages, to, @, 1),
               !.reset = Kept(SettingsPages, to, @, None),
               !.ret = Kept(ResultPages, to, @, "scraping"),
               !.stage = Kept({"WIFI_CONNECT"}, to, @, "SELECT"),
               !.found = Kept({"WIFI_CONNECT"}, to, @, {}),
               !.sel = Kept({"WIFI_CONNECT"}, to, @, None),
               !.pw = Kept({"WIFI_CONNECT"}, to, @, NoSecret)]

Pages == {"START_MENU", "SETTINGS"}

Cursor(u) == IF u.screen = "START_MENU" THEN u.mrow ELSE u.srow

\* The destructive row under the cursor, if it is one.
Danger(u) ==
  LET row == IF u.screen = "START_MENU" THEN MenuRow(u) ELSE SettingRow(u)
  IN IF row.action \in {"sd2-repair", "reset"} THEN row.id ELSE None

Remembered(u, a, v) ==
  [p \in Pages |->
     IF p \notin Remaining(v) THEN None
     ELSE IF p # u.screen THEN trail[p]
     ELSE IF a = "A" THEN Danger(u)
     ELSE IF a = "B" \/ Cursor(u) # Cursor([v EXCEPT !.screen = p]) THEN None
     ELSE trail[p]]

Listening == ui.run = Idle /\ ~ui.exit /\ ~term /\ ui.screen # "GONE"

\* handle_action and the rendering after it.
Act(a, r) ==
  /\ ui' \in {Tidy(v) : v \in handle_action(ui, a)}
  /\ repeat' = IF ui'.screen = "POWER_RUNNING" THEN NoRepeat ELSE r
  /\ trail' = Remembered(ui, a, ui')

\* action_repeat_interval_ms is positive on the current screen.
Repeats(a) ==
  \/ a \in {"UP", "DOWN"}
  \/ /\ a \in {"LEFT", "RIGHT"}
     /\ CASE ui.screen = "WIFI_CONNECT" -> ui.stage = "PASSWORD"
          [] ui.screen = "TOP" -> TopStrip
          [] ui.screen = "GALLERY" -> TRUE
          [] ui.screen = "SETTINGS" -> SettingRow(ui).action = "value"
          [] OTHER -> FALSE

\* Mutant of ReadEvent: the centre of an axis is not taken as a release.
ReadEventStuck(acc, e) ==
  IF e.act = None
  THEN IF acc.repeat.code = e.code /\ e.code \notin DOMAIN AbsActions
       THEN [acc EXCEPT !.repeat = NoRepeat] ELSE acc
  ELSE [action |-> e.act,
        repeat |-> IF Repeats(e.act) THEN [code |-> e.code, act |-> e.act] ELSE acc.repeat]

\* One event: a release ends its own repeat, a press is the action so far,
\* and an axis that goes on pointing where it repeats is not heard again.
ReadEvent(acc, e) ==
  CASE e.act = None ->
         IF acc.repeat.code = e.code THEN [acc EXCEPT !.repeat = NoRepeat] ELSE acc
    [] e.code \in DOMAIN AbsActions
         /\ acc.repeat = [code |-> e.code, act |-> e.act] -> acc
    [] OTHER ->
         [action |-> e.act,
          repeat |-> IF Repeats(e.act) THEN [code |-> e.code, act |-> e.act]
                     ELSE acc.repeat]

\* The whole queue is read and its last action is the one performed.
read_input_actions ==
  LET read[n \in 0..Len(queue)] ==
        IF n = 0 THEN [action |-> None, repeat |-> repeat] ELSE ReadEvent(read[n - 1], queue[n])
  IN read[Len(queue)]

\* A repeat that is due acts again, or ends where the screen has none.
Fire(r) == IF Repeats(r.act) THEN Act(r.act, r) ELSE Act(None, NoRepeat)

Queued == {queue[i].code : i \in DOMAIN queue} \cap Sticks

ReadInput ==
  /\ Listening /\ ~ignoring
  /\ queue # <<>> \/ power
  /\ LET read == read_input_actions
         a == IF power THEN "POWER" ELSE read.action
     IN IF a = None /\ read.repeat # NoRepeat
        THEN \/ Act(None, read.repeat)
             \/ Fire(read.repeat)
        ELSE Act(a, read.repeat)
  /\ queue' = <<>> /\ power' = FALSE
  /\ lost' = (lost /\ repeat'.code = repeat.code /\ repeat.code \notin Queued)
  /\ UNCHANGED <<ignoring, pos, term>>

\* poll times out and the repeat is due, in the ignored time too.
RepeatDue ==
  /\ Listening /\ queue = <<>> /\ ~power
  /\ repeat # NoRepeat
  /\ Fire(repeat)
  /\ lost' = (lost /\ repeat' # NoRepeat)
  /\ UNCHANGED <<ignoring, queue, power, pos, term>>

Drained ==
  /\ queue' = <<>> /\ power' = FALSE
  /\ lost' = (lost \/ repeat.code \in Queued)

DrainIgnored ==
  /\ Listening /\ ignoring
  /\ queue # <<>> \/ power
  /\ Drained
  /\ UNCHANGED <<ui, repeat, ignoring, pos, term, trail>>

IgnoreEnds ==
  /\ ignoring
  /\ ignoring' = FALSE
  /\ UNCHANGED <<ui, repeat, queue, power, pos, term, lost, trail>>

ChildEnds ==
  /\ ui.run.kind \notin {None, "settle"}
  /\ ui' \in {Tidy(v) : v \in Ended(ui)}
  /\ repeat' = IF ui'.screen = "POWER_RUNNING" THEN NoRepeat ELSE repeat
  /\ IF ui'.run = Settle THEN Drained
     ELSE lost' = (lost /\ repeat' # NoRepeat) /\ UNCHANGED <<queue, power>>
  /\ UNCHANGED <<ignoring, pos, term, trail>>

\* settle_input_after_child: only input_event_fd is drained again.
SettleDrains ==
  /\ ui.run = Settle /\ queue # <<>>
  /\ queue' = <<>> /\ lost' = (lost \/ repeat.code \in Queued)
  /\ UNCHANGED <<ui, repeat, ignoring, power, pos, term, trail>>

\* A quiet quarter of a second, or the deadline with events still coming.
SettleEnds ==
  /\ ui.run = Settle
  /\ ui' = [ui EXCEPT !.run = Idle] /\ ignoring' = TRUE
  /\ UNCHANGED <<repeat, queue, power, pos, term, lost, trail>>

\* The five seconds of a question are over.
QuestionExpires ==
  /\ <<ui.confirm, ui.reset>> # <<None, None>>
  /\ ui' = [ui EXCEPT !.confirm = None, !.reset = None]
  /\ UNCHANGED <<repeat, ignoring, queue, power, pos, term, lost, trail>>

\* The loop leaves for an exit that was asked for or for SIGTERM.
Leave ==
  /\ ui.screen # "GONE" /\ ui.run = Idle
  /\ ui.exit \/ term
  /\ ui' = [Fresh EXCEPT !.screen = "GONE"]
  /\ repeat' = NoRepeat /\ ignoring' = FALSE /\ queue' = <<>> /\ power' = FALSE
  /\ term' = FALSE /\ lost' = FALSE /\ trail' = [p \in Pages |-> None]
  /\ UNCHANGED pos

run_boot_resume_if_needed(u) == {u, Running(u, "boot", None)}

\* The supervisor starts the frontend, or the power-menu overlay.
Starts ==
  run_boot_resume_if_needed(Fresh)
    \cup {[Fresh EXCEPT !.screen = "ROMS"],
          [open_power_menu(Fresh) EXCEPT !.overlay = TRUE]}

Start ==
  /\ ui.screen = "GONE"
  /\ ui' \in Starts
  /\ UNCHANGED <<repeat, ignoring, queue, power, pos, term, lost, trail>>

-----------------------------------------------------------------------------
(* The world: fingers, the kernel's event buffer, and the supervisor.      *)

\* A button before another key press has no effect when the queue is read,
\* and is not kept.  An axis may turn out to be one that is not heard.
WithoutButtons ==
  LET kept[n \in 0..Len(queue)] ==
        IF n = 0 THEN <<>>
        ELSE IF queue[n].code \in Sticks THEN Append(kept[n - 1], queue[n]) ELSE kept[n - 1]
  IN kept[Len(queue)]

\* A full buffer forgets what it held and keeps the newest.
Deliver(e) ==
  LET waiting == IF e.act = None \/ e.code \in DOMAIN AbsActions THEN queue ELSE WithoutButtons
  IN IF Len(waiting) < EventBuffer
     THEN queue' = Append(waiting, e) /\ UNCHANGED lost
     ELSE queue' = <<e>> /\ lost' = (lost \/ repeat.code \in Queued)

\* A key changes, an axis may report the same direction again.
Move ==
  /\ ui.screen # "GONE" /\ ~term
  /\ \E c \in Sticks : \E a \in ActionsOf(c) \cup {None} :
       /\ a # pos[c] \/ (c \in DOMAIN AbsActions /\ a # None)
       /\ pos' = [pos EXCEPT ![c] = a]
       /\ Deliver([code |-> c, act |-> a])
  /\ UNCHANGED <<ui, repeat, ignoring, power, term, trail>>

Tap ==
  /\ ui.screen # "GONE" /\ ~term
  /\ \E c \in Codes \ Sticks : Deliver([code |-> c, act |-> KeyAction[c]])
  /\ UNCHANGED <<ui, repeat, ignoring, power, pos, term, trail>>

PowerKey ==
  /\ ui.screen # "GONE" /\ ~term /\ ~power
  /\ power' = TRUE
  /\ UNCHANGED <<ui, repeat, ignoring, queue, pos, term, lost, trail>>

\* Nothing is read after it: what waits, and what is typed later, is dropped.
Sigterm ==
  /\ ui.screen # "GONE" /\ ~term
  /\ term' = TRUE /\ queue' = <<>> /\ power' = FALSE
  /\ repeat' = NoRepeat /\ lost' = FALSE
  /\ UNCHANGED <<ui, ignoring, pos, trail>>

Init ==
  /\ ui \in Starts /\ repeat = NoRepeat /\ ignoring = FALSE
  /\ queue = <<>> /\ power = FALSE /\ term = FALSE /\ lost = FALSE
  /\ pos = [c \in Sticks |-> None] /\ trail = [p \in Pages |-> None]

Next ==
  \/ ReadInput \/ RepeatDue \/ DrainIgnored \/ IgnoreEnds
  \/ ChildEnds \/ SettleDrains \/ SettleEnds \/ QuestionExpires
  \/ Leave \/ Start \/ Move \/ Tap \/ PowerKey \/ Sigterm

Spec == Init /\ [][Next]_vars

-----------------------------------------------------------------------------
(* Properties.                                                             *)

(* A direction repeats only while its control is deflected, its release    *)
(* waits to be read, or an event of it was thrown away unread: by the      *)
(* drains around a child or a full buffer.  Only there can a ghost repeat  *)
(* begin (read_input_actions, settle_input_after_child).                   *)
RepeatHasCause ==
  repeat # NoRepeat =>
    \/ pos[repeat.code] # None
    \/ repeat.code \in Queued
    \/ lost

(* SD2 repair and a factory reset start only on a second A on their own    *)
(* row, with no other row and no B on that page since the first.           *)
DestructionIsConfirmed ==
  [][ui'.run # ui.run =>
       /\ ui'.run.kind = "repair" => trail["START_MENU"] = ui'.run.arg
       /\ ui'.run.kind = "reset" => trail["SETTINGS"] = ui'.run.arg]_vars

(* A password goes to the helper only with the network it was typed for,   *)
(* whatever was typed, left and rescanned before.                          *)
SecretForItsNetwork ==
  ui.run.kind = "connect" =>
    /\ ui.run.arg.secret.of \subseteq {ui.run.arg.net}
    /\ ui.run.arg.net \in Open => ui.run.arg.secret = NoSecret

=============================================================================
