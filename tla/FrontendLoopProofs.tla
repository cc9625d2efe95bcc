------------------------- MODULE FrontendLoopProofs -------------------------
(***************************************************************************)
(* Proofs about FrontendLoop, for every menu, settings tree, set of        *)
(* networks, set of controls and size of the event buffer.                 *)
(***************************************************************************)
EXTENDS FrontendLoop, WellFoundedInduction, TLAPS

Fields ==
  {"screen", "back", "powerBack", "coreBack", "menu", "mrow", "cat", "srow",
   "prow", "ret", "stage", "found", "sel", "pw", "confirm", "reset", "run",
   "overlay", "exit"}

HasFields(u) == Fields \subseteq DOMAIN u

-----------------------------------------------------------------------------
(* What Tidy leaves alone.                                                 *)

\* Tidy, field by field.
LEMMA TidyFields ==
  ASSUME NEW u, HasFields(u)
  PROVE  /\ HasFields(Tidy(u))
         /\ Tidy(u).screen = u.screen /\ Tidy(u).run = u.run
         /\ Tidy(u).exit = u.exit /\ Tidy(u).overlay = u.overlay
         /\ Tidy(u).powerBack = Kept({"POWER_MENU"}, Remaining(u), u.powerBack, "TOP")
         /\ Tidy(u).coreBack = Kept({"CORE_SELECT"}, Remaining(u), u.coreBack, "TOP")
         /\ Tidy(u).back = Kept(MenuScreens, Remaining(u), u.back, "TOP")
         /\ Tidy(u).menu = Kept(MenuScreens, Remaining(u), u.menu, "start")
         /\ Tidy(u).mrow = Kept(MenuScreens, Remaining(u), u.mrow, 1)
         /\ Tidy(u).confirm = Kept(MenuScreens, Remaining(u), u.confirm, None)
         /\ Tidy(u).cat = Kept(SettingsPages, Remaining(u), u.cat, "ui")
         /\ Tidy(u).srow = Kept(SettingsPages, Remaining(u), u.srow, 1)
         /\ Tidy(u).reset = Kept(SettingsPages, Remaining(u), u.reset, None)
         /\ Tidy(u).stage = Kept({"WIFI_CONNECT"}, Remaining(u), u.stage, "SELECT")
         /\ Tidy(u).sel = Kept({"WIFI_CONNECT"}, Remaining(u), u.sel, None)
         /\ Tidy(u).pw = Kept({"WIFI_CONNECT"}, Remaining(u), u.pw, NoSecret)
  BY DEF Tidy, HasFields, Fields

\* Tidy overwrites where a screen leads back to only if nothing leads there.
LEMMA TidyRemaining ==
  ASSUME NEW u, HasFields(u)
  PROVE  Remaining(Tidy(u)) = Remaining(u)
  <1> DEFINE t == Tidy(u)
             under == IF u.screen \in Busy THEN {u.screen, u.run.from} ELSE {u.screen}
             Over(b) == under \cup (IF "POWER_MENU" \in under THEN {b} ELSE {})
             Core(s, b) == s \cup (IF "CORE_SELECT" \in s THEN {b} ELSE {})
             All(s, b) == s \cup (IF s \cap MenuScreens # {} THEN {b, "START_MENU"} ELSE {})
             over == Over(u.powerBack)
             core == Core(over, u.coreBack)
  <1>1. Remaining(u) = All(core, u.back)
    BY DEF Remaining
  <1>2. Remaining(t) = All(Core(Over(t.powerBack), t.coreBack), t.back)
    BY TidyFields DEF Remaining
  <1>3. "POWER_MENU" \in under => t.powerBack = u.powerBack
    BY <1>1, TidyFields DEF Kept
  <1>4. Over(t.powerBack) = over
    BY <1>3
  <1>5. "CORE_SELECT" \in over => t.coreBack = u.coreBack
    BY <1>1, TidyFields DEF Kept
  <1>6. Core(over, t.coreBack) = core
    <2> HIDE DEF over
    <2> QED BY <1>5
  <1>7. core \cap MenuScreens # {} => t.back = u.back
    <2> HIDE DEF core
    <2> QED BY <1>1, TidyFields DEF Kept
  <1> HIDE DEF core, over, Over, t
  <1> QED
    BY <1>1, <1>2, <1>4, <1>6, <1>7 DEF t

-----------------------------------------------------------------------------
(* The Wi-Fi dialogue.                                                     *)

\* What the password typed so far was typed for, at every point of the
\* dialogue where it can still be sent.
Secret(u) ==
  /\ HasFields(u)
  /\ {"len", "of"} \subseteq DOMAIN u.pw
  /\ u.stage \in {"SELECT", "PASSWORD", "RESULT"}
  /\ u.stage = "PASSWORD" => u.pw.of \subseteq {u.sel} /\ u.sel \notin Open
  /\ u.run.kind = "wifi-scan" => u.stage = "SELECT"
  /\ u.run.kind = "connect" =>
       /\ u.run.arg.secret.of \subseteq {u.run.arg.net}
       /\ u.run.arg.net \in Open => u.run.arg.secret = NoSecret

\* A step that leaves the dialogue alone.
Aside(u, v) ==
  /\ HasFields(v)
  /\ v.stage = u.stage /\ v.sel = u.sel /\ v.pw = u.pw
  /\ v.run.kind \notin {"wifi-scan", "connect"}

LEMMA AsideSecret ==
  ASSUME NEW u, NEW v, Secret(u), Aside(u, v)
  PROVE  Secret(v)
  BY DEF Secret, Aside

LEMMA TidySecret ==
  ASSUME NEW u, Secret(u)
  PROVE  Secret(Tidy(u))
  <1>1. HasFields(u)
    BY DEF Secret
  <1>2. NoSecret.of = {} /\ {"len", "of"} \subseteq DOMAIN NoSecret
    BY DEF NoSecret
  <1> QED
    BY <1>1, <1>2, TidyFields DEF Secret, Kept

\* The screens the dialogue is not on.
LEMMA PowerAside ==
  ASSUME NEW u, HasFields(u), u.run.kind \notin {"wifi-scan", "connect"}, NEW what,
         NEW v \in run_power_action(u, what)
  PROVE  Aside(u, v)
  <1>1. Aside(u, u)
    BY DEF Aside
  <1>2. CASE what = "sleep"
    <2>1. Aside(u, Running(u, what, None))
      BY <1>2 DEF Running, Aside, HasFields, Fields
    <2> QED
      BY <1>1, <1>2, <2>1 DEF run_power_action
  <1>3. CASE what \in {"reboot", "shutdown"}
    <2>1. Aside(u, [Running(u, what, None) EXCEPT !.screen = "POWER_RUNNING"])
      BY <1>3 DEF Running, Aside, HasFields, Fields
    <2> QED
      BY <1>1, <1>3, <2>1 DEF run_power_action
  <1> QED
    BY <1>1, <1>2, <1>3 DEF run_power_action

LEMMA IdleAside ==
  ASSUME NEW u, HasFields(u), u.run = Idle
  PROVE  u.run.kind \notin {"wifi-scan", "connect"} /\ Aside(u, u)
  <1>1. None # "wifi-scan" /\ None # "connect"
    BY NoneAssumption DEF Kinds, Settling
  <1> QED
    BY <1>1 DEF Idle, Aside

LEMMA MenusAside ==
  ASSUME NEW u, HasFields(u), u.run = Idle, NEW id
  PROVE  /\ Aside(u, open_start_menu(u)) /\ Aside(u, open_apps_menu(u, id))
         /\ \A cat : Aside(u, open_settings_screen(u, cat, id))
  BY IdleAside
     DEF Aside, open_start_menu, open_apps_menu, load_start_menu_entries, Idle,
         load_apps_menu_entries, open_settings_screen, HasFields, Fields

LEMMA OnPowerMenuAside ==
  ASSUME NEW u, HasFields(u), u.run = Idle, NEW a, NEW v \in OnPowerMenu(u, a)
  PROVE  Aside(u, v)
  <1>1. u.run.kind \notin {"wifi-scan", "connect"} /\ Aside(u, u)
    BY IdleAside
  <1> DEFINE moved == Moved(u.prow, a, Len(PowerMenu))
  <1> HIDE DEF moved
  <1>2. Aside(u, [u EXCEPT !.prow = moved]) /\ Aside(u, [u EXCEPT !.exit = TRUE])
    BY <1>1 DEF Aside, HasFields, Fields
  <1>3. Aside(u, close_power_menu(u))
    BY <1>1 DEF Aside, HasFields, Fields, close_power_menu
  <1> QED
    BY <1>1, <1>2, <1>3, PowerAside DEF OnPowerMenu, moved

LEMMA OnCoreSelectAside ==
  ASSUME NEW u, HasFields(u), u.run = Idle, NEW a, NEW v \in OnCoreSelect(u, a)
  PROVE  Aside(u, v)
  <1>1. Aside(u, u) /\ Aside(u, [u EXCEPT !.screen = u.coreBack])
    BY IdleAside DEF Aside, HasFields, Fields
  <1>2. Aside(u, Running(u, "core", None))
    BY IdleAside DEF Running, Aside, HasFields, Fields
  <1> QED
    BY <1>1, <1>2 DEF OnCoreSelect, run_core_text_ui_extra, load_core_select_lines

LEMMA OnScrapingAside ==
  ASSUME NEW u, HasFields(u), u.run = Idle, NEW a,
         NEW v \in OnScraping(u, a) \cup OnResults(u, a) \cup OnHelp(u, a)
  PROVE  Aside(u, v)
  <1>1. Aside(u, u) /\ Aside(u, [u EXCEPT !.screen = "START_MENU"])
    BY IdleAside DEF Aside, HasFields, Fields
  <1>2. Aside(u, [Running(u, "scrape", None) EXCEPT !.screen = "THUMBNAIL_RUNNING"])
    BY IdleAside DEF Running, Aside, HasFields, Fields
  <1>3. Aside(u, open_thumbnail_results_screen(u))
    BY IdleAside DEF open_thumbnail_results_screen, Aside, HasFields, Fields
  <1> QED
    BY <1>1, <1>2, <1>3, MenusAside DEF OnScraping, OnResults, OnHelp, run_scraping_action

LEMMA OnTopAside ==
  ASSUME NEW u, HasFields(u), u.run = Idle, NEW a,
         NEW v \in OnTop(u, a) \cup OnRoms(u, a)
  PROVE  Aside(u, v)
  <1>1. /\ Aside(u, u)
        /\ Aside(u, [u EXCEPT !.screen = "ROMS"]) /\ Aside(u, [u EXCEPT !.screen = "TOP"])
        /\ Aside(u, [u EXCEPT !.screen = "GALLERY"])
    BY IdleAside DEF Aside, HasFields, Fields
  <1>2. Aside(u, Running(u, "launch", None)) /\ Aside(u, Running(u, "scan", None))
    BY IdleAside DEF Running, Aside, HasFields, Fields
  <1>3. Aside(u, open_core_select_screen(u))
    BY IdleAside
       DEF open_core_select_screen, load_core_select_lines, Running, Aside, HasFields, Fields
  <1> QED
    BY <1>1, <1>2, <1>3, MenusAside DEF OnTop, OnRoms, launch_rom_entry, open_gallery_screen

LEMMA MenuChosenAside ==
  ASSUME NEW u, HasFields(u), u.run = Idle, NEW v \in MenuChosen(u)
  PROVE  Aside(u, v)
  <1>1. u.run.kind \notin {"wifi-scan", "connect"} /\ Aside(u, u)
    BY IdleAside
  <1>2. /\ Aside(u, [u EXCEPT !.screen = "HELP"]) /\ Aside(u, [u EXCEPT !.screen = "ROMS"])
        /\ Aside(u, open_thumbnail_results_screen(u))
    BY <1>1 DEF open_thumbnail_results_screen, Aside, HasFields, Fields
  <1>3. Aside(u, open_scraping_screen(u))
    BY <1>1 DEF open_scraping_screen, Running, Aside, HasFields, Fields
  <1>4. ASSUME NEW row, NEW w \in RepairRow(u, row)
        PROVE  Aside(u, w)
    <2> DEFINE id == row.id
    <2> HIDE DEF id
    <2>1. Aside(u, [u EXCEPT !.confirm = id]) /\ Aside(u, [u EXCEPT !.confirm = None])
      BY <1>1 DEF Aside, HasFields, Fields
    <2>2. Aside(u, Running([u EXCEPT !.confirm = None], "repair", id))
      BY <1>1 DEF Running, Aside, HasFields, Fields
    <2> QED
      BY <1>4, <2>1, <2>2 DEF RepairRow, run_sd2_repair, id
  <1>5. ASSUME NEW row, NEW w \in run_menu_shell_action(u, row)
        PROVE  Aside(u, w)
    <2> DEFINE id == row.id
               arg == row.arg
               ran == Running(u, "app", arg)
    <2> HIDE DEF id, arg
    <2>1. Aside(u, ran) /\ Aside(u, [ran EXCEPT !.screen = "THUMBNAIL_RUNNING", !.ret = id])
      BY <1>1 DEF Running, Aside, HasFields, Fields
    <2> QED
      BY <1>5, <2>1 DEF run_menu_shell_action, id, arg
  <1>6. ASSUME NEW row, NEW w \in run_power_action(u, row.arg)
        PROVE  Aside(u, w)
    BY <1>1, <1>6, PowerAside
  <1> QED
    BY <1>1, <1>2, <1>3, <1>4, <1>5, <1>6, MenusAside DEF MenuChosen

LEMMA OnStartMenuAside ==
  ASSUME NEW u, HasFields(u), u.run = Idle, NEW a, NEW v \in OnStartMenu(u, a)
  PROVE  Aside(u, v)
  <1>1. Aside(u, u)
    BY IdleAside
  <1>2. Aside(u, MenuMoved(u, a))
    BY <1>1 DEF MenuMoved, Aside, HasFields, Fields
  <1> DEFINE w == [u EXCEPT !.confirm = None]
  <1>3. Aside(u, load_start_menu_entries(w, "apps")) /\ Aside(u, [w EXCEPT !.screen = u.back])
    BY <1>1 DEF load_start_menu_entries, Aside, HasFields, Fields
  <1> QED
    BY <1>1, <1>2, <1>3, MenuChosenAside DEF OnStartMenu

\* The page that opens the dialogue opens it empty.
LEMMA SettingChosenSecret ==
  ASSUME NEW u, Secret(u), u.run = Idle, NEW v \in SettingChosen(u)
  PROVE  Secret(v)
  <1> DEFINE row == SettingRow(u)
             id == row.id
             asked == [u EXCEPT !.reset = id]
             told == [u EXCEPT !.reset = None]
  <1> HIDE DEF row, id
  <1>1. u.run.kind \notin {"wifi-scan", "connect"} /\ Aside(u, u) /\ HasFields(u)
    BY IdleAside DEF Secret
  <1>2. Aside(u, asked) /\ Aside(u, told)
    BY <1>1 DEF Aside, HasFields, Fields
  <1>3. Aside(u, Running(told, "reset", id))
    BY <1>1 DEF Running, Aside, HasFields, Fields
  <1>4. /\ Aside(u, Running(u, "update", None)) /\ Aside(u, Running(u, "storage", None))
        /\ Aside(u, Running(u, "wifi", None))
    BY <1>1 DEF Running, Aside, HasFields, Fields
  <1>5. Aside(u, [Running(u, "scan", None) EXCEPT !.screen = "TOP_REFRESH_RUNNING"])
    BY <1>1 DEF Running, Aside, HasFields, Fields
  <1>6. \A cat : Aside(u, open_settings_screen(u, cat, None))
    BY <1>1, MenusAside
  <1>7. Secret(open_wifi_connect_screen(u))
    BY <1>1 DEF open_wifi_connect_screen, Running, Secret, NoSecret, HasFields, Fields
  <1>8. Aside(u, v) \/ v = open_wifi_connect_screen(u)
    <2> HIDE DEF asked, told
    <2> QED
      BY <1>1, <1>2, <1>3, <1>4, <1>5, <1>6
         DEF SettingChosen, refresh_top_entries_manual, run_storage_health_check, row, id,
             request_latest_system_update, confirm_or_run_factory_reset, asked, told,
             run_factory_reset_action, run_network_wifi_control
  <1> QED
    BY <1>7, <1>8, AsideSecret

LEMMA OnSettingsSecret ==
  ASSUME NEW u, Secret(u), u.run = Idle, NEW a, NEW v \in OnSettings(u, a)
  PROVE  Secret(v)
  <1> DEFINE r == Moved(u.srow, a, Len(SettingRows[u.cat]))
             moved == [u EXCEPT !.srow = r, !.reset = None]
             told == [u EXCEPT !.reset = None]
  <1>1. Aside(u, u) /\ HasFields(u)
    BY IdleAside DEF Secret
  <1>2. Aside(u, told) /\ Aside(u, [told EXCEPT !.screen = "START_MENU"])
    BY <1>1 DEF Aside, HasFields, Fields
  <1>3. Aside(u, moved)
    <2> HIDE DEF r
    <2> QED BY <1>1 DEF Aside, HasFields, Fields
  <1>4. ASSUME NEW cat, NEW id
        PROVE  Aside(u, open_settings_screen(told, cat, id))
    BY <1>1 DEF open_settings_screen, Aside, HasFields, Fields
  <1>5. CASE a = "A"
    BY <1>5, SettingChosenSecret DEF OnSettings
  <1>6. CASE a # "A"
    <2>1. Aside(u, v)
      <3> HIDE DEF told, moved
      <3> QED
        BY <1>1, <1>2, <1>3, <1>4, <1>6, MenusAside DEF OnSettings, told, moved
    <2> QED
      BY <2>1, AsideSecret
  <1> QED
    BY <1>5, <1>6

\* A connection is started with an empty password for an open network, and
\* with what was typed for the selected one otherwise.
LEMMA ConnectSecret ==
  ASSUME NEW u, Secret(u), u.run = Idle,
         u.sel \in Open => u.pw = NoSecret,
         u.pw.of \subseteq {u.sel},
         NEW v \in run_wifi_connect_selected(u)
  PROVE  Secret(v)
  <1> DEFINE ran == [Running(u, "connect", [net |-> u.sel, secret |-> u.pw])
                       EXCEPT !.stage = "RESULT"]
  <1>1. Secret(ran)
    BY DEF Running, Secret, HasFields, Fields
  <1>2. Secret([u EXCEPT !.stage = "RESULT"])
    BY IdleAside DEF Secret, HasFields, Fields
  <1> QED
    BY <1>1, <1>2 DEF run_wifi_connect_selected

LEMMA PasswordSecret ==
  ASSUME NEW u, Secret(u), u.run = Idle, u.stage = "PASSWORD",
         NEW v \in handle_wifi_password_key(u)
  PROVE  Secret(v)
  <1>1. u.run.kind \notin {"wifi-scan", "connect"}
    BY IdleAside DEF Secret
  <1>2. Secret([u EXCEPT !.pw = NoSecret])
    BY <1>1 DEF Secret, NoSecret, HasFields, Fields
  <1>3. Secret(wifi_delete_password_char(u))
    <2>1. CASE u.pw.len <= 1
      BY <1>2, <2>1 DEF wifi_delete_password_char
    <2>2. CASE ~(u.pw.len <= 1)
      <3> DEFINE n == u.pw.len - 1
                 p == [u.pw EXCEPT !.len = n]
      <3> HIDE DEF n
      <3>1. p.of = u.pw.of /\ {"len", "of"} \subseteq DOMAIN p
        BY DEF Secret
      <3> HIDE DEF p
      <3>2. Secret([u EXCEPT !.pw = p])
        BY <1>1, <3>1 DEF Secret, HasFields, Fields
      <3>3. wifi_delete_password_char(u) = [u EXCEPT !.pw = p]
        BY <2>2 DEF wifi_delete_password_char, p, n
      <3> QED
        BY <3>2, <3>3
    <2> QED
      BY <2>1, <2>2
  <1>4. Secret(wifi_append_password_char(u))
    <2> DEFINE p == [len |-> u.pw.len + 1, of |-> u.pw.of \cup {u.sel}]
    <2>1. p.of \subseteq {u.sel} /\ {"len", "of"} \subseteq DOMAIN p
      BY DEF Secret
    <2> HIDE DEF p
    <2>2. Secret([u EXCEPT !.pw = p])
      BY <1>1, <2>1 DEF Secret, HasFields, Fields
    <2> QED
      BY <2>2 DEF wifi_append_password_char, p
  <1>5. ASSUME v \in run_wifi_connect_selected(u)
        PROVE  Secret(v)
    BY <1>5, ConnectSecret DEF Secret
  <1> QED
    BY <1>2, <1>3, <1>4, <1>5 DEF handle_wifi_password_key

LEMMA ChooseSecret ==
  ASSUME NEW u, Secret(u), u.run = Idle, u.stage = "SELECT", NEW v \in ChooseNetwork(u)
  PROVE  Secret(v)
  <1> DEFINE cleared == [u EXCEPT !.pw = NoSecret]
  <1>1. u.run.kind \notin {"wifi-scan", "connect"}
    BY IdleAside DEF Secret
  <1>2. NoSecret.of = {} /\ {"len", "of"} \subseteq DOMAIN NoSecret
    BY DEF NoSecret
  <1>3. /\ Secret(cleared) /\ cleared.run = Idle
        /\ cleared.pw = NoSecret /\ cleared.sel = u.sel
    BY <1>1, <1>2 DEF Secret, HasFields, Fields
  <1>4. CASE u.sel \in Open
    <2> HIDE DEF cleared
    <2>1. v \in run_wifi_connect_selected(cleared)
      BY <1>4 DEF ChooseNetwork, cleared
    <2> QED
      BY <1>2, <1>3, <2>1, ConnectSecret
  <1>5. CASE u.sel \notin Open
    <2>1. v = [cleared EXCEPT !.stage = "PASSWORD"]
      BY <1>5 DEF ChooseNetwork
    <2> QED
      BY <1>1, <1>2, <1>5, <2>1 DEF Secret, HasFields, Fields
  <1> QED
    BY <1>4, <1>5

LEMMA OnWifiSecret ==
  ASSUME NEW u, Secret(u), u.run = Idle, NEW a, NEW v \in OnWifi(u, a)
  PROVE  Secret(v)
  <1>1. u.run.kind \notin {"wifi-scan", "connect"} /\ Aside(u, u) /\ HasFields(u)
    BY IdleAside DEF Secret
  <1>2. Secret(back_to_network_settings(u))
    BY <1>1, MenusAside, AsideSecret DEF back_to_network_settings
  <1>3. CASE u.stage = "RESULT"
    BY <1>2, <1>3 DEF OnWifi
  <1>4. CASE u.stage = "SELECT"
    <2>1. ASSUME NEW n
          PROVE  Secret([u EXCEPT !.sel = n])
      BY <1>1, <1>4 DEF Secret, HasFields, Fields
    <2> DEFINE empty == [u EXCEPT !.found = {}, !.sel = None]
    <2>2. Secret(Running(empty, "wifi-scan", None))
      BY <1>1, <1>4 DEF Running, Secret, HasFields, Fields
    <2>3. CASE a \in Directions /\ u.found # {}
      BY <1>4, <2>1, <2>3 DEF OnWifi, Directions
    <2>4. CASE ~(a \in Directions /\ u.found # {})
      <3> HIDE DEF empty
      <3> QED
        BY <1>2, <1>4, <2>2, <2>4, ChooseSecret DEF OnWifi, empty
    <2> QED
      BY <2>3, <2>4
  <1>5. CASE u.stage = "PASSWORD"
    <2>1. Secret([u EXCEPT !.stage = "SELECT"])
      BY <1>1, <1>5 DEF Secret, HasFields, Fields
    <2> QED
      BY <1>5, <2>1, PasswordSecret DEF OnWifi
  <1> QED
    BY <1>3, <1>4, <1>5 DEF Secret

LEMMA HandleSecret ==
  ASSUME NEW u, Secret(u), u.run = Idle, NEW a, NEW v \in handle_action(u, a)
  PROVE  Secret(v)
  <1>1. HasFields(u) /\ Aside(u, u)
    BY IdleAside DEF Secret
  <1>2. Aside(u, open_power_menu(u))
    BY <1>1 DEF open_power_menu, Aside, HasFields, Fields
  <1>3. \/ v = u \/ v = open_power_menu(u)
        \/ v \in OnWifi(u, a) \/ v \in OnSettings(u, a)
        \/ v \in OnPowerMenu(u, a) \/ v \in OnCoreSelect(u, a)
        \/ v \in OnScraping(u, a) \cup OnResults(u, a) \cup OnHelp(u, a)
        \/ v \in OnTop(u, a) \cup OnRoms(u, a) \/ v \in OnStartMenu(u, a)
    BY DEF handle_action
  <1>4. \/ Aside(u, v) \/ v \in OnWifi(u, a) \/ v \in OnSettings(u, a)
    BY <1>1, <1>2, <1>3, OnPowerMenuAside, OnCoreSelectAside, OnScrapingAside,
       OnTopAside, OnStartMenuAside
  <1> QED
    BY <1>4, AsideSecret, OnWifiSecret, OnSettingsSecret

\* The end of a scan selects a network while no password is being typed.
LEMMA EndedSecret ==
  ASSUME NEW u, Secret(u), u.run.kind \notin {None, "settle"}, NEW v \in Ended(u)
  PROVE  Secret(v)
  <1> DEFINE w == [u EXCEPT !.run = IF u.run.kind \in Settling THEN Settle ELSE Idle]
  <1>1. None \notin {"wifi-scan", "connect"}
    BY NoneAssumption DEF Kinds, Settling
  <1>2. /\ HasFields(w) /\ w.run.kind \notin {"wifi-scan", "connect"}
        /\ w.stage = u.stage /\ w.sel = u.sel /\ w.pw = u.pw /\ w.found = u.found
    BY <1>1 DEF Secret, HasFields, Fields, Settle, Idle
  <1>3. Aside(u, w)
    BY <1>2 DEF Aside
  <1> HIDE DEF w
  <1>4. /\ \A s : Aside(u, [w EXCEPT !.screen = s])
        /\ Aside(u, [w EXCEPT !.exit = TRUE])
    BY <1>2, <1>3 DEF Aside, HasFields, Fields
  <1>5. ASSUME u.run.kind = "wifi-scan", NEW x \in Scanned(w)
        PROVE  Secret(x)
    <2> DEFINE Found(f, n) == [w EXCEPT !.found = f, !.sel = n]
    <2>1. x \in UNION {{Found(f, n) : n \in f} : f \in SUBSET Networks}
      BY <1>5, Zenon DEF Scanned
    <2> HIDE DEF Found
    <2>2. PICK f, n : x = Found(f, n)
      BY <2>1
    <2> QED
      BY <1>2, <1>5, <2>2 DEF Secret, HasFields, Fields, Found
  <1>6. ASSUME NEW x \in run_power_action(w, "reboot")
        PROVE  Aside(w, x)
    BY <1>2, <1>6, PowerAside
  <1>7. ASSUME NEW x \in run_power_action(w, "reboot")
        PROVE  Aside(u, x)
    BY <1>3, <1>6, <1>7 DEF Aside
  <1>8. Aside(u, v) \/ (u.run.kind = "wifi-scan" /\ v \in Scanned(w))
    BY <1>3, <1>4, <1>7 DEF Ended, w
  <1> QED
    BY <1>5, <1>8, AsideSecret

LEMMA StartsSecret ==
  ASSUME NEW u \in Starts \cup {[Fresh EXCEPT !.screen = "GONE"]}
  PROVE  Secret(u)
  <1>1. None \notin {"wifi-scan", "connect"}
    BY NoneAssumption DEF Kinds, Settling
  <1>2. Secret(Fresh) /\ Fresh.run = Idle
    BY <1>1 DEF Secret, Fresh, HasFields, Fields, NoSecret, Idle
  <1>3. HasFields(Fresh) /\ Fresh.run.kind \notin {"wifi-scan", "connect"}
    BY <1>1, <1>2 DEF Secret, Idle
  <1> HIDE DEF Fresh
  <1>4. \A s : Aside(Fresh, [Fresh EXCEPT !.screen = s])
    BY <1>3 DEF Aside, HasFields, Fields
  <1>5. Aside(Fresh, Running(Fresh, "boot", None))
    BY <1>3 DEF Running, Aside, HasFields, Fields
  <1>6. Aside(Fresh, [open_power_menu(Fresh) EXCEPT !.overlay = TRUE])
    BY <1>3 DEF open_power_menu, Aside, HasFields, Fields
  <1> QED
    BY <1>2, <1>4, <1>5, <1>6, AsideSecret DEF Starts, run_boot_resume_if_needed

\* One step, action by action.
LEMMA StepSecret ==
  ASSUME Secret(ui), [Next]_vars
  PROVE  Secret(ui)'
  <1>1. ASSUME NEW a, NEW r, Act(a, r), Listening
        PROVE  Secret(ui)'
    <2>1. PICK v \in handle_action(ui, a) : ui' = Tidy(v)
      BY <1>1 DEF Act
    <2>2. Secret(v)
      BY <1>1, <2>1, HandleSecret DEF Listening
    <2>3. Secret(Tidy(v))
      BY <2>2, TidySecret
    <2> QED
      BY <2>1, <2>3 DEF Secret, HasFields
  <1>2. CASE ReadInput
    BY <1>1, <1>2 DEF ReadInput, Fire
  <1>3. CASE RepeatDue
    BY <1>1, <1>3 DEF RepeatDue, Fire
  <1>4. CASE ChildEnds
    <2>1. PICK v \in Ended(ui) : ui' = Tidy(v)
      BY <1>4 DEF ChildEnds
    <2>2. Secret(v)
      BY <1>4, <2>1, EndedSecret DEF ChildEnds
    <2>3. Secret(Tidy(v))
      BY <2>2, TidySecret
    <2> QED
      BY <2>1, <2>3 DEF Secret, HasFields
  <1>5. CASE SettleEnds
    <2>1. None \notin {"wifi-scan", "connect"}
      BY NoneAssumption DEF Kinds, Settling
    <2> QED
      BY <1>5, <2>1 DEF SettleEnds, Secret, HasFields, Fields, Idle
  <1>6. CASE QuestionExpires
    BY <1>6 DEF QuestionExpires, Secret, HasFields, Fields
  <1>7. CASE Leave
    BY <1>7, StartsSecret DEF Leave
  <1>8. CASE Start
    BY <1>8, StartsSecret DEF Start
  <1>9. CASE UNCHANGED ui
    BY <1>9 DEF Secret, HasFields
  <1> QED
    BY <1>2, <1>3, <1>4, <1>5, <1>6, <1>7, <1>8, <1>9
       DEF Next, vars, DrainIgnored, IgnoreEnds, SettleDrains, Move, Tap, PowerKey, Sigterm

(* A password goes to the helper only with the network it was typed for    *)
(* (run_wifi_connect_selected), whatever was typed, left and rescanned     *)
(* before, for every length a password may have.                           *)
THEOREM SecretForItsNetworkHolds == Spec => []SecretForItsNetwork
  <1>1. Init => Secret(ui)
    BY StartsSecret DEF Init
  <1>2. Secret(ui) => SecretForItsNetwork
    BY DEF Secret, SecretForItsNetwork
  <1> QED
    BY <1>1, <1>2, StepSecret, PTL DEF Spec

-----------------------------------------------------------------------------
(* The two questions.                                                      *)

\* The cursors are on rows.
Ranges(u) ==
  /\ u.menu \in {"start", "apps"} /\ u.mrow \in DOMAIN Rows(u)
  /\ u.cat \in DOMAIN SettingRows /\ u.srow \in DOMAIN SettingRows[u.cat]

\* The cover of a refresh is never what another screen leads back to.
Placed(u) ==
  /\ "TOP_REFRESH_RUNNING" \notin {u.back, u.powerBack, u.coreBack, u.run.from}
  /\ u.screen = "TOP_REFRESH_RUNNING" => u.run.kind = "scan" /\ u.run.from = "SETTINGS"

\* The Apps menu with its question, or a power menu or power action over it.
Shown(u) ==
  \/ u.screen = "START_MENU" /\ u.run = Idle
  \/ /\ u.screen = "POWER_MENU" /\ u.powerBack = "START_MENU"
     /\ u.run = Idle \/ u.run.kind = "sleep"
  \/ /\ u.screen = "POWER_RUNNING" /\ u.run.kind \in {"reboot", "shutdown"}
     /\ \/ u.run.from = "START_MENU"
        \/ u.run.from = "POWER_MENU" /\ u.powerBack = "START_MENU"

\* A question that is open is about the row under the cursor of its page.
Question(u) ==
  /\ u.confirm # None =>
       /\ Shown(u)
       /\ MenuRow(u).id = u.confirm /\ MenuRow(u).action = "sd2-repair"
  /\ u.reset # None =>
       SettingRow(u).id = u.reset /\ SettingRow(u).action = "reset"

Asked(u) == HasFields(u) /\ Ranges(u) /\ Placed(u) /\ Question(u)

\* What the handler of a screen may make of the questions.
Answers(u, a, v) ==
  /\ v.confirm # None =>
       IF u.screen = "START_MENU" /\ a = "A" THEN Danger(u) = v.confirm
       ELSE v.confirm = u.confirm /\ v.mrow = u.mrow /\ ~(u.screen = "START_MENU" /\ a = "B")
  /\ v.reset # None =>
       IF u.screen = "SETTINGS" /\ a = "A" THEN Danger(u) = v.reset
       ELSE v.reset = u.reset /\ v.srow = u.srow /\ ~(u.screen = "SETTINGS" /\ a = "B")
  /\ v.run.kind = "repair" => u.confirm # None /\ u.confirm = v.run.arg
  /\ v.run.kind = "reset" => u.reset # None /\ u.reset = v.run.arg

Fine(u, a, v) == Asked(v) /\ Answers(u, a, v)

LEMMA RowIndex ==
  ASSUME NEW rows, Listed(rows), NEW id
  PROVE  IndexOf(rows, id) \in DOMAIN rows
  BY DEF IndexOf, Listed

LEMMA RowMoved ==
  ASSUME NEW rows, Listed(rows), NEW r \in DOMAIN rows, NEW a
  PROVE  Moved(r, a, Len(rows)) \in DOMAIN rows
  BY DEF Moved, Listed

\* A step that asks nothing and runs nothing destructive, away from the Apps
\* menu's question.
Elsewhere(u, v) ==
  /\ HasFields(v) /\ Placed(v)
  /\ v.confirm = None /\ v.menu \in {"start", "apps"} /\ v.mrow \in DOMAIN Rows(v)
  /\ \/ v.cat = u.cat /\ v.srow = u.srow /\ v.reset = u.reset
     \/ /\ v.cat \in DOMAIN SettingRows /\ v.srow \in DOMAIN SettingRows[v.cat]
        /\ v.reset = None
  /\ v.run.kind \notin {"repair", "reset"}

LEMMA ElsewhereFine ==
  ASSUME NEW u, NEW v, NEW a, Asked(u), Elsewhere(u, v),
         v.reset = None \/ u.screen # "SETTINGS" \/ a \notin {"A", "B"}
  PROVE  Fine(u, a, v)
  <1>1. HasFields(v) /\ Ranges(v) /\ Placed(v)
    BY DEF Elsewhere, Asked, Ranges
  <1>2. Question(v)
    BY DEF Elsewhere, Asked, Question, SettingRow
  <1>3. Answers(u, a, v)
    BY DEF Elsewhere, Answers
  <1> QED
    BY <1>1, <1>2, <1>3 DEF Fine, Asked

\* Where an idle loop stands, and what none of its steps needs to prove again.
LEMMA IdleAsked ==
  ASSUME NEW u, Asked(u), u.run = Idle
  PROVE  /\ HasFields(u)
         /\ u.run.kind \notin {"repair", "reset"} /\ u.run.from = None
         /\ u.screen # "TOP_REFRESH_RUNNING" /\ Placed(u)
         /\ u.confirm # None => u.screen = "START_MENU" \/ (u.screen = "POWER_MENU" /\ u.powerBack = "START_MENU")
         /\ u.confirm = None => Elsewhere(u, u)
  <1>1. None \notin {"repair", "reset", "scan", "TOP_REFRESH_RUNNING", "reboot", "shutdown"}
    BY NoneAssumption DEF Kinds, Settling, Busy
  <1>2. Idle.kind = None /\ Idle.from = None
    BY DEF Idle
  <1> QED
    BY <1>1, <1>2 DEF Asked, Ranges, Placed, Elsewhere, Question, Shown

LEMMA PowerPlaced ==
  ASSUME NEW u, HasFields(u), Placed(u), u.screen # "TOP_REFRESH_RUNNING",
         u.run.kind \notin {"repair", "reset"},
         NEW what, NEW v \in run_power_action(u, what)
  PROVE  /\ HasFields(v) /\ Placed(v) /\ v.run.kind \notin {"repair", "reset"}
         /\ v.powerBack = u.powerBack
         /\ v.menu = u.menu /\ v.mrow = u.mrow /\ v.confirm = u.confirm
         /\ v.cat = u.cat /\ v.srow = u.srow /\ v.reset = u.reset
         /\ \/ v = u
            \/ v.screen = u.screen /\ v.run.kind = "sleep"
            \/ /\ v.screen = "POWER_RUNNING" /\ v.run.kind \in {"reboot", "shutdown"}
               /\ v.run.from = u.screen
  <1>1. CASE v = u
    BY <1>1
  <1>2. CASE what = "sleep" /\ v # u
    <2>1. v = Running(u, what, None)
      BY <1>2 DEF run_power_action
    <2> QED
      BY <1>2, <2>1 DEF Running, Placed, HasFields, Fields
  <1>3. CASE what \in {"reboot", "shutdown"} /\ v # u
    <2>1. v = [Running(u, what, None) EXCEPT !.screen = "POWER_RUNNING"]
      BY <1>3 DEF run_power_action
    <2> QED
      BY <1>3, <2>1 DEF Running, Placed, HasFields, Fields
  <1> QED
    BY <1>1, <1>2, <1>3 DEF run_power_action

\* The same row, question and page: only the screens over them change.
Over(u, v) ==
  /\ HasFields(v) /\ Placed(v) /\ v.run.kind \notin {"repair", "reset"}
  /\ v.menu = u.menu /\ v.mrow = u.mrow /\ v.confirm = u.confirm
  /\ v.cat = u.cat /\ v.srow = u.srow /\ v.reset = u.reset
  /\ u.confirm # None => Shown(v)

LEMMA OverFine ==
  ASSUME NEW u, NEW v, NEW a, Asked(u), Over(u, v),
         a \in {"A", "B"} => u.screen \notin {"START_MENU", "SETTINGS"}
  PROVE  Fine(u, a, v)
  <1>1. HasFields(v) /\ Placed(v) /\ Ranges(v)
    BY DEF Over, Asked, Ranges, Rows
  <1>2. Question(v)
    BY DEF Over, Asked, Question, MenuRow, Rows, SettingRow
  <1>3. Answers(u, a, v)
    BY DEF Over, Answers
  <1> QED
    BY <1>1, <1>2, <1>3 DEF Fine, Asked

LEMMA OnPowerMenuFine ==
  ASSUME NEW u, Asked(u), u.run = Idle, u.screen = "POWER_MENU",
         NEW a, NEW v \in OnPowerMenu(u, a)
  PROVE  Fine(u, a, v)
  <1>1. /\ HasFields(u) /\ Placed(u) /\ u.run.kind \notin {"repair", "reset"}
        /\ u.screen # "TOP_REFRESH_RUNNING"
        /\ u.confirm # None => u.powerBack = "START_MENU"
    BY IdleAsked
  <1>2. Over(u, u)
    BY <1>1 DEF Over, Shown
  <1> DEFINE moved == Moved(u.prow, a, Len(PowerMenu))
  <1> HIDE DEF moved
  <1>3. Over(u, [u EXCEPT !.prow = moved]) /\ Over(u, [u EXCEPT !.exit = TRUE])
    BY <1>1 DEF Over, Placed, Shown, HasFields, Fields
  <1>4. Over(u, close_power_menu(u))
    BY <1>1 DEF close_power_menu, Over, Placed, Shown, HasFields, Fields
  <1>5. ASSUME NEW what, NEW w \in run_power_action(u, what)
        PROVE  Over(u, w)
    BY <1>1, <1>2, <1>5, PowerPlaced DEF Over, Shown
  <1>6. Over(u, v)
    BY <1>2, <1>3, <1>4, <1>5 DEF OnPowerMenu, moved
  <1> QED
    BY <1>6, OverFine

LEMMA MenusElsewhere ==
  ASSUME NEW u, Asked(u), u.run = Idle, u.confirm = None, NEW id
  PROVE  /\ Elsewhere(u, open_start_menu(u)) /\ Elsewhere(u, open_apps_menu(u, id))
         /\ \A cat \in DOMAIN SettingRows :
              /\ Elsewhere(u, open_settings_screen(u, cat, id))
              /\ open_settings_screen(u, cat, id).reset = None
  <1>1. /\ HasFields(u) /\ Placed(u) /\ u.run.kind \notin {"repair", "reset"}
        /\ u.screen # "TOP_REFRESH_RUNNING" /\ Elsewhere(u, u)
    BY IdleAsked
  <1>2. Elsewhere(u, open_start_menu(u))
    <2> DEFINE i == IndexOf(StartMenu, None)
               v == open_start_menu(u)
    <2>1. i \in DOMAIN StartMenu
      BY RowIndex, MenuAssumption
    <2> HIDE DEF i
    <2>2. /\ HasFields(v) /\ v.menu = "start" /\ v.mrow = i /\ v.confirm = u.confirm
          /\ v.cat = u.cat /\ v.srow = u.srow /\ v.reset = u.reset /\ v.run = u.run
          /\ v.back = u.screen /\ v.screen = "START_MENU"
          /\ v.powerBack = u.powerBack /\ v.coreBack = u.coreBack
      BY <1>1 DEF open_start_menu, load_start_menu_entries, HasFields, Fields, i
    <2> HIDE DEF v
    <2>3. Elsewhere(u, v)
      BY <1>1, <2>1, <2>2 DEF Elsewhere, Placed, Rows
    <2> QED
      BY <2>3 DEF v
  <1>3. Elsewhere(u, open_apps_menu(u, id))
    <2> DEFINE i == IndexOf(VisibleApps, id)
               v == open_apps_menu(u, id)
    <2>1. i \in DOMAIN VisibleApps
      BY RowIndex, MenuAssumption
    <2> HIDE DEF i
    <2>2. /\ HasFields(v) /\ v.menu = "apps" /\ v.mrow = i /\ v.confirm = u.confirm
          /\ v.cat = u.cat /\ v.srow = u.srow /\ v.reset = u.reset /\ v.run = u.run
          /\ v.back = u.back /\ v.screen = "START_MENU"
          /\ v.powerBack = u.powerBack /\ v.coreBack = u.coreBack
      BY <1>1 DEF open_apps_menu, load_apps_menu_entries, HasFields, Fields, i
    <2> HIDE DEF v
    <2>3. Elsewhere(u, v)
      BY <1>1, <2>1, <2>2 DEF Elsewhere, Placed, Rows
    <2> QED
      BY <2>3 DEF v
  <1>4. ASSUME NEW cat \in DOMAIN SettingRows
        PROVE  /\ Elsewhere(u, open_settings_screen(u, cat, id))
               /\ open_settings_screen(u, cat, id).reset = None
    <2> DEFINE i == IndexOf(SettingRows[cat], id)
               v == open_settings_screen(u, cat, id)
    <2>1. i \in DOMAIN SettingRows[cat]
      BY RowIndex, MenuAssumption
    <2> HIDE DEF i
    <2>2. /\ HasFields(v) /\ v.menu = u.menu /\ v.mrow = u.mrow /\ v.confirm = u.confirm
          /\ v.cat = cat /\ v.srow = i /\ v.reset = None /\ v.run = u.run
          /\ v.back = u.back /\ v.screen = "SETTINGS"
          /\ v.powerBack = u.powerBack /\ v.coreBack = u.coreBack
      BY <1>1 DEF open_settings_screen, HasFields, Fields, i
    <2> HIDE DEF v
    <2>3. v.reset = None /\ Elsewhere(u, v)
      BY <1>1, <2>1, <2>2 DEF Elsewhere, Placed, Rows
    <2> QED
      BY <2>3 DEF v
  <1> QED
    BY <1>2, <1>3, <1>4

\* The screens away from the menus.
LEMMA OnOthersFine ==
  ASSUME NEW u, Asked(u), u.run = Idle,
         u.screen \notin {"START_MENU", "POWER_MENU", "SETTINGS"}, NEW a,
         NEW v \in OnCoreSelect(u, a) \cup OnScraping(u, a) \cup OnResults(u, a)
                     \cup OnHelp(u, a) \cup OnTop(u, a) \cup OnRoms(u, a)
  PROVE  Fine(u, a, v)
  <1>1. /\ HasFields(u) /\ Placed(u) /\ u.run.kind \notin {"repair", "reset"}
        /\ u.screen # "TOP_REFRESH_RUNNING" /\ u.confirm = None /\ Elsewhere(u, u)
    BY IdleAsked
  <1>2. ASSUME NEW s, s # "TOP_REFRESH_RUNNING"
        PROVE  Elsewhere(u, [u EXCEPT !.screen = s])
    BY <1>1, <1>2 DEF Elsewhere, Placed, Rows, HasFields, Fields
  <1>3. Elsewhere(u, [u EXCEPT !.screen = u.coreBack])
    BY <1>1, <1>2 DEF Placed
  <1>4. /\ Elsewhere(u, Running(u, "core", None)) /\ Elsewhere(u, Running(u, "launch", None))
        /\ Elsewhere(u, Running(u, "scan", None))
    BY <1>1 DEF Running, Elsewhere, Placed, Rows, HasFields, Fields
  <1>5. Elsewhere(u, open_core_select_screen(u))
    BY <1>1 DEF open_core_select_screen, load_core_select_lines, Running,
                Elsewhere, Placed, Rows, HasFields, Fields
  <1>6. Elsewhere(u, [Running(u, "scrape", None) EXCEPT !.screen = "THUMBNAIL_RUNNING"])
    BY <1>1 DEF Running, Elsewhere, Placed, Rows, HasFields, Fields
  <1>7. Elsewhere(u, open_thumbnail_results_screen(u))
    BY <1>1 DEF open_thumbnail_results_screen, Elsewhere, Placed, Rows, HasFields, Fields
  <1>8. ASSUME v \in OnCoreSelect(u, a)
        PROVE  Elsewhere(u, v)
    BY <1>1, <1>3, <1>4, <1>8
       DEF OnCoreSelect, run_core_text_ui_extra, load_core_select_lines
  <1>9. ASSUME v \in OnScraping(u, a) \cup OnResults(u, a) \cup OnHelp(u, a)
        PROVE  Elsewhere(u, v)
    BY <1>1, <1>2, <1>6, <1>7, <1>9, MenusElsewhere
       DEF OnScraping, OnResults, OnHelp, run_scraping_action
  <1>10. ASSUME v \in OnTop(u, a) \cup OnRoms(u, a)
         PROVE  Elsewhere(u, v)
    BY <1>1, <1>2, <1>4, <1>5, <1>10, MenusElsewhere DEF OnTop, OnRoms, launch_rom_entry, open_gallery_screen
  <1> QED
    BY <1>8, <1>9, <1>10, ElsewhereFine

LEMMA OnWifiFine ==
  ASSUME NEW u, Asked(u), u.run = Idle, u.screen = "WIFI_CONNECT",
         u.stage \in {"SELECT", "PASSWORD", "RESULT"}, NEW a, NEW v \in OnWifi(u, a)
  PROVE  Fine(u, a, v)
  <1>1. /\ HasFields(u) /\ Placed(u) /\ u.run.kind \notin {"repair", "reset"}
        /\ u.confirm = None /\ Elsewhere(u, u)
    BY IdleAsked
  <1>2. Elsewhere(u, back_to_network_settings(u))
    BY <1>1, MenusElsewhere, MenuAssumption DEF back_to_network_settings
  <1>3. ASSUME NEW n
        PROVE  Elsewhere(u, [u EXCEPT !.sel = n])
    BY <1>1 DEF Elsewhere, Placed, Rows, HasFields, Fields
  <1>4. Elsewhere(u, Running([u EXCEPT !.found = {}, !.sel = None], "wifi-scan", None))
    BY <1>1 DEF Running, Elsewhere, Placed, Rows, HasFields, Fields
  <1>5. ASSUME NEW p
        PROVE  /\ Elsewhere(u, [u EXCEPT !.pw = p])
               /\ \A s : Elsewhere(u, [[u EXCEPT !.pw = p] EXCEPT !.stage = s])
    BY <1>1 DEF Elsewhere, Placed, Rows, HasFields, Fields
  <1>6. ASSUME NEW s
        PROVE  Elsewhere(u, [u EXCEPT !.stage = s])
    BY <1>1 DEF Elsewhere, Placed, Rows, HasFields, Fields
  <1>7. ASSUME NEW w, HasFields(w), w = u \/ w = [u EXCEPT !.pw = NoSecret],
               NEW x \in run_wifi_connect_selected(w)
        PROVE  Elsewhere(u, x)
    <2> DEFINE arg == [net |-> w.sel, secret |-> w.pw]
               ran == [Running(w, "connect", arg) EXCEPT !.stage = "RESULT"]
    <2>1. x = w \/ x = ran \/ x = [w EXCEPT !.stage = "RESULT"]
      BY <1>7 DEF run_wifi_connect_selected
    <2> HIDE DEF arg
    <2>2. /\ w.run = u.run /\ w.screen = u.screen /\ w.back = u.back /\ w.confirm = u.confirm
          /\ w.powerBack = u.powerBack /\ w.coreBack = u.coreBack
          /\ w.menu = u.menu /\ w.mrow = u.mrow
          /\ w.cat = u.cat /\ w.srow = u.srow /\ w.reset = u.reset
      BY <1>1, <1>7 DEF HasFields, Fields
    <2>3. Elsewhere(u, ran)
      BY <1>1, <1>7, <2>2 DEF Running, Elsewhere, Placed, Rows, HasFields, Fields
    <2>4. Elsewhere(u, w) /\ Elsewhere(u, [w EXCEPT !.stage = "RESULT"])
      BY <1>1, <1>5, <1>6, <1>7
    <2> HIDE DEF ran
    <2> QED
      BY <2>1, <2>3, <2>4
  <1>8. ASSUME NEW x \in handle_wifi_password_key(u)
        PROVE  Elsewhere(u, x)
    <2>1. CASE x \in run_wifi_connect_selected(u)
      BY <1>1, <1>7, <2>1
    <2>2. CASE x = wifi_delete_password_char(u)
      BY <1>1, <1>5, <2>2 DEF wifi_delete_password_char, Elsewhere, Placed, Rows, HasFields, Fields
    <2>3. CASE x = wifi_append_password_char(u)
      BY <1>1, <1>5, <2>3 DEF wifi_append_password_char
    <2> QED
      BY <1>1, <1>5, <1>8, <2>1, <2>2, <2>3 DEF handle_wifi_password_key
  <1>9. ASSUME NEW x \in ChooseNetwork(u)
        PROVE  Elsewhere(u, x)
    <2> DEFINE w == [u EXCEPT !.pw = NoSecret]
    <2>1. HasFields(w)
      BY <1>1 DEF HasFields, Fields
    <2>2. x \in run_wifi_connect_selected(w) \/ x = [w EXCEPT !.stage = "PASSWORD"]
      BY <1>9 DEF ChooseNetwork
    <2>3. Elsewhere(u, [w EXCEPT !.stage = "PASSWORD"])
      BY <1>5
    <2> QED
      BY <1>7, <2>1, <2>2, <2>3
  <1>10. Elsewhere(u, v)
    <2>1. CASE u.stage = "RESULT"
      BY <1>1, <1>2, <2>1 DEF OnWifi
    <2>2. CASE u.stage = "SELECT" /\ a \in Directions /\ u.found # {}
      BY <1>3, <2>2 DEF OnWifi, Directions
    <2>3. CASE u.stage = "SELECT" /\ ~(a \in Directions /\ u.found # {})
      BY <1>1, <1>2, <1>4, <1>9, <2>3 DEF OnWifi
    <2>4. CASE u.stage = "PASSWORD"
      BY <1>1, <1>6, <1>8, <2>4 DEF OnWifi
    <2> QED
      BY <2>1, <2>2, <2>3, <2>4
  <1> QED
    BY <1>10, ElsewhereFine

\* The Apps menu's repair row asks, and runs only what it asked for.
LEMMA RepairRowFine ==
  ASSUME NEW u, Asked(u), u.run = Idle, u.screen = "START_MENU",
         MenuRow(u).action = "sd2-repair", NEW v \in RepairRow(u, MenuRow(u))
  PROVE  Fine(u, "A", v)
  <1> DEFINE row == MenuRow(u)
             id == row.id
             told == [u EXCEPT !.confirm = None]
  <1>1. /\ HasFields(u) /\ Placed(u) /\ u.run.kind \notin {"repair", "reset"}
    BY IdleAsked
  <1>2. row.confirm = TRUE /\ id # None
    <2>1. u.menu \in {"start", "apps"} /\ u.mrow \in DOMAIN Rows(u)
      BY DEF Asked, Ranges
    <2> QED
      BY <2>1, MenuAssumption DEF MenuRow, Rows, Listed, Asking
  <1>3. Danger(u) = id
    BY DEF Danger
  <1> HIDE DEF row, id
  <1>4. CASE u.confirm # id
    <2>1. v = [u EXCEPT !.confirm = id]
      BY <1>2, <1>4 DEF RepairRow, row, id
    <2>2. /\ HasFields(v) /\ v.confirm = id /\ v.run = Idle /\ v.screen = "START_MENU"
          /\ v.menu = u.menu /\ v.mrow = u.mrow
          /\ v.cat = u.cat /\ v.srow = u.srow /\ v.reset = u.reset
          /\ v.back = u.back /\ v.powerBack = u.powerBack /\ v.coreBack = u.coreBack
      BY <1>1, <2>1 DEF HasFields, Fields
    <2>3. MenuRow(v) = row /\ SettingRow(v) = SettingRow(u) /\ Rows(v) = Rows(u)
      BY <2>2 DEF MenuRow, Rows, SettingRow, row
    <2>4. Ranges(v) /\ Placed(v)
      BY <1>1, <2>2, <2>3 DEF Asked, Ranges, Placed
    <2>5. Question(v)
      BY <2>2, <2>3 DEF Asked, Question, Shown, id, row
    <2>6. Answers(u, "A", v)
      BY <1>1, <1>3, <2>2 DEF Answers
    <2> QED
      BY <2>2, <2>4, <2>5, <2>6 DEF Fine, Asked
  <1>5. CASE u.confirm = id
    <2>1. v = told \/ v = Running(told, "repair", id)
      BY <1>2, <1>5 DEF RepairRow, run_sd2_repair, row, id
    <2>2. Elsewhere(u, told)
      BY <1>1 DEF Elsewhere, Asked, Ranges, Placed, Rows, HasFields, Fields
    <2>3. CASE v = told
      BY <2>2, <2>3, ElsewhereFine
    <2>4. CASE v = Running(told, "repair", id)
      <3>1. /\ HasFields(v) /\ v.confirm = None
            /\ v.run.kind = "repair" /\ v.run.arg = id /\ v.run.from = "START_MENU"
            /\ v.screen = "START_MENU" /\ v.menu = u.menu /\ v.mrow = u.mrow
            /\ v.cat = u.cat /\ v.srow = u.srow /\ v.reset = u.reset
            /\ v.back = u.back /\ v.powerBack = u.powerBack /\ v.coreBack = u.coreBack
        BY <1>1, <2>4 DEF Running, HasFields, Fields
      <3>2. SettingRow(v) = SettingRow(u) /\ Rows(v) = Rows(u)
        BY <3>1 DEF Rows, SettingRow
      <3>3. Ranges(v) /\ Placed(v)
        BY <1>1, <3>1, <3>2 DEF Asked, Ranges, Placed
      <3>4. Question(v)
        BY <3>1, <3>2 DEF Asked, Question
      <3>5. Answers(u, "A", v)
        BY <1>2, <1>5, <3>1 DEF Answers
      <3> QED
        BY <3>1, <3>3, <3>4, <3>5 DEF Fine, Asked
    <2> QED
      BY <2>1, <2>3, <2>4
  <1> QED
    BY <1>4, <1>5

LEMMA MenuChosenFine ==
  ASSUME NEW u, Asked(u), u.run = Idle, u.screen = "START_MENU", NEW v \in MenuChosen(u)
  PROVE  Fine(u, "A", v)
  <1> DEFINE row == MenuRow(u)
             arg == row.arg
             id == row.id
  <1>1. CASE row.action = "sd2-repair"
    BY <1>1, RepairRowFine DEF MenuChosen
  <1>2. CASE row.action # "sd2-repair"
    <2>1. u.confirm = None
      BY <1>2 DEF Asked, Question
    <2>2. /\ HasFields(u) /\ Placed(u) /\ u.run.kind \notin {"repair", "reset"}
          /\ u.screen # "TOP_REFRESH_RUNNING" /\ Elsewhere(u, u)
      BY <2>1, IdleAsked
    <2>3. row.action = "settings" => arg \in DOMAIN SettingRows
      <3>1. u.menu \in {"start", "apps"} /\ u.mrow \in DOMAIN Rows(u)
        BY DEF Asked, Ranges
      <3> QED
        BY <3>1, MenuAssumption DEF MenuRow, Rows, Listed, Asking
    <2> HIDE DEF arg, id
    <2>4. /\ Elsewhere(u, [u EXCEPT !.screen = "HELP"])
          /\ Elsewhere(u, [u EXCEPT !.screen = "ROMS"])
          /\ Elsewhere(u, open_thumbnail_results_screen(u))
      BY <2>2 DEF open_thumbnail_results_screen, Elsewhere, Placed, Rows, HasFields, Fields
    <2>5. Elsewhere(u, open_scraping_screen(u))
      BY <2>2 DEF open_scraping_screen, Running, Elsewhere, Placed, Rows, HasFields, Fields
    <2>6. ASSUME NEW w \in run_power_action(u, arg)
          PROVE  Elsewhere(u, w)
      BY <2>1, <2>2, <2>6, PowerPlaced DEF Elsewhere, Rows
    <2> DEFINE ran == Running(u, "app", arg)
    <2>7. /\ Elsewhere(u, ran)
          /\ Elsewhere(u, [ran EXCEPT !.screen = "THUMBNAIL_RUNNING", !.ret = id])
      BY <2>2 DEF Running, Elsewhere, Placed, Rows, HasFields, Fields
    <2> HIDE DEF ran
    <2>8. ASSUME NEW w \in run_menu_shell_action(u, row)
          PROVE  Elsewhere(u, w)
      BY <2>7, <2>8 DEF run_menu_shell_action, ran, arg, id
    <2>9. Elsewhere(u, v)
      <3> HIDE DEF row
      <3> QED
        BY <1>2, <2>1, <2>2, <2>3, <2>4, <2>5, <2>6, <2>8, MenusElsewhere
           DEF MenuChosen, row, arg
    <2> QED
      BY <2>9, ElsewhereFine
  <1> QED
    BY <1>1, <1>2

LEMMA OnStartMenuFine ==
  ASSUME NEW u, Asked(u), u.run = Idle, u.screen = "START_MENU",
         NEW a, NEW v \in OnStartMenu(u, a)
  PROVE  Fine(u, a, v)
  <1>1. /\ HasFields(u) /\ Placed(u) /\ u.run.kind \notin {"repair", "reset"}
    BY IdleAsked
  <1>2. CASE a = "A"
    BY <1>2, MenuChosenFine DEF OnStartMenu
  <1>3. CASE a \in {"UP", "DOWN"}
    <2> DEFINE r == Moved(u.mrow, a, Len(Rows(u)))
    <2>1. r \in DOMAIN Rows(u)
      <3>1. Listed(Rows(u)) /\ u.mrow \in DOMAIN Rows(u)
        BY MenuAssumption DEF Asked, Ranges, Rows
      <3> QED
        BY <3>1, RowMoved
    <2> HIDE DEF r
    <2>2. v = [u EXCEPT !.mrow = r, !.confirm = None]
      BY <1>3 DEF OnStartMenu, MenuMoved, r
    <2>3. Elsewhere(u, v)
      BY <1>1, <2>1, <2>2 DEF Elsewhere, Asked, Ranges, Placed, Rows, HasFields, Fields
    <2> QED
      BY <2>3, ElsewhereFine
  <1>4. CASE a = "B"
    <2> DEFINE told == [u EXCEPT !.confirm = None]
               i == IndexOf(StartMenu, "apps")
    <2>1. i \in DOMAIN StartMenu
      BY RowIndex, MenuAssumption
    <2> HIDE DEF i
    <2>2. v = [told EXCEPT !.menu = "start", !.mrow = i] \/ v = [told EXCEPT !.screen = u.back]
      BY <1>4 DEF OnStartMenu, load_start_menu_entries, i
    <2>3. Elsewhere(u, v)
      BY <1>1, <2>1, <2>2 DEF Elsewhere, Asked, Ranges, Placed, Rows, HasFields, Fields
    <2> QED
      BY <2>3, ElsewhereFine
  <1>5. CASE a \notin {"A", "B", "UP", "DOWN"}
    <2>1. v = u
      BY <1>5 DEF OnStartMenu
    <2>2. Over(u, u)
      BY <1>1 DEF Over, Shown
    <2> QED
      BY <1>5, <2>1, <2>2, OverFine
  <1> QED
    BY <1>2, <1>3, <1>4, <1>5

\* So does a reset row of the settings.
LEMMA ResetRowFine ==
  ASSUME NEW u, Asked(u), u.run = Idle, u.screen = "SETTINGS",
         SettingRow(u).action = "reset",
         NEW v \in confirm_or_run_factory_reset(u, SettingRow(u))
  PROVE  Fine(u, "A", v)
  <1> DEFINE row == SettingRow(u)
             id == row.id
             told == [u EXCEPT !.reset = None]
  <1>1. /\ HasFields(u) /\ Placed(u) /\ u.run.kind \notin {"repair", "reset"}
        /\ u.confirm = None
    BY IdleAsked
  <1>2. id # None
    BY MenuAssumption DEF Asked, Ranges, SettingRow, Listed
  <1>3. Danger(u) = id
    BY DEF Danger
  <1> HIDE DEF row, id
  <1>4. CASE u.reset # id
    <2>1. v = [u EXCEPT !.reset = id]
      BY <1>4 DEF confirm_or_run_factory_reset, row, id
    <2>2. /\ HasFields(v) /\ v.confirm = None /\ v.run = u.run /\ v.screen = "SETTINGS"
          /\ v.menu = u.menu /\ v.mrow = u.mrow
          /\ v.cat = u.cat /\ v.srow = u.srow /\ v.reset = id
          /\ v.back = u.back /\ v.powerBack = u.powerBack /\ v.coreBack = u.coreBack
      BY <1>1, <2>1 DEF HasFields, Fields
    <2>3. SettingRow(v) = row /\ Rows(v) = Rows(u)
      BY <2>2 DEF Rows, SettingRow, row
    <2>4. Ranges(v) /\ Placed(v)
      BY <1>1, <2>2, <2>3 DEF Asked, Ranges, Placed
    <2>5. Question(v)
      BY <2>2, <2>3 DEF Question, id, row
    <2>6. Answers(u, "A", v)
      BY <1>1, <1>3, <2>2 DEF Answers
    <2> QED
      BY <2>2, <2>4, <2>5, <2>6 DEF Fine, Asked
  <1>5. CASE u.reset = id
    <2>1. v = told \/ v = Running(told, "reset", id)
      BY <1>5 DEF confirm_or_run_factory_reset, run_factory_reset_action, row, id
    <2>2. Elsewhere(u, told) /\ told.reset = None
      BY <1>1 DEF Elsewhere, Asked, Ranges, Placed, Rows, HasFields, Fields
    <2>3. CASE v = told
      <3> HIDE DEF told
      <3> QED BY <2>2, <2>3, ElsewhereFine
    <2>4. CASE v = Running(told, "reset", id)
      <3>1. /\ HasFields(v) /\ v.confirm = None /\ v.reset = None
            /\ v.run.kind = "reset" /\ v.run.arg = id /\ v.run.from = "SETTINGS"
            /\ v.screen = "SETTINGS" /\ v.menu = u.menu /\ v.mrow = u.mrow
            /\ v.cat = u.cat /\ v.srow = u.srow
            /\ v.back = u.back /\ v.powerBack = u.powerBack /\ v.coreBack = u.coreBack
        BY <1>1, <2>4 DEF Running, HasFields, Fields
      <3>2. Ranges(v) /\ Placed(v)
        BY <1>1, <3>1 DEF Asked, Ranges, Placed, Rows
      <3>3. Question(v) /\ Answers(u, "A", v)
        BY <1>2, <1>5, <3>1 DEF Question, Answers
      <3> QED
        BY <3>1, <3>2, <3>3 DEF Fine, Asked
    <2> QED
      BY <2>1, <2>3, <2>4
  <1> QED
    BY <1>4, <1>5

LEMMA SettingChosenFine ==
  ASSUME NEW u, Asked(u), u.run = Idle, u.screen = "SETTINGS", NEW v \in SettingChosen(u)
  PROVE  Fine(u, "A", v)
  <1> DEFINE row == SettingRow(u)
             arg == row.arg
  <1>1. CASE row.action = "reset"
    BY <1>1, ResetRowFine DEF SettingChosen
  <1>2. CASE row.action # "reset"
    <2>1. u.reset = None
      BY <1>2 DEF Asked, Question
    <2>2. /\ HasFields(u) /\ Placed(u) /\ u.run.kind \notin {"repair", "reset"}
          /\ u.confirm = None /\ Elsewhere(u, u)
      BY IdleAsked
    <2>3. row.action = "open" => arg \in DOMAIN SettingRows
      BY MenuAssumption DEF Asked, Ranges, SettingRow, Leading
    <2>4. /\ Elsewhere(u, Running(u, "update", None)) /\ Elsewhere(u, Running(u, "storage", None))
          /\ Elsewhere(u, Running(u, "wifi", None))
      BY <2>2 DEF Running, Elsewhere, Placed, Rows, HasFields, Fields
    <2>5. Elsewhere(u, [Running(u, "scan", None) EXCEPT !.screen = "TOP_REFRESH_RUNNING"])
      BY <2>2 DEF Running, Elsewhere, Placed, Rows, HasFields, Fields
    <2>6. Elsewhere(u, open_wifi_connect_screen(u))
      BY <2>2 DEF open_wifi_connect_screen, Running, Elsewhere, Placed, Rows, HasFields, Fields
    <2>7. Elsewhere(u, v)
      <3> HIDE DEF row, arg
      <3> QED
        BY <1>2, <2>2, <2>3, <2>4, <2>5, <2>6, MenusElsewhere
           DEF SettingChosen, refresh_top_entries_manual, run_storage_health_check,
               request_latest_system_update, run_network_wifi_control, row, arg
    <2>8. v.reset = None
      BY <2>1, <2>7 DEF Elsewhere
    <2> QED
      BY <2>7, <2>8, ElsewhereFine
  <1> QED
    BY <1>1, <1>2

LEMMA OnSettingsFine ==
  ASSUME NEW u, Asked(u), u.run = Idle, u.screen = "SETTINGS",
         NEW a, NEW v \in OnSettings(u, a)
  PROVE  Fine(u, a, v)
  <1> DEFINE told == [u EXCEPT !.reset = None]
             r == Moved(u.srow, a, Len(SettingRows[u.cat]))
             moved == [u EXCEPT !.srow = r, !.reset = None]
  <1>1. /\ HasFields(u) /\ Placed(u) /\ u.run.kind \notin {"repair", "reset"}
        /\ u.confirm = None /\ Elsewhere(u, u)
    BY IdleAsked
  <1>2. /\ Elsewhere(u, told) /\ told.reset = None /\ Asked(told) /\ told.run = Idle
        /\ told.confirm = None /\ told.cat = u.cat
        /\ Elsewhere(u, [told EXCEPT !.screen = "START_MENU"])
        /\ [told EXCEPT !.screen = "START_MENU"].reset = None
    BY <1>1 DEF Elsewhere, Asked, Ranges, Question, Placed, Rows, HasFields, Fields
  <1>3. Elsewhere(u, moved) /\ moved.reset = None
    <2>1. r \in DOMAIN SettingRows[u.cat]
      <3>1. Listed(SettingRows[u.cat]) /\ u.srow \in DOMAIN SettingRows[u.cat]
        BY MenuAssumption DEF Asked, Ranges
      <3> QED
        BY <3>1, RowMoved
    <2> HIDE DEF r
    <2> QED
      BY <1>1, <2>1 DEF Elsewhere, Asked, Ranges, Placed, Rows, HasFields, Fields
  <1> HIDE DEF told, moved
  <1>4. CASE a = "A"
    BY <1>4, SettingChosenFine DEF OnSettings
  <1>5. CASE a \in {"UP", "DOWN"}
    <2>1. v = u \/ v = moved
      BY <1>5 DEF OnSettings, moved
    <2> QED
      BY <1>1, <1>3, <1>5, <2>1, ElsewhereFine
  <1>6. CASE a = "B"
    <2>1. CASE u.cat \in DOMAIN ParentOf
      <3> DEFINE cat == ParentOf[u.cat].cat
                 id == ParentOf[u.cat].row
      <3>1. v = open_settings_screen(told, cat, id)
        BY <1>6, <2>1 DEF OnSettings, told
      <3>2. cat \in DOMAIN SettingRows
        BY <2>1, MenuAssumption DEF Asked, Ranges
      <3> HIDE DEF cat, id
      <3>3. Elsewhere(told, v) /\ v.reset = None
        BY <1>2, <3>1, <3>2, MenusElsewhere
      <3>4. Elsewhere(u, v)
        BY <1>2, <3>3 DEF Elsewhere, Asked, Ranges
      <3> QED
        BY <3>3, <3>4, ElsewhereFine
    <2>2. CASE u.cat \notin DOMAIN ParentOf
      <3>1. v = [told EXCEPT !.screen = "START_MENU"]
        BY <1>6, <2>2 DEF OnSettings, told
      <3> QED
        BY <1>2, <3>1, ElsewhereFine
    <2> QED
      BY <2>1, <2>2
  <1>7. CASE a \notin {"A", "B", "UP", "DOWN"}
    <2>1. v = told \/ v = open_start_menu(u) \/ v = u
      BY <1>7 DEF OnSettings, told
    <2>2. Elsewhere(u, v)
      BY <1>1, <1>2, <2>1, MenusElsewhere
    <2> QED
      BY <1>7, <2>2, ElsewhereFine
  <1> QED
    BY <1>4, <1>5, <1>6, <1>7

LEMMA HandleFine ==
  ASSUME NEW u, Asked(u), u.run = Idle, u.stage \in {"SELECT", "PASSWORD", "RESULT"},
         NEW a, NEW v \in handle_action(u, a)
  PROVE  Fine(u, a, v)
  <1>1. /\ HasFields(u) /\ Placed(u) /\ u.run.kind \notin {"repair", "reset"}
        /\ u.screen # "TOP_REFRESH_RUNNING"
        /\ u.confirm # None /\ u.screen # "POWER_MENU" => u.screen = "START_MENU"
    BY IdleAsked
  <1>2. Over(u, u)
    BY <1>1 DEF Over, Asked, Question
  <1>3. CASE a \in {None, "FUNCTION"} \/ u.screen = "POWER_RUNNING"
    <2>1. None \notin {"A", "B", "POWER"}
      BY NoneAssumption DEF Buttons
    <2>2. v = u
      BY <1>3, <2>1 DEF handle_action
    <2> QED
      BY <1>2, <1>3, <2>1, <2>2, OverFine
  <1>4. CASE a = "POWER" /\ u.screen # "POWER_RUNNING"
    <2>1. v = u \/ (u.screen # "POWER_MENU" /\ v = open_power_menu(u))
      BY <1>4 DEF handle_action
    <2>2. u.screen # "POWER_MENU" => Over(u, open_power_menu(u))
      BY <1>1 DEF open_power_menu, Over, Placed, Shown, HasFields, Fields
    <2> QED
      BY <1>2, <1>4, <2>1, <2>2, OverFine
  <1>5. CASE ~(a \in {None, "FUNCTION", "POWER"} \/ u.screen = "POWER_RUNNING")
    <2>1. CASE u.screen = "POWER_MENU"
      BY <1>5, <2>1, OnPowerMenuFine DEF handle_action
    <2>2. CASE u.screen = "START_MENU"
      BY <1>5, <2>2, OnStartMenuFine DEF handle_action
    <2>3. CASE u.screen = "SETTINGS"
      BY <1>5, <2>3, OnSettingsFine DEF handle_action
    <2>4. CASE u.screen = "WIFI_CONNECT"
      BY <1>5, <2>4, OnWifiFine DEF handle_action
    <2>5. CASE u.screen \notin {"POWER_MENU", "START_MENU", "SETTINGS", "WIFI_CONNECT"}
      <3>1. v \in OnCoreSelect(u, a) \cup OnScraping(u, a) \cup OnResults(u, a)
                   \cup OnHelp(u, a) \cup OnTop(u, a) \cup OnRoms(u, a)
        BY <1>5, <2>5 DEF handle_action
      <3> QED
        BY <2>5, <3>1, OnOthersFine
    <2> QED
      BY <2>1, <2>2, <2>3, <2>4, <2>5
  <1> QED
    BY <1>3, <1>4, <1>5

\* What Tidy keeps leads back to the page it belongs to.
LEMMA RemainingPages ==
  ASSUME NEW u
  PROVE  /\ u.screen \in Remaining(u)
         /\ u.screen \in Busy => u.run.from \in Remaining(u)
         /\ MenuScreens \cap Remaining(u) # {} => "START_MENU" \in Remaining(u)
         /\ Placed(u) /\ SettingsPages \cap Remaining(u) # {} => "SETTINGS" \in Remaining(u)
         /\ u.screen \notin Busy \cup MenuScreens \cup {"POWER_MENU", "CORE_SELECT"} =>
              Remaining(u) = {u.screen}
         /\ /\ u.screen \in Busy \ MenuScreens
            /\ u.run.from \notin MenuScreens \cup {"POWER_MENU", "CORE_SELECT"}
            => MenuScreens \cap Remaining(u) = {}
  <1> DEFINE under == IF u.screen \in Busy THEN {u.screen, u.run.from} ELSE {u.screen}
             over == under \cup (IF "POWER_MENU" \in under THEN {u.powerBack} ELSE {})
             core == over \cup (IF "CORE_SELECT" \in over THEN {u.coreBack} ELSE {})
  <1>1. Remaining(u) = core \cup (IF core \cap MenuScreens # {} THEN {u.back, "START_MENU"} ELSE {})
    BY DEF Remaining
  <1>2. u.screen \in core /\ (u.screen \in Busy => u.run.from \in core)
    OBVIOUS
  <1>3. ASSUME Placed(u), "TOP_REFRESH_RUNNING" \in Remaining(u)
        PROVE  "SETTINGS" \in core
    <2>1. "TOP_REFRESH_RUNNING" \in core
      <3> HIDE DEF core
      <3> QED BY <1>1, <1>3 DEF Placed
    <2>2. "TOP_REFRESH_RUNNING" \in under
      BY <1>3, <2>1 DEF Placed
    <2>3. u.screen = "TOP_REFRESH_RUNNING"
      BY <1>3, <2>2 DEF Placed
    <2> QED
      BY <1>2, <1>3, <2>3 DEF Placed, Busy
  <1>4. u.screen \notin Busy \cup MenuScreens \cup {"POWER_MENU", "CORE_SELECT"} =>
          core = {u.screen} /\ core \cap MenuScreens = {}
    OBVIOUS
  <1>5. /\ u.screen \in Busy \ MenuScreens
        /\ u.run.from \notin MenuScreens \cup {"POWER_MENU", "CORE_SELECT"}
        => core \cap MenuScreens = {}
    BY DEF Busy, MenuScreens
  <1> HIDE DEF core
  <1> QED
    BY <1>1, <1>2, <1>3, <1>4, <1>5 DEF SettingsPages

LEMMA TidyAsked ==
  ASSUME NEW v, HasFields(v), Ranges(v), Placed(v),
         MenuScreens \cap Remaining(v) # {} => Question(v),
         Question([v EXCEPT !.confirm = None])
  PROVE  Asked(Tidy(v))
  <1> DEFINE t == Tidy(v)
             menus == MenuScreens \cap Remaining(v) # {}
             pages == SettingsPages \cap Remaining(v) # {}
  <1>1. /\ HasFields(t) /\ t.screen = v.screen /\ t.run = v.run
        /\ IF menus THEN t.menu = v.menu /\ t.mrow = v.mrow /\ t.confirm = v.confirm
           ELSE t.menu = "start" /\ t.mrow = 1 /\ t.confirm = None
        /\ IF pages THEN t.cat = v.cat /\ t.srow = v.srow /\ t.reset = v.reset
           ELSE t.cat = "ui" /\ t.srow = 1 /\ t.reset = None
        /\ t.back \in {v.back, "TOP"} /\ t.coreBack \in {v.coreBack, "TOP"}
        /\ t.powerBack \in {v.powerBack, "TOP"}
        /\ "POWER_MENU" \in Remaining(v) => t.powerBack = v.powerBack
    BY TidyFields DEF Kept
  <1> HIDE DEF t
  <1>2. Ranges(t)
    <2>1. 1 \in DOMAIN StartMenu /\ 1 \in DOMAIN SettingRows["ui"] /\ "ui" \in DOMAIN SettingRows
      BY MenuAssumption DEF Listed
    <2> QED
      BY <1>1, <2>1 DEF Ranges, Rows
  <1>3. Placed(t)
    BY <1>1 DEF Placed
  <1>4. v.reset # None => SettingRow(v).id = v.reset /\ SettingRow(v).action = "reset"
    BY DEF Question, SettingRow, HasFields, Fields
  <1>5. ASSUME Shown(v)
        PROVE  Shown(t)
    <2>1. v.screen \in Remaining(v) /\ (v.screen \in Busy => v.run.from \in Remaining(v))
      BY RemainingPages
    <2> QED
      BY <1>1, <1>5, <2>1 DEF Shown, Busy
  <1>6. Question(t)
    <2>1. t.confirm # None =>
            Shown(t) /\ MenuRow(t).id = t.confirm /\ MenuRow(t).action = "sd2-repair"
      BY <1>1, <1>5 DEF Question, MenuRow, Rows
    <2>2. t.reset # None => SettingRow(t).id = t.reset /\ SettingRow(t).action = "reset"
      BY <1>1, <1>4 DEF SettingRow
    <2> QED
      BY <2>1, <2>2 DEF Question
  <1> QED
    BY <1>1, <1>2, <1>3, <1>6 DEF Asked, t

\* trail remembers the row every open question is about.
Trailed(u, t) ==
  /\ u.confirm # None => t["START_MENU"] = u.confirm
  /\ u.reset # None => t["SETTINGS"] = u.reset

LEMMA RememberedTrail ==
  ASSUME NEW u, NEW a, NEW v, Asked(u), Trailed(u, trail), Fine(u, a, v)
  PROVE  Trailed(Tidy(v), Remembered(u, a, Tidy(v)))
  <1> DEFINE t == Tidy(v)
             m == Remembered(u, a, t)
  <1>1. HasFields(v) /\ Placed(v) /\ Remaining(t) = Remaining(v)
    BY TidyRemaining DEF Fine, Asked
  <1>2. /\ HasFields(t)
        /\ t.mrow = Kept(MenuScreens, Remaining(v), v.mrow, 1)
        /\ t.confirm = Kept(MenuScreens, Remaining(v), v.confirm, None)
        /\ t.srow = Kept(SettingsPages, Remaining(v), v.srow, 1)
        /\ t.reset = Kept(SettingsPages, Remaining(v), v.reset, None)
    BY <1>1, TidyFields
  <1> HIDE DEF t
  <1>3. /\ Cursor([t EXCEPT !.screen = "START_MENU"]) = t.mrow
        /\ Cursor([t EXCEPT !.screen = "SETTINGS"]) = t.srow
    BY <1>2 DEF Cursor, HasFields, Fields
  <1>4. ASSUME t.confirm # None
        PROVE  m["START_MENU"] = t.confirm
    <2>1. "START_MENU" \in Remaining(t) /\ t.confirm = v.confirm /\ t.mrow = v.mrow
      BY <1>1, <1>2, <1>4, RemainingPages DEF Kept
    <2>2. m["START_MENU"] = IF "START_MENU" # u.screen THEN trail["START_MENU"]
                            ELSE IF a = "A" THEN Danger(u)
                            ELSE IF a = "B" \/ Cursor(u) # t.mrow THEN None
                            ELSE trail["START_MENU"]
      BY <1>3, <2>1 DEF Remembered, Pages
    <2> HIDE DEF m
    <2> QED
      BY <1>4, <2>1, <2>2 DEF Fine, Answers, Trailed, Cursor
  <1>5. ASSUME t.reset # None
        PROVE  m["SETTINGS"] = t.reset
    <2>1. "SETTINGS" \in Remaining(t) /\ t.reset = v.reset /\ t.srow = v.srow
      BY <1>1, <1>2, <1>5, RemainingPages DEF Kept
    <2>2. m["SETTINGS"] = IF "SETTINGS" # u.screen THEN trail["SETTINGS"]
                          ELSE IF a = "A" THEN Danger(u)
                          ELSE IF a = "B" \/ Cursor(u) # t.srow THEN None
                          ELSE trail["SETTINGS"]
      BY <1>3, <2>1 DEF Remembered, Pages
    <2> HIDE DEF m
    <2> QED
      BY <1>5, <2>1, <2>2 DEF Fine, Answers, Trailed, Cursor
  <1> QED
    BY <1>4, <1>5 DEF Trailed, t

\* The end of a child asks nothing, and starts nothing but a restart.
LEMMA EndedAsked ==
  ASSUME NEW u, Asked(u), u.run.kind \notin {None, "settle"}, NEW v \in Ended(u)
  PROVE  /\ Asked(Tidy(v))
         /\ Tidy(v).confirm \in {u.confirm, None} /\ Tidy(v).reset \in {u.reset, None}
         /\ Tidy(v).run.kind \notin {"repair", "reset"}
  <1> DEFINE w == [u EXCEPT !.run = IF u.run.kind \in Settling THEN Settle ELSE Idle]
  <1>0. None \notin {"repair", "reset", "scan", "TOP_REFRESH_RUNNING", "POWER_MENU", "CORE_SELECT"}
               \cup MenuScreens
    BY NoneAssumption DEF Kinds, Settling, Busy, Screens, MenuScreens
  <1>1. /\ HasFields(w) /\ w.run.kind \in {None, "settle"} /\ w.run.from = None
        /\ w.screen = u.screen /\ w.back = u.back
        /\ w.powerBack = u.powerBack /\ w.coreBack = u.coreBack
        /\ w.menu = u.menu /\ w.mrow = u.mrow /\ w.confirm = u.confirm
        /\ w.cat = u.cat /\ w.srow = u.srow /\ w.reset = u.reset
        /\ u.run.kind \notin Settling => w.run = Idle
    BY DEF Asked, HasFields, Fields, Settle, Idle
  <1> DEFINE Left(x) ==
               /\ HasFields(x) /\ Placed(x) /\ x.run.kind \notin {"repair", "reset"}
               /\ x.menu = u.menu /\ x.mrow = u.mrow /\ x.confirm = u.confirm
               /\ x.cat = u.cat /\ x.srow = u.srow /\ x.reset = u.reset
               /\ u.confirm # None => Shown(x) \/ MenuScreens \cap Remaining(x) = {}
  <1>2. /\ HasFields(u) /\ Ranges(u) /\ Placed(u) /\ Question(u)
        /\ u.confirm # None => Shown(u) /\ u.run # Idle
    BY <1>0 DEF Asked, Question, Idle
  <1> HIDE DEF w
  <1>3. u.screen # "TOP_REFRESH_RUNNING" /\ u.confirm = None => Left(w)
    BY <1>0, <1>1, <1>2 DEF Placed
  <1>4. ASSUME NEW s, s # "TOP_REFRESH_RUNNING",
               u.confirm # None => Shown([w EXCEPT !.screen = s])
        PROVE  Left([w EXCEPT !.screen = s])
    BY <1>0, <1>1, <1>2, <1>4 DEF Placed, HasFields, Fields
  <1>5. ASSUME u.run.kind \in {"reboot", "shutdown"}
        PROVE  Left(v)
    <2>1. w.run = Idle
      BY <1>1, <1>5 DEF Settling
    <2>2. v = [w EXCEPT !.screen = u.run.from] \/ v = [w EXCEPT !.exit = TRUE]
      BY <1>5 DEF Ended, w
    <2>3. CASE v = [w EXCEPT !.screen = u.run.from]
      <3>1. u.run.from # "TOP_REFRESH_RUNNING"
        BY <1>2 DEF Placed
      <3>2. u.confirm # None => Shown(v)
        BY <1>1, <1>2, <1>5, <2>1, <2>3 DEF Shown, HasFields, Fields
      <3> QED
        BY <1>4, <2>3, <3>1, <3>2
    <2>4. CASE v = [w EXCEPT !.exit = TRUE]
      <3>1. /\ HasFields(v) /\ v.run = Idle /\ v.screen = u.screen /\ v.back = u.back
            /\ v.powerBack = u.powerBack /\ v.coreBack = u.coreBack
            /\ v.menu = u.menu /\ v.mrow = u.mrow /\ v.confirm = u.confirm
            /\ v.cat = u.cat /\ v.srow = u.srow /\ v.reset = u.reset
        BY <1>1, <2>1, <2>4 DEF HasFields, Fields
      <3>2. v.run.kind = None /\ v.run.from = None
        BY <3>1 DEF Idle
      <3>3. u.confirm # None => MenuScreens \cap Remaining(v) = {}
        <4>1. u.confirm # None => u.screen = "POWER_RUNNING"
          BY <1>2, <1>5 DEF Shown
        <4>2. "POWER_RUNNING" \in Busy \ MenuScreens
          BY DEF Busy, MenuScreens
        <4> QED
          BY <1>0, <3>1, <3>2, <4>1, <4>2, RemainingPages
      <3> QED
        BY <1>0, <1>2, <1>5, <3>1, <3>2, <3>3 DEF Placed
    <2> QED
      BY <2>2, <2>3, <2>4
  <1>6. ASSUME u.run.kind = "sleep"
        PROVE  Left(v)
    <2>1. w.run = Idle
      BY <1>1, <1>6 DEF Settling
    <2>2. u.confirm # None => u.screen = "POWER_MENU" /\ u.powerBack = "START_MENU"
      BY <1>2, <1>6 DEF Shown
    <2>3. u.screen # "TOP_REFRESH_RUNNING" /\ u.powerBack # "TOP_REFRESH_RUNNING"
      BY <1>2, <1>6 DEF Placed
    <2>4. v = w \/ (u.screen = "POWER_MENU" /\ v = [w EXCEPT !.screen = u.powerBack])
      BY <1>6 DEF Ended, w
    <2>5. Left(w)
      BY <1>0, <1>1, <1>2, <2>1, <2>2, <2>3 DEF Placed, Shown
    <2>6. Left([w EXCEPT !.screen = u.powerBack])
      <3>1. u.confirm # None => Shown([w EXCEPT !.screen = u.powerBack])
        BY <1>1, <2>1, <2>2 DEF Shown, HasFields, Fields
      <3> QED
        BY <1>4, <2>3, <3>1
    <2> QED
      BY <2>4, <2>5, <2>6
  <1>7. ASSUME u.run.kind \notin {"reboot", "shutdown", "sleep"}
        PROVE  Left(v)
    <2>1. u.confirm = None
      BY <1>2, <1>7 DEF Shown
    <2>2. CASE u.screen = "TOP_REFRESH_RUNNING"
      <3>1. u.run.kind = "scan" /\ u.run.from = "SETTINGS"
        BY <1>2, <2>2 DEF Placed
      <3>2. v = [w EXCEPT !.screen = "SETTINGS"]
        BY <2>2, <3>1 DEF Ended, w
      <3> QED
        BY <1>4, <2>1, <3>2
    <2>3. CASE u.screen # "TOP_REFRESH_RUNNING"
      <3>1. Left(w)
        BY <1>3, <2>1, <2>3
      <3>2. Left([w EXCEPT !.screen = "THUMBNAIL_RESULTS"]) /\ Left([w EXCEPT !.screen = "GALLERY"])
        BY <1>4, <2>1
      <3>3. ASSUME NEW x \in Scanned(w)
            PROVE  Left(x)
        <4> DEFINE Found(f, n) == [w EXCEPT !.found = f, !.sel = n]
        <4>1. x \in UNION {{Found(f, n) : n \in f} : f \in SUBSET Networks}
          BY <3>3, Zenon DEF Scanned
        <4> HIDE DEF Found
        <4>2. PICK f, n : x = Found(f, n)
          BY <4>1
        <4> QED
          BY <1>0, <1>1, <1>2, <2>1, <2>3, <4>2 DEF Placed, HasFields, Fields, Found
      <3>4. ASSUME NEW x \in run_power_action(w, "reboot")
            PROVE  Left(x)
        BY <1>1, <2>1, <2>3, <3>1, <3>4, PowerPlaced
      <3> HIDE DEF Left
      <3> QED
        BY <1>7, <2>3, <3>1, <3>2, <3>3, <3>4 DEF Ended, w
    <2> QED
      BY <2>2, <2>3
  <1>8. Left(v)
    BY <1>5, <1>6, <1>7
  <1>9. HasFields(v) /\ Placed(v) /\ Ranges(v)
    BY <1>2, <1>8 DEF Ranges, Rows
  <1>10. MenuScreens \cap Remaining(v) # {} => Question(v)
    BY <1>2, <1>8 DEF Question, MenuRow, Rows, SettingRow
  <1>11. Question([v EXCEPT !.confirm = None])
    BY <1>2, <1>8 DEF Question, SettingRow, HasFields, Fields
  <1>12. Asked(Tidy(v))
    BY <1>9, <1>10, <1>11, TidyAsked
  <1> QED
    BY <1>8, <1>9, <1>12, TidyFields DEF Kept

LEMMA StartsAsked ==
  ASSUME NEW u \in Starts \cup {[Fresh EXCEPT !.screen = "GONE"]}
  PROVE  /\ Asked(u) /\ u.confirm = None /\ u.reset = None
         /\ u.run.kind \notin {"repair", "reset"}
  <1>1. None \notin {"repair", "reset", "TOP_REFRESH_RUNNING"}
    BY NoneAssumption DEF Kinds, Settling, Busy
  <1>2. 1 \in DOMAIN StartMenu /\ 1 \in DOMAIN SettingRows["ui"] /\ "ui" \in DOMAIN SettingRows
    BY MenuAssumption DEF Listed
  <1>3. /\ HasFields(Fresh) /\ Fresh.menu = "start" /\ Fresh.mrow = 1 /\ Fresh.confirm = None
        /\ Fresh.cat = "ui" /\ Fresh.srow = 1 /\ Fresh.reset = None
        /\ Fresh.screen = "TOP" /\ Fresh.back = "TOP" /\ Fresh.powerBack = "TOP"
        /\ Fresh.coreBack = "TOP" /\ Fresh.run.kind = None /\ Fresh.run.from = None
    BY DEF Fresh, HasFields, Fields, Idle
  <1> DEFINE New(x) ==
        /\ HasFields(x) /\ x.menu = "start" /\ x.mrow = 1 /\ x.confirm = None
        /\ x.cat = "ui" /\ x.srow = 1 /\ x.reset = None
        /\ x.screen # "TOP_REFRESH_RUNNING" /\ x.run.kind \notin {"repair", "reset"}
        /\ "TOP_REFRESH_RUNNING" \notin {x.back, x.powerBack, x.coreBack, x.run.from}
  <1> HIDE DEF Fresh
  <1>4. New(Fresh)
    BY <1>1, <1>3
  <1>5. New([Fresh EXCEPT !.screen = "GONE"]) /\ New([Fresh EXCEPT !.screen = "ROMS"])
    BY <1>1, <1>3 DEF HasFields, Fields
  <1>6. New(Running(Fresh, "boot", None))
    BY <1>1, <1>3 DEF Running, HasFields, Fields
  <1>7. New([open_power_menu(Fresh) EXCEPT !.overlay = TRUE])
    BY <1>1, <1>3 DEF open_power_menu, HasFields, Fields
  <1>8. New(u)
    <2> HIDE DEF New
    <2> QED BY <1>4, <1>5, <1>6, <1>7 DEF Starts, run_boot_resume_if_needed
  <1> QED
    BY <1>2, <1>8 DEF Asked, Ranges, Rows, Placed, Question

\* Every step keeps the questions and what trail remembers of them, and a
\* destructive child is started by none that was not asked about.
AskedInv == Secret(ui) /\ Asked(ui) /\ Trailed(ui, trail)

Confirmed ==
  ui'.run # ui.run =>
    /\ ui'.run.kind = "repair" => trail["START_MENU"] = ui'.run.arg
    /\ ui'.run.kind = "reset" => trail["SETTINGS"] = ui'.run.arg

LEMMA StepAsked ==
  ASSUME AskedInv, [Next]_vars
  PROVE  AskedInv' /\ (Confirmed \/ UNCHANGED vars)
  <1>0. Secret(ui)'
    BY StepSecret DEF AskedInv
  <1>1. ASSUME NEW x, ui' = x, Asked(x), NEW m, trail' = m, Trailed(x, m)
        PROVE  AskedInv'
    <2>1. Asked(ui)'
      BY <1>1 DEF Asked, HasFields, Ranges, Rows, Placed, Question, Shown, MenuRow, SettingRow
    <2>2. Trailed(ui, trail)'
      BY <1>1 DEF Trailed
    <2> QED
      BY <1>0, <2>1, <2>2 DEF AskedInv
  <1>2. ASSUME NEW a, NEW r, Act(a, r), Listening
        PROVE  AskedInv' /\ Confirmed
    <2>1. PICK v \in handle_action(ui, a) : ui' = Tidy(v)
      BY <1>2 DEF Act
    <2>2. Fine(ui, a, v)
      BY <1>2, <2>1, HandleFine DEF AskedInv, Secret, Listening
    <2>3. HasFields(v) /\ Ranges(v) /\ Placed(v) /\ Question(v) /\ Answers(ui, a, v)
      BY <2>2 DEF Fine, Asked
    <2>4. Question([v EXCEPT !.confirm = None])
      BY <2>3 DEF Question, SettingRow, HasFields, Fields
    <2>5. Asked(Tidy(v))
      BY <2>3, <2>4, TidyAsked
    <2>6. trail' = Remembered(ui, a, Tidy(v))
      BY <1>2, <2>1 DEF Act
    <2>7. Trailed(Tidy(v), Remembered(ui, a, Tidy(v)))
      BY <2>2, RememberedTrail DEF AskedInv
    <2>8. AskedInv'
      <3> HIDE DEF AskedInv
      <3> QED BY <1>1, <2>1, <2>5, <2>6, <2>7
    <2>9. ui'.run = v.run
      BY <2>1, <2>3, TidyFields
    <2> QED
      BY <2>3, <2>8, <2>9 DEF Confirmed, Answers, AskedInv, Trailed
  <1>3. CASE ReadInput
    BY <1>2, <1>3 DEF ReadInput, Fire
  <1>4. CASE RepeatDue
    BY <1>2, <1>4 DEF RepeatDue, Fire
  <1>5. CASE ChildEnds
    <2>1. PICK v \in Ended(ui) : ui' = Tidy(v)
      BY <1>5 DEF ChildEnds
    <2>2. /\ Asked(Tidy(v)) /\ Tidy(v).run.kind \notin {"repair", "reset"}
          /\ Tidy(v).confirm \in {ui.confirm, None} /\ Tidy(v).reset \in {ui.reset, None}
      BY <1>5, <2>1, EndedAsked DEF ChildEnds, AskedInv
    <2>3. trail' = trail /\ Trailed(Tidy(v), trail)
      BY <1>5, <2>2 DEF ChildEnds, AskedInv, Trailed
    <2> QED
      BY <1>1, <2>1, <2>2, <2>3 DEF Confirmed
  <1>6. CASE SettleEnds
    <2> DEFINE x == [ui EXCEPT !.run = Idle]
    <2>1. None \notin {"repair", "reset", "scan", "TOP_REFRESH_RUNNING"}
      BY NoneAssumption DEF Kinds, Settling, Busy
    <2>2. ui.run.kind = "settle" /\ ui.run # Idle
      BY <1>6, NoneAssumption DEF SettleEnds, Settle, Idle, Kinds
    <2>3. /\ HasFields(ui) /\ Ranges(ui) /\ Placed(ui) /\ Question(ui)
          /\ ui.confirm = None
      BY <2>2 DEF AskedInv, Asked, Question, Shown
    <2>4. /\ HasFields(x) /\ x.run = Idle /\ x.screen = ui.screen /\ x.back = ui.back
          /\ x.powerBack = ui.powerBack /\ x.coreBack = ui.coreBack
          /\ x.menu = ui.menu /\ x.mrow = ui.mrow /\ x.confirm = ui.confirm
          /\ x.cat = ui.cat /\ x.srow = ui.srow /\ x.reset = ui.reset
      BY <2>3 DEF HasFields, Fields
    <2> HIDE DEF x
    <2>5. Asked(x) /\ Trailed(x, trail)
      BY <2>1, <2>2, <2>3, <2>4
         DEF Asked, Ranges, Rows, Placed, Question, SettingRow, Idle, AskedInv, Trailed
    <2>6. ui' = x /\ trail' = trail
      BY <1>6 DEF SettleEnds, x
    <2>7. AskedInv'
      BY <1>1, <2>5, <2>6
    <2>8. Confirmed
      BY <2>1, <2>4, <2>6 DEF Confirmed, Idle
    <2> QED
      BY <2>7, <2>8
  <1>7. CASE QuestionExpires
    <2> DEFINE x == [ui EXCEPT !.confirm = None, !.reset = None]
    <2>1. HasFields(ui) /\ Ranges(ui) /\ Placed(ui)
      BY DEF AskedInv, Asked
    <2>2. Asked(x) /\ Trailed(x, trail) /\ x.run = ui.run
      BY <2>1 DEF Asked, Ranges, Rows, Placed, Question, Trailed, HasFields, Fields
    <2> HIDE DEF x
    <2>3. ui' = x /\ trail' = trail
      BY <1>7 DEF QuestionExpires, x
    <2> QED
      BY <1>1, <2>2, <2>3 DEF Confirmed
  <1>8. CASE Leave \/ Start
    <2>1. PICK x \in Starts \cup {[Fresh EXCEPT !.screen = "GONE"]} : ui' = x
      BY <1>8 DEF Leave, Start
    <2>2. Asked(x) /\ x.confirm = None /\ x.reset = None /\ x.run.kind \notin {"repair", "reset"}
      BY StartsAsked
    <2>3. PICK m : trail' = m
      OBVIOUS
    <2>4. Trailed(x, m)
      BY <2>2 DEF Trailed
    <2> QED
      BY <1>1, <2>1, <2>2, <2>3, <2>4 DEF Confirmed
  <1>9. CASE UNCHANGED <<ui, trail>>
    BY <1>1, <1>9 DEF AskedInv, Confirmed
  <1> QED
    BY <1>3, <1>4, <1>5, <1>6, <1>7, <1>8, <1>9
       DEF Next, vars, DrainIgnored, IgnoreEnds, SettleDrains, Move, Tap, PowerKey, Sigterm

(* SD2 repair (run_sd2_repair) and a factory reset (run_factory_reset_     *)
(* action) start only on a second A on their own row, with no other row    *)
(* and no B on that page since the first, whatever power menus, restarts,  *)
(* children and other pages came between, for every menu in which repairs  *)
(* ask for confirmation.                                                   *)
THEOREM DestructionConfirmed == Spec => DestructionIsConfirmed
  <1>1. Init => AskedInv
    <2> SUFFICES ASSUME Init
                 PROVE  AskedInv
      OBVIOUS
    <2> QED
      BY StartsSecret, StartsAsked DEF Init, AskedInv, Trailed
  <1>2. AskedInv /\ [Next]_vars => AskedInv'
    BY StepAsked
  <1>3. AskedInv /\ [Next]_vars => [Confirmed]_vars
    BY StepAsked
  <1> QED
    BY <1>1, <1>2, <1>3, PTL DEF Spec, DestructionIsConfirmed, Confirmed

-----------------------------------------------------------------------------
(* The repeat.  The queue is read by a recursive function of the event, so *)
(* the proofs need that such a function exists.                            *)

\* A non-empty set of naturals has a least element.
LEMMA LeastNat ==
    ASSUME NEW S \in SUBSET Nat, S # {}
    PROVE  \E x \in S : \A y \in S : x <= y
<1>1. PICK x \in S : \A y \in S : ~(<<y, x>> \in OpToRel(<, Nat))
  BY NatLessThanWellFounded, WFMin
<1>2. \A y \in S : ~(y < x)
  BY <1>1 DEF OpToRel
<1> QED
  BY <1>2

\* A function defined by recursion on its argument exists, and its values are
\* where the step keeps them.
Turns(A, N) == [A \X (1..N) -> A]
Runs(A, base, N, next) ==
    \E f \in [0..N -> A] : f[0] = base /\ \A n \in 1..N : f[n] = next[<<f[n - 1], n>>]

LEMMA Recursion ==
    ASSUME NEW A, NEW base \in A, NEW N \in Nat, NEW next \in Turns(A, N)
    PROVE  Runs(A, base, N, next)
<1> USE DEF Turns, Runs
<1> DEFINE Upto(m) == \E f \in [0..m -> A] : f[0] = base /\ \A n \in 1..m : f[n] = next[<<f[n - 1], n>>]
           Bad == {m \in 0..N : ~Upto(m)}
<1>1. Upto(0)
  <2> DEFINE f == [n \in 0..0 |-> base]
  <2>1. f \in [0..0 -> A] /\ f[0] = base /\ \A n \in 1..0 : f[n] = next[<<f[n - 1], n>>] OBVIOUS
  <2> QED BY <2>1
<1>2. ASSUME NEW m \in 1..N, Upto(m - 1) PROVE Upto(m)
  <2>1. PICK f \in [0..(m - 1) -> A] : f[0] = base /\ \A n \in 1..(m - 1) : f[n] = next[<<f[n - 1], n>>]
    BY <1>2
  <2> DEFINE last == next[<<f[m - 1], m>>]
             g == [n \in 0..m |-> IF n = m THEN last ELSE f[n]]
  <2>2. last \in A BY <2>1
  <2>3. \A n \in 1..m : n - 1 \in 0..(m - 1) /\ n - 1 # m BY SMT
  <2>4. g \in [0..m -> A] BY <2>1, <2>2
  <2>5. g[0] = base BY <2>1
  <2>6. \A n \in 1..m : g[n] = next[<<g[n - 1], n>>]
    <3> TAKE n \in 1..m
    <3>1. g[n - 1] = f[n - 1] BY <2>3
    <3>2. CASE n = m BY <3>1, <3>2
    <3>3. CASE n # m
      <4>1. n \in 1..(m - 1) BY <3>3
      <4> QED BY <2>1, <3>1, <3>3, <4>1
    <3> QED BY <3>2, <3>3
  <2> HIDE DEF g
  <2> QED BY <2>4, <2>5, <2>6
<1> HIDE DEF Upto
<1>3. Bad = {}
  <2> SUFFICES ASSUME Bad # {} PROVE FALSE OBVIOUS
  <2>1. Bad \in SUBSET Nat OBVIOUS
  <2>2. PICK m \in Bad : \A y \in Bad : m <= y BY <2>1, LeastNat
  <2>3. m # 0 BY <1>1, <2>2
  <2>4. m - 1 \in 0..N /\ m - 1 \notin Bad /\ m \in 1..N BY <2>2, <2>3
  <2> QED BY <1>2, <2>2, <2>4
<1> QED BY <1>3 DEF Upto

\* Induction up to a bound, for a set of good indices.
LEMMA UpTo ==
    ASSUME NEW N \in Nat, NEW Good, 0 \in Good, \A n \in 1..N : n - 1 \in Good => n \in Good
    PROVE  \A n \in 0..N : n \in Good
<1> DEFINE Bad == {m \in 0..N : m \notin Good}
<1> SUFFICES ASSUME Bad # {} PROVE FALSE OBVIOUS
<1>1. Bad \in SUBSET Nat OBVIOUS
<1>2. PICK m \in Bad : \A y \in Bad : m <= y BY <1>1, LeastNat
<1>3. m # 0 BY <1>2
<1>4. m - 1 \in 0..N /\ m - 1 \notin Bad /\ m \in 1..N BY <1>2, <1>3
<1> QED BY <1>2, <1>4


\* What a control can say, an event of it, and a repeat.
Acts == {None} \cup UNION {ActionsOf(c) : c \in Codes}
Events == {e \in [code : Codes, act : Acts] : e.act \in ActionsOf(e.code) \cup {None}}
Repeated == {NoRepeat} \cup [code : Sticks, act : Acts \ {None}]

\* The last event of a direction control says where the control stands.
Newest(s, i) == \A j \in DOMAIN s : j > i => s[j].code # s[i].code
Tells(s) ==
  \A i \in DOMAIN s : s[i].code \in Sticks /\ Newest(s, i) => s[i].act = pos[s[i].code]

\* What RepeatHasCause rests on.
RepeatInv ==
  /\ repeat \in Repeated /\ pos \in [Sticks -> Acts]
  /\ queue \in Seq(Events) /\ Tells(queue)
  /\ RepeatHasCause

\* The accumulator of read_input_actions.
Readings == [action : Acts, repeat : Repeated]

LEMMA ReadEventTyped ==
  ASSUME NEW acc \in Readings, NEW e \in Events
  PROVE  ReadEvent(acc, e) \in Readings
<1>1. e.code \in Codes /\ e.act \in Acts
      /\ (e.act \in Directions => e.code \in Sticks /\ e.act # None)
  <2>1. e.act \in Directions => e.act # None BY NoneAssumption
  <2> QED BY <2>1 DEF Events, Sticks
<1>2. Repeats(e.act) => e.act \in Directions BY DEF Repeats, Directions
<1>3. acc.action \in Acts /\ acc.repeat \in Repeated BY DEF Readings
<1>4. [acc EXCEPT !.repeat = NoRepeat] \in Readings BY DEF Readings, Repeated
<1> DEFINE r == IF Repeats(e.act) THEN [code |-> e.code, act |-> e.act] ELSE acc.repeat
<1>5. r \in Repeated BY <1>1, <1>2, <1>3 DEF Repeated
<1>6. [action |-> e.act, repeat |-> r] \in Readings BY <1>1, <1>5 DEF Readings
<1> QED BY <1>4, <1>6 DEF ReadEvent

\* One event: a repeat of its control is new or still pressed, another one is
\* the old one.
LEMMA ReadEventRepeat ==
  ASSUME NEW acc \in Readings, NEW e \in Events, NEW r, r = ReadEvent(acc, e).repeat, r # NoRepeat
  PROVE  /\ r.code = e.code => e.act # None
         /\ r.code # e.code => r = acc.repeat
<1>1. CASE e.act = None
  <2>1. r = IF acc.repeat.code = e.code THEN NoRepeat ELSE acc.repeat
    <3>1. [acc EXCEPT !.repeat = NoRepeat].repeat = NoRepeat BY DEF Readings
    <3>2. acc.repeat = [code |-> e.code, act |-> e.act] => acc.repeat = NoRepeat
      BY <1>1 DEF Readings, Repeated
    <3>3. CASE acc.repeat = NoRepeat
      <4>1. r = acc.repeat \/ r = NoRepeat BY <1>1, <3>1, <3>3 DEF ReadEvent
      <4> QED BY <4>1, <3>3
    <3>4. CASE acc.repeat # NoRepeat BY <1>1, <3>1, <3>2, <3>4 DEF ReadEvent
    <3> QED BY <3>3, <3>4
  <2> QED BY <2>1
<1>2. CASE e.act # None
  <2>1. r = acc.repeat \/ r = [code |-> e.code, act |-> e.act]
    BY <1>2 DEF ReadEvent
  <2> QED BY <1>2, <2>1
<1> QED BY <1>1, <1>2

\* The whole queue: what still repeats was repeating and is not mentioned, or
\* the last event of its control is a press.
Pressed(s, n, code) ==
  \E i \in 1..n : s[i].code = code /\ s[i].act # None /\ \A j \in (i + 1)..n : s[j].code # code
Unmentioned(s, n, code) == \A i \in 1..n : s[i].code # code

LEMMA ReadInputRepeat ==
  ASSUME queue \in Seq(Events), repeat \in Repeated,
         NEW r, r = read_input_actions.repeat, r # NoRepeat
  PROVE  /\ r \in Repeated
         /\ \/ r = repeat /\ Unmentioned(queue, Len(queue), r.code)
            \/ Pressed(queue, Len(queue), r.code)
<1> DEFINE start == [action |-> None, repeat |-> repeat]
           Step(acc, n) == ReadEvent(acc, queue[n])
           N == Len(queue)
           Is(f) == f = [n \in 0..N |-> IF n = 0 THEN start ELSE Step(f[n - 1], n)]
           read == CHOOSE f : Is(f)
<1>1. read_input_actions = read[N] BY DEF read_input_actions
<1>2. N \in Nat OBVIOUS
<1>3. \A n \in 1..N : queue[n] \in Events OBVIOUS
<1>4. \A acc \in Readings, n \in 1..N : Step(acc, n) \in Readings BY <1>3, ReadEventTyped
<1>5. start \in Readings BY DEF Readings, Acts
<1>6. \A acc \in Readings, n \in 1..N : Step(acc, n).repeat # NoRepeat =>
         /\ Step(acc, n).repeat.code = queue[n].code => queue[n].act # None
         /\ Step(acc, n).repeat.code # queue[n].code => Step(acc, n).repeat = acc.repeat
  BY <1>3, ReadEventRepeat
<1>7. start.repeat = repeat OBVIOUS
<1> HIDE DEF Step, start
<1>8. \E f : Is(f)
  <2> DEFINE next == [x \in Readings \X (1..N) |-> Step(x[1], x[2])]
             A == Readings
             base == start
  <2>1. next \in [Readings \X (1..N) -> Readings] BY <1>4
  <2>2. \A acc \in Readings, n \in 1..N : next[<<acc, n>>] = Step(acc, n) OBVIOUS
  <2> HIDE DEF next, N
  <2>3. base \in A /\ next \in Turns(A, N) BY <1>5, <2>1 DEF Turns
  <2> HIDE DEF A, base, Is
  <2>4. Runs(A, base, N, next) BY <1>2, <2>3, Recursion
  <2>5. PICK f \in [0..N -> A] : f[0] = base /\ \A n \in 1..N : f[n] = next[<<f[n - 1], n>>]
    BY <2>4 DEF Runs
  <2>6. f \in [0..N -> Readings] /\ f[0] = start /\ \A n \in 1..N : f[n] = next[<<f[n - 1], n>>]
    BY <2>5 DEF A, base
  <2>7. \A n \in 1..N : n - 1 \in 0..N /\ f[n - 1] \in Readings BY <1>2, <2>6
  <2>8. \A n \in 1..N : f[n] = Step(f[n - 1], n) BY <2>2, <2>6, <2>7
  <2>9. \A n \in 0..N : n = 0 \/ n \in 1..N BY <1>2
  <2>10. Is(f) BY <2>6, <2>8, <2>9 DEF Is
  <2> QED BY <2>10
<1>9. Is(read) BY <1>8
<1> HIDE DEF read
<1>10. read[0] = start /\ \A n \in 1..N : read[n] = Step(read[n - 1], n) BY <1>2, <1>9
<1> HIDE DEF Is, N
<1> DEFINE R(n) == read[n].repeat
           Sound(n) == R(n) = NoRepeat \/ (R(n) = repeat /\ Unmentioned(queue, n, R(n).code))
                       \/ Pressed(queue, n, R(n).code)
           Good == {n \in 0..N : read[n] \in Readings /\ Sound(n)}
<1>11. 0 \in Good
  <2>1. Unmentioned(queue, 0, repeat.code) BY DEF Unmentioned
  <2> QED BY <1>2, <1>5, <1>7, <1>10, <2>1
<1>12. ASSUME NEW n \in 1..N, n - 1 \in Good PROVE n \in Good
  <2>1. n \in 0..N /\ n \in Nat /\ n - 1 \in Nat BY <1>2
  <2>2. read[n - 1] \in Readings /\ Sound(n - 1) BY <1>12 DEF Good
  <2>3. read[n] = Step(read[n - 1], n) /\ read[n] \in Readings BY <1>4, <1>10, <2>2
  <2>4. CASE R(n) = NoRepeat BY <2>1, <2>3, <2>4 DEF Good
  <2>5. CASE R(n) # NoRepeat /\ R(n).code = queue[n].code
    <3>1. queue[n].act # None BY <1>6, <2>2, <2>3, <2>5
    <3>2. n \in 1..n /\ (n + 1)..n = {} BY <2>1
    <3>3. Pressed(queue, n, R(n).code) BY <2>5, <3>1, <3>2 DEF Pressed
    <3> QED BY <2>1, <2>3, <3>3
  <2>6. CASE R(n) # NoRepeat /\ R(n).code # queue[n].code
    <3>1. R(n) = R(n - 1) BY <1>6, <2>2, <2>3, <2>6
    <3> DEFINE c == R(n).code
    <3>2. queue[n].code # c BY <2>6
    <3> HIDE DEF c, R
    <3>3. Unmentioned(queue, n - 1, c) => Unmentioned(queue, n, c)
      BY <2>1, <3>2 DEF Unmentioned
    <3>4. Pressed(queue, n - 1, c) => Pressed(queue, n, c)
      <4> SUFFICES ASSUME Pressed(queue, n - 1, c) PROVE Pressed(queue, n, c) OBVIOUS
      <4>1. PICK i \in 1..(n - 1) : queue[i].code = c /\ queue[i].act # None
                                   /\ \A j \in (i + 1)..(n - 1) : queue[j].code # c
        BY DEF Pressed
      <4>2. i \in 1..n /\ \A j \in (i + 1)..n : j \in (i + 1)..(n - 1) \/ j = n BY <2>1
      <4>3. \A j \in (i + 1)..n : queue[j].code # c BY <3>2, <4>1, <4>2
      <4> QED BY <4>1, <4>2, <4>3 DEF Pressed
    <3>5. Sound(n) BY <2>2, <2>6, <3>1, <3>3, <3>4 DEF c
    <3> QED BY <2>1, <2>3, <3>5
  <2> QED BY <2>4, <2>5, <2>6
<1> HIDE DEF Good
<1>13. \A n \in 0..N : n \in Good BY <1>2, <1>11, <1>12, UpTo
<1>14. N \in Good BY <1>2, <1>13
<1>15. read[N] \in Readings /\ Sound(N) BY <1>14 DEF Good
<1>16. R(N) \in Repeated BY <1>15 DEF Readings
<1> QED BY <1>1, <1>15, <1>16 DEF N

\* Leaving out the buttons keeps the directions, and the last event of each.
Within(s, n, k, i) == i \in 1..n /\ s[i] = k /\ \A j \in (i + 1)..n : s[j].code # k.code

LEMMA WithoutButtonsKeeps ==
  ASSUME queue \in Seq(Events)
  PROVE  /\ WithoutButtons \in Seq(Events)
         /\ \A c \in Queued : \E k \in DOMAIN WithoutButtons : WithoutButtons[k].code = c
         /\ Tells(queue) => Tells(WithoutButtons)
<1> DEFINE start == << >>
           Step(acc, n) == IF queue[n].code \in Sticks THEN Append(acc, queue[n]) ELSE acc
           N == Len(queue)
           Is(f) == f = [n \in 0..N |-> IF n = 0 THEN start ELSE Step(f[n - 1], n)]
           kept == CHOOSE f : Is(f)
<1>1. WithoutButtons = kept[N] BY DEF WithoutButtons
<1>2. N \in Nat OBVIOUS
<1>3. \A n \in 1..N : queue[n] \in Events OBVIOUS
<1>4. \A acc \in Seq(Events), n \in 1..N : Step(acc, n) \in Seq(Events) BY <1>3
<1>5. start \in Seq(Events) OBVIOUS
<1>6. \A acc, n : queue[n].code \in Sticks => Step(acc, n) = Append(acc, queue[n]) OBVIOUS
<1>7. \A acc, n : queue[n].code \notin Sticks => Step(acc, n) = acc OBVIOUS
<1> HIDE DEF Step
<1>8. \E f : Is(f)
  <2> DEFINE next == [x \in Seq(Events) \X (1..N) |-> Step(x[1], x[2])]
             A == Seq(Events)
             base == start
  <2>1. next \in [Seq(Events) \X (1..N) -> Seq(Events)] BY <1>4
  <2>2. \A acc \in Seq(Events), n \in 1..N : next[<<acc, n>>] = Step(acc, n) OBVIOUS
  <2> HIDE DEF next, N, start
  <2>3. base \in A /\ next \in Turns(A, N) BY <1>5, <2>1 DEF Turns
  <2> HIDE DEF A, base, Is
  <2>4. Runs(A, base, N, next) BY <1>2, <2>3, Recursion
  <2>5. PICK f \in [0..N -> A] : f[0] = base /\ \A n \in 1..N : f[n] = next[<<f[n - 1], n>>]
    BY <2>4 DEF Runs
  <2>6. f \in [0..N -> Seq(Events)] /\ f[0] = start /\ \A n \in 1..N : f[n] = next[<<f[n - 1], n>>]
    BY <2>5 DEF A, base
  <2>7. \A n \in 1..N : n - 1 \in 0..N /\ f[n - 1] \in Seq(Events) BY <1>2, <2>6
  <2>8. \A n \in 1..N : f[n] = Step(f[n - 1], n) BY <2>2, <2>6, <2>7
  <2>9. \A n \in 0..N : n = 0 \/ n \in 1..N BY <1>2
  <2>10. Is(f) BY <2>6, <2>8, <2>9 DEF Is
  <2> QED BY <2>10
<1>9. Is(kept) BY <1>8
<1> HIDE DEF kept
<1>10. kept[0] = << >> /\ \A n \in 1..N : kept[n] = Step(kept[n - 1], n) BY <1>2, <1>9
<1> HIDE DEF Is, N, start
<1> DEFINE All(n) == \A i \in 1..n : queue[i].code \in Sticks =>
                        \E k \in DOMAIN kept[n] : kept[n][k].code = queue[i].code
           Same(n) == \A k \in DOMAIN kept[n] : Newest(kept[n], k) =>
                        \E i \in 1..n : Within(queue, n, kept[n][k], i)
           Direct(n) == \A k \in DOMAIN kept[n] : kept[n][k].code \in Sticks
           Good == {n \in 0..N : kept[n] \in Seq(Events) /\ All(n) /\ Direct(n) /\ Same(n)}
<1>11. 0 \in Good
  <2>1. kept[0] \in Seq(Events) /\ DOMAIN kept[0] = {} BY <1>10
  <2> QED BY <1>2, <2>1
<1>12. ASSUME NEW n \in 1..N, n - 1 \in Good PROVE n \in Good
  <2> DEFINE old == kept[n - 1]
             e == queue[n]
  <2>1. n \in 0..N /\ n \in Nat /\ n - 1 \in Nat BY <1>2
  <2>2. old \in Seq(Events) /\ All(n - 1) /\ Direct(n - 1) /\ Same(n - 1) BY <1>12 DEF Good
  <2>3. kept[n] = Step(old, n) /\ kept[n] \in Seq(Events) BY <1>4, <1>10, <2>2
  <2>4. \A i \in 1..n : i = n \/ i \in 1..(n - 1) BY <2>1
  <2>5. ASSUME NEW x, x.code # e.code, NEW i, Within(queue, n - 1, x, i)
        PROVE  Within(queue, n, x, i)
    <3>1. i \in 1..n /\ \A j \in (i + 1)..n : j \in (i + 1)..(n - 1) \/ j = n BY <2>1, <2>5 DEF Within
    <3> QED BY <2>5, <3>1 DEF Within
  <2>6. CASE e.code \notin Sticks
    <3>1. kept[n] = old BY <1>7, <2>3, <2>6
    <3>2. All(n) BY <2>2, <2>4, <2>6, <3>1
    <3>3. Same(n)
      <4> SUFFICES ASSUME NEW k \in DOMAIN old, Newest(old, k)
                   PROVE  \E i \in 1..n : Within(queue, n, old[k], i) BY <3>1
      <4>1. PICK i \in 1..(n - 1) : Within(queue, n - 1, old[k], i) BY <2>2
      <4>2. old[k].code # e.code BY <2>2, <2>6
      <4>3. Within(queue, n, old[k], i) BY <2>5, <4>1, <4>2
      <4> QED BY <2>1, <4>1, <4>3
    <3> QED BY <2>1, <2>2, <2>3, <3>1, <3>2, <3>3
  <2>7. CASE e.code \in Sticks
    <3> DEFINE m == Len(old)
    <3>1. e \in Events BY <1>3
    <3>2. kept[n] = Append(old, e) BY <1>6, <2>3, <2>7
    <3>3. m \in Nat /\ DOMAIN old = 1..m BY <2>2
    <3>4. DOMAIN kept[n] = 1..(m + 1) /\ kept[n][m + 1] = e /\ \A k \in 1..m : kept[n][k] = old[k]
      BY <2>2, <3>1, <3>2
    <3>5. \A k \in 1..(m + 1) : k = m + 1 \/ k \in 1..m BY <3>3
    <3>6. m + 1 \in 1..(m + 1) /\ \A k \in 1..m : k \in 1..(m + 1) /\ m + 1 > k BY <3>3
    <3> HIDE DEF m
    <3>7. All(n)
      <4> TAKE i \in 1..n
      <4> HAVE queue[i].code \in Sticks
      <4>1. CASE i = n BY <3>4, <3>6, <4>1
      <4>2. CASE i \in 1..(n - 1)
        <5>1. PICK k \in DOMAIN old : old[k].code = queue[i].code BY <2>2, <4>2
        <5> QED BY <3>3, <3>4, <3>6, <5>1
      <4> QED BY <2>4, <4>1, <4>2
    <3>8. Direct(n) BY <2>2, <2>7, <3>3, <3>4, <3>5
    <3>9. Same(n)
      <4> TAKE k \in DOMAIN kept[n]
      <4> HAVE Newest(kept[n], k)
      <4>1. CASE k = m + 1
        <5>1. n \in 1..n /\ (n + 1)..n = {} BY <2>1
        <5>2. Within(queue, n, e, n) BY <5>1 DEF Within
        <5> QED BY <3>4, <4>1, <5>1, <5>2
      <4>2. CASE k \in 1..m
        <5>1. kept[n][k] = old[k] BY <3>4, <4>2
        <5>2. old[k].code # e.code BY <3>4, <3>6, <4>2, <5>1 DEF Newest
        <5>3. Newest(old, k) BY <3>3, <3>4, <3>6, <5>1 DEF Newest
        <5>4. PICK i \in 1..(n - 1) : Within(queue, n - 1, old[k], i) BY <2>2, <3>3, <4>2, <5>3
        <5>5. Within(queue, n, old[k], i) BY <2>5, <5>2, <5>4
        <5> QED BY <2>1, <5>1, <5>4, <5>5
      <4> QED BY <3>4, <3>5, <4>1, <4>2
    <3> QED BY <2>1, <2>3, <3>7, <3>8, <3>9
  <2> QED BY <2>6, <2>7
<1> HIDE DEF Good
<1>13. \A n \in 0..N : n \in Good BY <1>2, <1>11, <1>12, UpTo
<1>14. N \in Good BY <1>2, <1>13
<1>15. kept[N] \in Seq(Events) /\ All(N) /\ Direct(N) /\ Same(N) BY <1>14 DEF Good
<1>16. DOMAIN queue = 1..N BY DEF N
<1>17. \A c \in Queued : \E k \in DOMAIN kept[N] : kept[N][k].code = c BY <1>15, <1>16 DEF Queued
<1>18. ASSUME Tells(queue), NEW k \in DOMAIN kept[N], Newest(kept[N], k)
       PROVE  kept[N][k].act = pos[kept[N][k].code]
  <2>1. PICK i \in 1..N : Within(queue, N, kept[N][k], i) BY <1>15, <1>18
  <2>2. queue[i] = kept[N][k] /\ queue[i].code \in Sticks BY <1>15, <2>1 DEF Within
  <2>3. \A j \in 1..N : j > i => j \in (i + 1)..N BY <1>2
  <2>4. Newest(queue, i) BY <1>16, <2>1, <2>2, <2>3 DEF Newest, Within
  <2> QED BY <1>16, <1>18, <2>2, <2>4 DEF Tells
<1> QED BY <1>1, <1>15, <1>17, <1>18 DEF Tells

\* One more event is heard: the new one is the last of its control.
LEMMA DeliverKeeps ==
  ASSUME RepeatInv, NEW e \in Events, Deliver(e), UNCHANGED repeat,
         pos' \in [Sticks -> Acts],
         e.code \in Sticks => pos' = [pos EXCEPT ![e.code] = e.act],
         e.code \notin Sticks => pos' = pos
  PROVE  RepeatInv'
<1> DEFINE waiting == IF e.act = None \/ e.code \in DOMAIN AbsActions THEN queue ELSE WithoutButtons
<1>1. waiting \in Seq(Events) /\ Tells(waiting)
  BY WithoutButtonsKeeps DEF RepeatInv
<1>2. \A c \in Queued : \E k \in DOMAIN waiting : waiting[k].code = c
  BY WithoutButtonsKeeps DEF RepeatInv, Queued
<1> HIDE DEF waiting
<1>3. \A c \in Sticks : c # e.code => pos'[c] = pos[c]
  BY DEF RepeatInv
<1>4. e.code \in Sticks => pos'[e.code] = e.act
  BY DEF RepeatInv
<1>5. repeat' = repeat /\ repeat \in Repeated /\ (repeat # NoRepeat => repeat.code \in Sticks)
  BY DEF RepeatInv, Repeated
<1>6. repeat # NoRepeat => pos[repeat.code] # None \/ repeat.code \in Queued \/ lost
  BY DEF RepeatInv, RepeatHasCause
<1>7. CASE queue' = Append(waiting, e) /\ lost' = lost
  <2> DEFINE m == Len(waiting)
  <2>1. m \in Nat /\ DOMAIN waiting = 1..m BY <1>1
  <2>2. queue' \in Seq(Events) /\ DOMAIN queue' = 1..(m + 1) /\ queue'[m + 1] = e
        /\ \A k \in 1..m : queue'[k] = waiting[k]
    BY <1>1, <1>7
  <2>3. \A k \in 1..(m + 1) : k = m + 1 \/ k \in 1..m BY <2>1
  <2>4. m + 1 \in 1..(m + 1) /\ \A k \in 1..m : k \in 1..(m + 1) /\ m + 1 > k BY <2>1
  <2> HIDE DEF m
  <2>5. Tells(queue)'
    <3> SUFFICES ASSUME NEW k \in DOMAIN queue', queue'[k].code \in Sticks,
                        \A j \in DOMAIN queue' : j > k => queue'[j].code # queue'[k].code
                 PROVE  queue'[k].act = pos'[queue'[k].code]
      BY DEF Tells, Newest
    <3>1. CASE k = m + 1 BY <1>4, <2>2, <3>1
    <3>2. CASE k \in 1..m
      <4>1. queue'[k] = waiting[k] /\ waiting[k].code # e.code BY <2>2, <2>4, <3>2
      <4>2. Newest(waiting, k) BY <2>1, <2>2, <2>4, <4>1 DEF Newest
      <4>3. waiting[k].act = pos[waiting[k].code] BY <1>1, <2>1, <3>2, <4>1, <4>2 DEF Tells
      <4> QED BY <1>3, <4>1, <4>3
    <3> QED BY <2>2, <2>3, <3>1, <3>2
  <2>6. \A c \in Queued : c \in Queued'
    <3> TAKE c \in Queued
    <3>1. PICK k \in DOMAIN waiting : waiting[k].code = c BY <1>2
    <3>2. k \in DOMAIN queue' /\ queue'[k].code = c BY <2>1, <2>2, <2>4, <3>1
    <3>3. c \in Sticks BY DEF Queued
    <3> QED BY <3>2, <3>3 DEF Queued
  <2>7. e.code \in Sticks => e.code \in Queued' BY <2>2, <2>4 DEF Queued
  <2>8. RepeatHasCause'
    <3> SUFFICES ASSUME repeat # NoRepeat
                 PROVE  pos'[repeat.code] # None \/ repeat.code \in Queued' \/ lost'
      BY <1>5 DEF RepeatHasCause
    <3> QED BY <1>3, <1>5, <1>6, <1>7, <2>6, <2>7
  <2> QED BY <1>5, <2>2, <2>5, <2>8 DEF RepeatInv
<1>8. CASE queue' = <<e>> /\ lost' = (lost \/ repeat.code \in Queued)
  <2>1. queue' \in Seq(Events) /\ DOMAIN queue' = {1} /\ queue'[1] = e BY <1>8
  <2>2. Tells(queue)' BY <1>4, <2>1 DEF Tells
  <2>3. e.code \in Sticks => e.code \in Queued' BY <2>1 DEF Queued
  <2>4. RepeatHasCause'
    <3> SUFFICES ASSUME repeat # NoRepeat
                 PROVE  pos'[repeat.code] # None \/ repeat.code \in Queued' \/ lost'
      BY <1>5 DEF RepeatHasCause
    <3> QED BY <1>3, <1>5, <1>6, <1>8, <2>3
  <2> QED BY <1>5, <2>1, <2>2, <2>4 DEF RepeatInv
<1> QED BY <1>7, <1>8 DEF Deliver, waiting

\* The queue is empty after it was read or drained.
LEMMA EmptyQueue ==
  ASSUME RepeatInv, queue' = << >>, UNCHANGED pos, repeat' \in Repeated,
         repeat' # NoRepeat => pos[repeat'.code] # None \/ lost'
  PROVE  RepeatInv'
<1>1. queue' \in Seq(Events) /\ DOMAIN queue' = {} OBVIOUS
<1>2. Tells(queue)' BY <1>1 DEF Tells
<1> QED BY <1>1, <1>2 DEF RepeatInv, RepeatHasCause

LEMMA ReadInputKeeps ==
  ASSUME RepeatInv, ReadInput
  PROVE  RepeatInv'
<1> DEFINE read == read_input_actions
<1>1. repeat' = NoRepeat \/ repeat' = read.repeat
  <2>1. \A a, r : Act(a, r) => repeat' = NoRepeat \/ repeat' = r BY DEF Act
  <2>2. \A r : Fire(r) => repeat' = NoRepeat \/ repeat' = r BY <2>1 DEF Fire
  <2> HIDE DEF read
  <2> QED BY <2>1, <2>2 DEF ReadInput, read
<1>2. queue' = << >> /\ pos' = pos
      /\ lost' = (lost /\ repeat'.code = repeat.code /\ repeat.code \notin Queued)
  BY DEF ReadInput
<1>3. CASE repeat' = NoRepeat BY <1>2, <1>3, EmptyQueue DEF Repeated
<1>4. CASE repeat' # NoRepeat
  <2>1. repeat' = read.repeat BY <1>1, <1>4
  <2> PICK r : r = repeat' OBVIOUS
  <2>2. r = read_input_actions.repeat /\ r # NoRepeat BY <1>4, <2>1
  <2>3. queue \in Seq(Events) /\ repeat \in Repeated BY DEF RepeatInv
  <2>4. \/ r = repeat /\ Unmentioned(queue, Len(queue), r.code)
        \/ Pressed(queue, Len(queue), r.code)
    BY <2>2, <2>3, ReadInputRepeat
  <2>5. DOMAIN queue = 1..Len(queue) BY <2>3
  <2>6. r \in Repeated BY <2>2, <2>3, ReadInputRepeat
  <2>7. CASE r = repeat /\ Unmentioned(queue, Len(queue), r.code)
    <3>1. r.code \notin Queued BY <2>5, <2>7 DEF Queued, Unmentioned
    <3>2. lost => lost' BY <1>2, <2>7, <3>1
    <3>3. pos[r.code] # None \/ lost' BY <1>4, <2>7, <3>1, <3>2 DEF RepeatInv, RepeatHasCause
    <3> QED BY <1>2, <2>6, <3>3, EmptyQueue
  <2>8. CASE Pressed(queue, Len(queue), r.code)
    <3>1. PICK i \in 1..Len(queue) :
             /\ queue[i].code = r.code /\ queue[i].act # None
             /\ \A j \in (i + 1)..Len(queue) : queue[j].code # r.code
      BY <2>8 DEF Pressed
    <3>2. r.code \in Sticks BY <2>2, <2>6 DEF Repeated
    <3>3. \A j \in 1..Len(queue) : j > i => j \in (i + 1)..Len(queue) BY <2>3
    <3>4. Newest(queue, i) BY <2>5, <3>1, <3>3 DEF Newest
    <3>5. pos[r.code] # None BY <2>5, <3>1, <3>2, <3>4 DEF RepeatInv, Tells
    <3> QED BY <1>2, <2>6, <3>5, EmptyQueue
  <2> QED BY <2>4, <2>7, <2>8
<1> QED BY <1>3, <1>4

LEMMA StepRepeat ==
  ASSUME RepeatInv, [Next]_vars
  PROVE  RepeatInv'
<1>1. NoRepeat \in Repeated BY DEF Repeated
<1>2. repeat \in Repeated /\ pos \in [Sticks -> Acts]
      /\ (repeat # NoRepeat => pos[repeat.code] # None \/ repeat.code \in Queued \/ lost)
  BY DEF RepeatInv, RepeatHasCause
<1>3. ASSUME UNCHANGED <<queue, pos>>, repeat' \in {repeat, NoRepeat},
             repeat' # NoRepeat /\ lost => lost'
      PROVE  RepeatInv'
  BY <1>1, <1>3 DEF RepeatInv, RepeatHasCause, Tells, Queued
<1>4. ASSUME Drained \/ (queue' = << >> /\ lost' = (lost \/ repeat.code \in Queued)),
             UNCHANGED pos, repeat' \in {repeat, NoRepeat}
      PROVE  RepeatInv'
  <2>1. queue' = << >> /\ lost' = (lost \/ repeat.code \in Queued) BY <1>4 DEF Drained
  <2> QED BY <1>1, <1>2, <1>4, <2>1, EmptyQueue
<1>5. ASSUME queue' = << >>, UNCHANGED pos, repeat' = NoRepeat
      PROVE  RepeatInv'
  BY <1>1, <1>5, EmptyQueue
<1>6. CASE ReadInput BY <1>6, ReadInputKeeps
<1>7. CASE RepeatDue
  <2>1. \A a, r : Act(a, r) => repeat' = NoRepeat \/ repeat' = r BY DEF Act
  <2>2. Fire(repeat) => repeat' = NoRepeat \/ repeat' = repeat BY <2>1 DEF Fire
  <2> QED BY <1>3, <1>7, <2>2 DEF RepeatDue
<1>8. CASE DrainIgnored BY <1>4, <1>8 DEF DrainIgnored
<1>9. CASE ChildEnds
  <2>1. repeat' \in {repeat, NoRepeat} /\ UNCHANGED pos BY <1>9 DEF ChildEnds
  <2>2. CASE Drained BY <1>4, <2>1, <2>2
  <2>3. CASE lost' = (lost /\ repeat' # NoRepeat) /\ UNCHANGED <<queue, power>>
    BY <1>3, <2>1, <2>3
  <2> QED BY <1>9, <2>2, <2>3 DEF ChildEnds
<1>10. CASE SettleDrains BY <1>4, <1>10 DEF SettleDrains
<1>11. CASE Leave BY <1>5, <1>11 DEF Leave
<1>12. CASE Sigterm BY <1>5, <1>12 DEF Sigterm
<1>13. CASE IgnoreEnds \/ SettleEnds \/ QuestionExpires \/ Start \/ PowerKey \/ UNCHANGED vars
  BY <1>3, <1>13 DEF IgnoreEnds, SettleEnds, QuestionExpires, Start, PowerKey, vars
<1>14. CASE Move
  <2>0. PICK c \in Sticks : \E a \in ActionsOf(c) \cup {None} :
           pos' = [pos EXCEPT ![c] = a] /\ Deliver([code |-> c, act |-> a])
    BY <1>14 DEF Move
  <2>1. PICK a \in ActionsOf(c) \cup {None} :
           pos' = [pos EXCEPT ![c] = a] /\ Deliver([code |-> c, act |-> a])
    BY <2>0
  <2> DEFINE e == [code |-> c, act |-> a]
  <2>2. c \in Codes /\ a \in Acts BY DEF Sticks, Acts
  <2>3. e \in Events BY <2>2 DEF Events
  <2>4. pos' \in [Sticks -> Acts] BY <1>2, <2>1, <2>2
  <2>5. e.code = c /\ e.act = a /\ Deliver(e) BY <2>1
  <2>6. repeat' = repeat BY <1>14 DEF Move
  <2> HIDE DEF e
  <2> QED BY <2>1, <2>3, <2>4, <2>5, <2>6, DeliverKeeps
<1>15. CASE Tap
  <2>1. PICK c \in Codes \ Sticks : Deliver([code |-> c, act |-> KeyAction[c]])
    BY <1>15 DEF Tap
  <2> DEFINE e == [code |-> c, act |-> KeyAction[c]]
  <2>2. e \in Events
    <3>1. c \notin DOMAIN AbsActions => ActionsOf(c) = {KeyAction[c]} BY DEF ActionsOf
    <3>2. c \in DOMAIN AbsActions => ActionsOf(c) \cap Directions # {}
      BY DEF ActionsOf, AbsActions, Directions
    <3>3. KeyAction[c] \in ActionsOf(c) BY <3>1, <3>2 DEF Sticks
    <3> QED BY <3>3 DEF Events, Acts
  <2>3. e.code = c /\ Deliver(e) BY <2>1
  <2>4. repeat' = repeat /\ pos' = pos BY <1>15 DEF Tap
  <2> HIDE DEF e
  <2> QED BY <1>2, <2>2, <2>3, <2>4, DeliverKeeps
<1> QED
  BY <1>6, <1>7, <1>8, <1>9, <1>10, <1>11, <1>12, <1>13, <1>14, <1>15 DEF Next

(* A direction repeats only while its control is deflected, its release    *)
(* waits to be read, or one of its events was thrown away unread by a      *)
(* drain around a child or by a full buffer (read_input_actions,           *)
(* settle_input_after_child), for every set of controls and every size of  *)
(* the buffer.                                                             *)
THEOREM RepeatHasCauseHolds == Spec => []RepeatHasCause
<1>1. Init => RepeatInv
  <2> SUFFICES ASSUME Init PROVE RepeatInv OBVIOUS
  <2>1. queue \in Seq(Events) /\ DOMAIN queue = {} /\ repeat = NoRepeat BY DEF Init
  <2>2. pos \in [Sticks -> Acts] BY DEF Init, Acts
  <2> QED BY <2>1, <2>2 DEF RepeatInv, Repeated, RepeatHasCause, Tells
<1>2. RepeatInv /\ [Next]_vars => RepeatInv' BY StepRepeat
<1>3. RepeatInv => RepeatHasCause BY DEF RepeatInv
<1> QED BY <1>1, <1>2, <1>3, PTL DEF Spec

=============================================================================
