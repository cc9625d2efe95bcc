--------------------------- MODULE MCFrontendLoop ---------------------------
(* A short START menu, Apps menu and settings tree with rows of the kinds  *)
(* the shipped menus.json and apps.json have, but for scraping and the     *)
(* refresh of the top list, whose children end like those of other rows.   *)
EXTENDS FrontendLoop

MCCodes == {"ABS_HAT0Y", "KEY_RIGHT", "BTN_EAST", "BTN_SOUTH", "BTN_NORTH", "BTN_START", "BTN_SELECT"}

Row(id, action, arg) ==
  [id |-> id, action |-> action, arg |-> arg, confirm |-> FALSE, visible |-> TRUE]

MCStart == <<Row("system-settings", "settings", "system"),
             Row("network-settings", "settings", "network"),
             Row("apps", "apps", None)>>

MCApps == <<Row("pyxel_setup", "shell", "results"),
            [Row("terminal", "shell", None) EXCEPT !.visible = FALSE],
            [Row("sd2_repair", "sd2-repair", None) EXCEPT !.confirm = TRUE]>>

MCPower == <<"shutdown", "cancel">>

MCRows == [ui |-> <<Row("rom_cursor_wrap", "value", None)>>,
           system |-> <<Row("system_brightness", "value", None), Row("system_factory_reset", "open", "reset")>>,
           network |-> <<Row("network_wifi_enabled", "wifi", None), Row("network_connect_wifi", "connect", None)>>,
           reset |-> <<Row("pico", "reset", None)>>]
=============================================================================
