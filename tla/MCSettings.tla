----------------------------- MODULE MCSettings -----------------------------
(* A Bubble whose files are the factory ones but for a brightness written by *)
(* an older release as a raw backlight value and a zone that is not one,     *)
(* with three themes, one of them not for the graphic screens, two systems   *)
(* and one display row that has a backend.                                   *)
EXTENDS Settings

MCFactorySys ==
    [volume |-> VOLUME_MAX - 1, brightness |-> 190, lumination |-> 5, contrast |-> 10, hue |-> 10,
     saturation |-> 10, audio_output |-> "speaker", language |-> "en.lang",
     timezone |-> "Asia Tokyo", automatic_time |-> TRUE, wifi_enabled |-> FALSE]

MCFactoryFe ==
    [init_frontend_settings EXCEPT
        !.show_empty_systems = TRUE, !.ui_mode = "graphic", !.top_mode = "graphic", !.rom_mode = "graphic",
        !.graphic_transition_ms = 90]

MCThemeFiles ==
    [default |-> [target |-> "graphic", blocked |-> FALSE,
                  look |-> [graphic_transition |-> "slide", graphic_transition_ms |-> 160]],
     strip   |-> [target |-> "graphic", blocked |-> FALSE, look |-> [graphic_top_layout |-> "tile_strip"]],
     plain   |-> [target |-> "text", blocked |-> FALSE, look |-> << >>]]
MCThemeOrder == <<"default", "plain", "strip">>

MCSystems == <<"gb", "psp">>
MCProfileCpu == [gb |-> "ondemand", psp |-> "performance"]
MCToday == [year |-> 2028, month |-> 3, day |-> 31, hour |-> 0, minute |-> 59]
MCTouch == {"system_audio_output", "system_brightness", "system_time_settings", "system_automatic_time", "system_sync_now",
            "system_manual_time", "system_manual_time_month", "system_manual_time_apply",
            "ui_theme_settings", "theme_transition_ms", "rom_scan_policy", "network_services", "performance_cpu_policy",
            "performance_clear_cpu_override", "system_factory_reset", "system_factory_reset_ra"}
=============================================================================
