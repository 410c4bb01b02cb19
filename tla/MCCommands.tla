----------------------------- MODULE MCCommands -----------------------------
(***************************************************************************)
(* Commands for TLC.  At this scale a usize has 128 values and a MiB 16    *)
(* bytes of two pages: 4 MiB are more than isize::MAX, 8 MiB wrap to       *)
(* nothing and 9 MiB to one.                                               *)
(***************************************************************************)
EXTENDS Commands

MCCacheConfigs ==
    [device_path : {"/dev/sda"}, cache_size_mb : {0, 1, 2, 3, 4, 8, 9},
     block_size : {0, 4, 8, 16, 24}, flush_interval_secs : {0, 5},
     dirty_watermark : {0, 100, 101}]
    \cup {[DefaultConfig(1) EXCEPT !.device_path = ""]}
=============================================================================
