--------------------------- MODULE MCYtDlpEngine ---------------------------
(***************************************************************************)
(* The yt-dlp engine on small instances: overlapping jobs for one key.     *)
(***************************************************************************)
EXTENDS YtDlpEngine, TLC
=============================================================================
