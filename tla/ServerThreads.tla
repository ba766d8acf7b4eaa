--------------------------- MODULE ServerThreads ----------------------------
(***************************************************************************)
(* The threads of the server that share the plays (PlayPool) and the text  *)
(* for the screen (ScreenQueue): the callbacks of the MQTT client run in   *)
(* one, the serial port is served by the other.                            *)
(***************************************************************************)
Threads == {"mqtt", "serial"}
=============================================================================
