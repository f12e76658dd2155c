--------------------------- MODULE MCAuthSessions ---------------------------
(* Two or three requests over one or two tokens; see the cfg files.          *)
EXTENDS AuthSessions
=============================================================================
