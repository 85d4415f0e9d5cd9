---------------------------- MODULE MCBufServer ----------------------------
(* BufServer with the message of randclient.c; bytes are ASCII codes. *)
EXTENDS BufServer

\* "A stitch in time\r\n"
MCMessage == <<65, 32, 115, 116, 105, 116, 99, 104, 32, 105, 110, 32,
               116, 105, 109, 101, 13, 10>>
=============================================================================
