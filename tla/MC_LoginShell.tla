---------------------------- MODULE MC_LoginShell ----------------------------
(* LoginShell for TLC: $SHELL strings over "/" and one other byte, with    *)
(* buffers of 8 bytes (limit 6): "/bin/sh" fits, and every length up to  *)
(* one past the buffer is enumerated.                                     *)
EXTENDS LoginShell

MCChars == {"/", "a"}
=============================================================================
