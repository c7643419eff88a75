----------------------------- MODULE MCTerminal -----------------------------
(* Terminal on a screen of two columns and three rows: a row wraps after a  *)
(* glyph that is not its first, and a scroll moves more than one row.       *)
EXTENDS Terminal
=============================================================================
