----------------------------- MODULE MCSaveGame -----------------------------
(* Small instances of SaveGame.                                            *)
EXTENDS SaveGame
=============================================================================
