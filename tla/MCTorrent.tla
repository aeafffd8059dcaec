----------------------------- MODULE MCTorrent ------------------------------
(* Two files of three and four bytes: with pieces of three bytes no piece  *)
(* is in both files, with pieces of four the first one is.                 *)
EXTENDS Torrent, TLC

TwoFiles == <<3, 4>>

(* The seeder has it all right, or one byte in the middle wrong.           *)
AtMostOne == {{}, {<<2, 1>>}}
=============================================================================
