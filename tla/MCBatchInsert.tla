--------------------------- MODULE MCBatchInsert ---------------------------
(* Instances of BatchInsert for TLC: two plain rows, a row that is too     *)
(* wide, one that cannot be encoded and one that the server refuses.       *)
EXTENDS BatchInsert

CONSTANTS plain, other, wide, odd, refused

MCRows == {plain, other, wide, odd, refused}
MCUnfit == {wide}
MCUnencodable == {odd}
MCRefused == {refused}
SoundErrors == {"connection", "server"}
AllErrors == ErrorClasses
=============================================================================
