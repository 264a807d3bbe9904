--------------------------- MODULE MCSampleFormat ---------------------------
(* Bytes of four values, and the libtinyalsa that is linked                 *)
(* (dependencies/tinyalsa/pcm.c:304-316).                                   *)
EXTENDS SampleFormat

TestFormats ==
  {"S8", "S16_LE", "S16_BE", "S24_LE", "S24_BE", "S24_3LE", "S24_3BE", "S32_LE", "S32_BE"}

TestStorageBytes ==
  [f \in TestFormats |->
     CASE f \in {"S32_LE", "S24_LE"} -> 4
       [] f = "S24_3LE" -> 3
       [] OTHER -> 2]

TestOthers == {-1000, -1, 0, 1, 1000}
=============================================================================
