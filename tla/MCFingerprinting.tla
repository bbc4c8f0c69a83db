--------------------------- MODULE MCFingerprinting ---------------------------
(* Small instance of Fingerprinting: every text of up to five characters of  *)
(* either alphabet under every option, with a small base and modulus that    *)
(* still make distinct windows collide and wrap around.                      *)
EXTENDS Fingerprinting

Latin == {"s", "s_mark", "mark", "sharp_s", "Q", "zero_width", "space"}
Greek == {"iota", "dots", "peri", "full", "zero_width", "space"}
MCAlphabets == {Latin, Greek}
===============================================================================
