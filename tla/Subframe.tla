------------------------------- MODULE Subframe -------------------------------
(***************************************************************************)
(* The number of subframes per frame for a message                         *)
(* (PS/at_simplified/subframe_app.c).  Few subframes make a short frame    *)
(* and many frames; a frame that is not filled wastes time in the air.     *)
(* A frame of k subframes carries first + (k - 1) * sub bytes, where first *)
(* and sub depend on the modulation (wiota_get_sub_frame_info).            *)
(***************************************************************************)
EXTENDS Integers

MaxSubframes == 8   \* ASYNC_WIOTA_APP_MAX_SUBFRAM_NUM
MinSubframes == 3   \* UC_MIN_SUBFRAME_NUM

CeilDiv(a, b)      == (a + b - 1) \div b
Capacity(k, load)  == load.sub * (k - 1) + load.first
Frames(len, k, load) == CeilDiv(len, Capacity(k, load))

(* max_fram_len, and min_fram_len, which the code computes alike. *)
Largest(load) == Capacity(MaxSubframes, load)

(* The bytes the number is chosen for: of a long message one half, so that  *)
(* it is sent in several frames; and room for the checksum.                 *)
Full(len, load, crc) ==
  LET half == IF len > Largest(load) THEN CeilDiv(len, 2) ELSE len
  IN IF half >= crc THEN half + 2 ELSE half

(* What one of the fewest possible frames carries on average. *)
Average(full, load) == CeilDiv(full, Frames(full, MaxSubframes, load))

(* Mutant: the division is not rounded up. *)
NumberDown(bytes, load) == 1 + (bytes - load.first) \div load.sub

(* The fewest subframes that carry so many bytes. *)
Number(bytes, load) == 1 + CeilDiv(bytes - load.first, load.sub)

SubframeNum(len, load, crc) ==
  LET full == Full(len, load, crc)
  IN IF full <= Largest(load) THEN MinSubframes ELSE Number(Average(full, load), load)
=============================================================================
