---------------------------- MODULE MCCacheSource ----------------------------
(* CacheSource with two contents and a CRC that tells them apart. *)
EXTENDS CacheSource, TLC

CONSTANTS c1, c2

CRC == (c1 :> "crc1") @@ (c2 :> "crc2") @@ (Nothing :> "crc0")
=============================================================================
