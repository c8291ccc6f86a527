--------------------------------- MODULE Cmp ---------------------------------
(***************************************************************************)
(* The CMP records of libpisock/cmp.c at byte level.  A record is 10      *)
(* bytes: type (1 wakeup, 2 init, 3 abort), flags, a 2-byte version, 2    *)
(* reserved bytes and a 4-byte baud rate, big-endian.  A byte is an      *)
(* integer in 0..255 and a buffer a sequence of bytes.                    *)
(*                                                                         *)
(* set_byte/set_short/set_long and get_* are macros of pi-source.h, which *)
(* is not in the source tree: they store and load big-endian, as the      *)
(* protocol's byte order requires.                                        *)
(***************************************************************************)
EXTENDS Integers, Sequences

(* set_short and set_long: the big-endian bytes of a 16- or 32-bit value. *)
SetShort(v) == << (v \div 256) % 256, v % 256 >>
SetLong(v) == SetShort((v \div 65536) % 65536) \o SetShort(v % 65536)

(* get_short and get_long at offset o of buffer b (offsets from 0).       *)
GetShort(b, o) == b[o + 1] * 256 + b[o + 2]
GetLong(b, o) == GetShort(b, o) * 65536 + GetShort(b, o + 2)

(* CommVersion_1_0, of pi-cmp.h.                                          *)
CommVersion_1_0 == 256

(* cmp_wakeup(ps, maxbaud): the record the connecting side sends.        *)
cmp_wakeup(maxbaud) ==
  << 1, 0 >> \o SetShort(CommVersion_1_0) \o SetShort(0) \o SetLong(maxbaud)

(* A cmp_init that stores the rate in the first set_long and 0 in the   *)
(* second, at the offsets of version and reserved.                        *)
cmp_init_ratefirst(baudrate) ==
  << 2, IF baudrate # 9600 THEN 128 ELSE 0 >> \o SetLong(baudrate) \o SetLong(0)

(* cmp_init(ps, baudrate): type 2; bytes 2..5 (version and reserved) set *)
(* to 0 by one set_long; flag 0x80 when the rate is not 9600.            *)
cmp_init(baudrate) ==
  << 2, IF baudrate # 9600 THEN 128 ELSE 0 >> \o SetLong(0) \o SetLong(baudrate)

(* cmp_abort(ps, reason): type 3 with the reason as flags.               *)
cmp_abort(reason) == << 3, reason % 256 >> \o SetLong(0) \o SetLong(0)

(* cmp_rx decoding what padp_rx delivered: fewer than 10 bytes returns   *)
(* -1; otherwise the fields are read from their offsets.                  *)
cmp_rx(b) ==
  IF Len(b) < 10 THEN [ret |-> -1]
  ELSE [ret |-> 0, type |-> b[1], flags |-> b[2], version |-> GetShort(b, 2),
        reserved |-> GetShort(b, 4), baudrate |-> GetLong(b, 6)]
=============================================================================
