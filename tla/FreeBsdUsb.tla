----------------------------- MODULE FreeBsdUsb -----------------------------
(***************************************************************************)
(* Device I/O of the FreeBSD USB backend (libpisock/freebsdusb.c) and the *)
(* PI_DEV_TIMEOUT option of libpisock/usb.c.  Same setting as LinuxUsb:   *)
(* one caller thread issues u_read, u_write, u_poll and setsockopt; the   *)
(* handheld sends numbered bytes and may be unplugged.  This backend      *)
(* reads into the caller's buffer directly, has no flush and never        *)
(* changes ps->state.                                                     *)
(***************************************************************************)
EXTENDS Integers, Sequences, SequencesExt

CONSTANTS MaxArrive, Lens, PeekCap, Timeouts, Msg

ASSUME /\ MaxArrive \in Nat \ {0}
       /\ Lens \subseteq Nat \ {0}
       /\ PeekCap \in Nat \ {0}
       /\ 0 \in Timeouts /\ Timeouts \subseteq Nat
       /\ Msg \in Seq(STRING) /\ Msg # <<>>

Byte  == 1..MaxArrive
Flags == {"normal", "peek"}

VARIABLES
  arrived, fdq, rbuf, timeout, unplugged,
  taken,      \* history: bytes read() removed from the tty, in order
  rret,       \* last u_read: result, flag, bytes it returned
  pret,       \* result of the last u_poll
  wpc, wtotal, wire, wret

vars == <<arrived, fdq, rbuf, timeout, unplugged, taken, rret, pret,
          wpc, wtotal, wire, wret>>

Results == {"none", "ok", "eof", "timeout", "error"}

Drop(s, k) == SubSeq(s, k + 1, Len(s))
Least(a, b) == IF a <= b THEN a ELSE b

TypeOK ==
  /\ arrived \in 0..MaxArrive
  /\ fdq \in Seq(Byte) /\ rbuf \in Seq(Byte) /\ taken \in Seq(Byte)
  /\ timeout \in Timeouts /\ unplugged \in BOOLEAN
  /\ rret \in [res : Results, flag : Flags, data : Seq(Byte)]
  /\ pret \in Results
  /\ wpc \in {"idle", "loop"} /\ wtotal \in Int
  /\ wire \in Seq(STRING) /\ wret \in Results

Init ==
  /\ arrived = 0 /\ fdq = <<>> /\ rbuf = <<>> /\ timeout = 0
  /\ unplugged = FALSE /\ taken = <<>>
  /\ rret = [res |-> "none", flag |-> "normal", data |-> <<>>]
  /\ pret = "none"
  /\ wpc = "idle" /\ wtotal = 0 /\ wire = <<>> /\ wret = "none"

Idle == wpc = "idle"

HandheldSends ==
  /\ ~unplugged /\ arrived < MaxArrive
  /\ arrived' = arrived + 1 /\ fdq' = Append(fdq, arrived + 1)
  /\ UNCHANGED <<rbuf, timeout, unplugged, taken, rret, pret, wpc, wtotal, wire, wret>>

Unplug ==
  /\ ~unplugged
  /\ unplugged' = TRUE /\ fdq' = <<>>
  /\ UNCHANGED <<arrived, rbuf, timeout, taken, rret, pret, wpc, wtotal, wire, wret>>

-----------------------------------------------------------------------------
(* u_read: data->buf first (u_read_buf, whatever the flags), else select  *)
(* and read() the tty; a peek of at most PeekCap bytes is also copied     *)
(* into data->buf.  If select leaves the fd unset, -1 (ETIMEDOUT).        *)

ReadBufKeep(len, f) ==
  /\ Idle /\ rbuf # <<>>
  /\ rret' = [res |-> "ok", flag |-> f, data |-> SubSeq(rbuf, 1, Least(Len(rbuf), len))]
  /\ UNCHANGED <<arrived, fdq, rbuf, timeout, unplugged, taken, pret, wpc, wtotal, wire, wret>>

ReadBuf(len, f) ==
  LET r == Least(Len(rbuf), len) IN
  /\ Idle /\ rbuf # <<>>
  /\ rret' = [res |-> "ok", flag |-> f, data |-> SubSeq(rbuf, 1, r)]
  /\ rbuf' = Drop(rbuf, r)
  /\ UNCHANGED <<arrived, fdq, timeout, unplugged, taken, pret, wpc, wtotal, wire, wret>>

ReadTimeout(len, f) ==
  /\ Idle /\ rbuf = <<>>
  /\ timeout # 0 /\ fdq = <<>> /\ ~unplugged
  /\ rret' = [res |-> "timeout", flag |-> f, data |-> <<>>]
  /\ UNCHANGED <<arrived, fdq, rbuf, timeout, unplugged, taken, pret, wpc, wtotal, wire, wret>>

ReadFd(len, f) ==
  LET n == IF f = "peek" /\ len > PeekCap THEN PeekCap ELSE len IN
  /\ Idle /\ rbuf = <<>> /\ fdq # <<>> /\ ~unplugged
  /\ \E k \in 1..Least(n, Len(fdq)) :
       /\ fdq' = Drop(fdq, k)
       /\ taken' = taken \o SubSeq(fdq, 1, k)
       /\ rret' = [res |-> "ok", flag |-> f, data |-> SubSeq(fdq, 1, k)]
       /\ rbuf' = IF f = "peek" THEN SubSeq(fdq, 1, k) ELSE rbuf
  /\ UNCHANGED <<arrived, timeout, unplugged, pret, wpc, wtotal, wire, wret>>

(* After unplugging, select reports the fd ready and read() returns 0 or  *)
(* -1; rbuf is an int here, so neither passes "rbuf > 0".                 *)
ReadGone(len, f) ==
  /\ Idle /\ rbuf = <<>> /\ unplugged
  /\ \E r \in {"eof", "error"} : rret' = [res |-> r, flag |-> f, data |-> <<>>]
  /\ UNCHANGED <<arrived, fdq, rbuf, timeout, unplugged, taken, pret, wpc, wtotal, wire, wret>>

-----------------------------------------------------------------------------
(* u_write: select, then write(len) from the start of buf, total -= nwrote.*)

WriteStart ==
  /\ Idle
  /\ wpc' = "loop" /\ wtotal' = Len(Msg) /\ wire' = <<>> /\ wret' = "none"
  /\ UNCHANGED <<arrived, fdq, rbuf, timeout, unplugged, taken, rret, pret>>

WriteTimedOut ==
  /\ wpc = "loop" /\ timeout # 0 /\ ~unplugged
  /\ wpc' = "idle" /\ wret' = "timeout"
  /\ UNCHANGED <<arrived, fdq, rbuf, timeout, unplugged, taken, rret, pret, wtotal, wire>>

WriteChunk ==
  /\ wpc = "loop" /\ ~unplugged
  /\ \E n \in 1..Len(Msg) :
       /\ wire' = wire \o SubSeq(Msg, 1, n)
       /\ wtotal' = wtotal - n
       /\ IF wtotal - n > 0
            THEN UNCHANGED <<wpc, wret>>
            ELSE wpc' = "idle" /\ wret' = "ok"
  /\ UNCHANGED <<arrived, fdq, rbuf, timeout, unplugged, taken, rret, pret>>

WriteFails ==
  /\ wpc = "loop" /\ unplugged
  /\ wpc' = "idle" /\ wret' = "error"
  /\ UNCHANGED <<arrived, fdq, rbuf, timeout, unplugged, taken, rret, pret, wtotal, wire>>

-----------------------------------------------------------------------------
Poll(t) ==
  /\ Idle
  /\ \/ (fdq # <<>> \/ unplugged) /\ pret' = "ok"
     \/ t # 0 /\ fdq = <<>> /\ ~unplugged /\ pret' = "timeout"
  /\ UNCHANGED <<arrived, fdq, rbuf, timeout, unplugged, taken, rret, wpc, wtotal, wire, wret>>

SetTimeout(v) ==
  /\ Idle /\ timeout' = v
  /\ UNCHANGED <<arrived, fdq, rbuf, unplugged, taken, rret, pret, wpc, wtotal, wire, wret>>

Read(len, f) ==
  ReadBuf(len, f) \/ ReadTimeout(len, f) \/ ReadFd(len, f) \/ ReadGone(len, f)

WriteStep == WriteTimedOut \/ WriteChunk \/ WriteFails

Next ==
  \/ HandheldSends \/ Unplug
  \/ \E len \in Lens, f \in Flags : Read(len, f)
  \/ WriteStart \/ WriteStep
  \/ \E t \in Timeouts : Poll(t) \/ SetTimeout(t)

ReadsData == \E len \in Lens, f \in Flags : ReadBuf(len, f) \/ ReadFd(len, f)

Spec == Init /\ [][Next]_vars
FairSpec == Spec /\ SF_vars(ReadsData) /\ WF_vars(WriteStep)

-----------------------------------------------------------------------------
(* Refinement: the bytes not yet consumed are data->buf followed by the   *)
(* tty's pending bytes.  A peek may consume what it returns (PeekKeeps    *)
(* FALSE): a peek answered from data->buf empties it like a normal read.  *)
Stream == INSTANCE ByteStream WITH unread <- rbuf \o fdq, present <- ~unplugged,
                                   reply <- rret, PeekKeeps <- FALSE

(* u_read hands out the handheld's bytes in order: a normal read consumes *)
(* what it returns, nothing is returned twice by normal reads or skipped, *)
(* and timeouts/errors happen only when nothing is waiting.               *)
StreamRefined == Stream!Spec

(* Every byte sent before unplugging is eventually read() from the tty by *)
(* a caller that keeps reading.                                           *)
EveryByteTaken ==
  \A i \in Byte : (arrived >= i) ~> (Len(taken) >= i \/ unplugged)
=============================================================================
