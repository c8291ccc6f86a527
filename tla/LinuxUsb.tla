------------------------------ MODULE LinuxUsb ------------------------------
(***************************************************************************)
(* Device I/O of the Linux USB backend (libpisock/linuxusb.c) and the     *)
(* PI_DEV_TIMEOUT option of libpisock/usb.c that sets the data->timeout   *)
(* it reads.  One caller thread, the protocol layer above, issues u_read, *)
(* u_write, u_poll, u_flush and setsockopt on an accepted socket; the     *)
(* handheld appends bytes to the tty and may be unplugged at any time.    *)
(*                                                                         *)
(* Bytes are identified by arrival order: the i-th byte the handheld      *)
(* sends is the number i, so loss, duplication and reordering are all     *)
(* visible.  Junk stands for any byte that is not one the handheld sent.  *)
(* A call that would block (select with timeout 0, nothing ready) is not  *)
(* a step: the caller simply makes it once it can return.                 *)
(***************************************************************************)
EXTENDS Integers, Sequences, SequencesExt

CONSTANTS
  MaxArrive,  \* bound on the bytes the handheld sends
  Lens,       \* lengths a caller passes to u_read
  PeekCap,    \* the 256 that caps a PI_MSG_PEEK read, the size of data->buf
  Timeouts,   \* values of data->timeout and of u_poll's timeout (ms); 0 = wait forever
  Msg,        \* the buffer one u_write call sends
  Junk        \* a byte the handheld did not send

ASSUME /\ MaxArrive \in Nat \ {0}
       /\ Lens \subseteq Nat \ {0}
       /\ PeekCap \in Nat \ {0}
       /\ 0 \in Timeouts /\ Timeouts \subseteq Nat
       /\ Msg \in Seq(STRING) /\ Msg # <<>>

Byte  == 1..MaxArrive
Flags == {"normal", "peek"}            \* 0 and PI_MSG_PEEK
FlushFlags == SUBSET {"input", "output"} \* PI_FLUSH_INPUT | PI_FLUSH_OUTPUT

VARIABLES
  arrived,    \* bytes the handheld has sent so far
  fdq,        \* bytes waiting in the tty, not yet read()
  rbuf,       \* data->buf[0 .. data->buf_size-1], the peek buffer
  timeout,    \* data->timeout
  state,      \* ps->state
  unplugged,  \* the handheld is gone: select reports the fd ready, read fails
  crashed,    \* the process faulted inside u_read
  taken,      \* history: bytes read() removed from the tty, in order
  flushMark,  \* history: arrived when u_flush(PI_FLUSH_INPUT) last returned
  rret,       \* last u_read: result, flag, bytes it appended to the caller's buffer
  pret,       \* result of the last u_poll
  wpc,        \* "idle", or "loop" while u_write is inside its while loop
  wtotal,     \* u_write's local total
  wire,       \* bytes the current/last u_write call put on the tty
  wret        \* result of the last u_write

vars == <<arrived, fdq, rbuf, timeout, state, unplugged, crashed, taken,
          flushMark, rret, pret, wpc, wtotal, wire, wret>>

Results == {"none", "ok", "eof", "timeout", "error", "memory", "disconnected"}

JunkSeq(n) == [i \in 1..n |-> Junk]
Drop(s, k) == SubSeq(s, k + 1, Len(s))
Least(a, b) == IF a <= b THEN a ELSE b

TypeOK ==
  /\ arrived \in 0..MaxArrive
  /\ fdq \in Seq(Byte) /\ taken \in Seq(Byte)
  /\ rbuf \in Seq(Byte \cup {Junk})
  /\ timeout \in Timeouts
  /\ state \in {"CONAC", "CONBK"}
  /\ unplugged \in BOOLEAN /\ crashed \in BOOLEAN
  /\ flushMark \in 0..MaxArrive
  /\ rret \in [res : Results, flag : Flags, data : Seq(Byte \cup {Junk})]
  /\ pret \in Results
  /\ wpc \in {"idle", "loop"} /\ wtotal \in Int
  /\ wire \in Seq(STRING) /\ wret \in Results

Init ==
  /\ arrived = 0 /\ fdq = <<>> /\ rbuf = <<>>   \* pi_usb_device: buf_size = 0
  /\ timeout = 0                                \* pi_usb_device: timeout = 0
  /\ state = "CONAC"                            \* pi_usb_accept
  /\ unplugged = FALSE /\ crashed = FALSE
  /\ taken = <<>> /\ flushMark = 0
  /\ rret = [res |-> "none", flag |-> "normal", data |-> <<>>]
  /\ pret = "none"
  /\ wpc = "idle" /\ wtotal = 0 /\ wire = <<>> /\ wret = "none"

(* The caller makes a new call only when the previous one has returned.   *)
Idle == ~crashed /\ wpc = "idle"

-----------------------------------------------------------------------------
(* The handheld.                                                          *)

HandheldSends ==
  /\ ~unplugged /\ arrived < MaxArrive
  /\ arrived' = arrived + 1
  /\ fdq' = Append(fdq, arrived + 1)
  /\ UNCHANGED <<rbuf, timeout, state, unplugged, crashed, taken, flushMark,
                 rret, pret, wpc, wtotal, wire, wret>>

(* Unplugging discards what the tty held; from then on select reports the *)
(* fd ready and read/write fail.                                          *)
Unplug ==
  /\ ~unplugged
  /\ unplugged' = TRUE /\ fdq' = <<>>
  /\ UNCHANGED <<arrived, rbuf, timeout, state, crashed, taken, flushMark,
                 rret, pret, wpc, wtotal, wire, wret>>

-----------------------------------------------------------------------------
(* u_read.  With bytes in data->buf it returns them through u_read_buf,   *)
(* whatever the flags; otherwise it waits in select and read()s the tty.  *)

ReadBufKeep(len, f) ==
  /\ Idle /\ rbuf # <<>>
  /\ rret' = [res |-> "ok", flag |-> f, data |-> SubSeq(rbuf, 1, Least(Len(rbuf), len))]
  /\ UNCHANGED <<arrived, fdq, rbuf, timeout, state, unplugged, crashed, taken,
                 flushMark, pret, wpc, wtotal, wire, wret>>

ReadBuf(len, f) ==
  LET r == Least(Len(rbuf), len) IN
  /\ Idle /\ rbuf # <<>>
  /\ rret' = [res |-> "ok", flag |-> f, data |-> SubSeq(rbuf, 1, r)]
  /\ rbuf' = Drop(rbuf, r)              \* buf_size -= rbuf; memmove
  /\ UNCHANGED <<arrived, fdq, timeout, state, unplugged, crashed, taken,
                 flushMark, pret, wpc, wtotal, wire, wret>>

(* pi_buffer_append (u_read_buf) or pi_buffer_expect (u_read) fails.      *)
ReadNoMemory(len, f) ==
  /\ Idle
  /\ rret' = [res |-> "memory", flag |-> f, data |-> <<>>]
  /\ UNCHANGED <<arrived, fdq, rbuf, timeout, state, unplugged, crashed, taken,
                 flushMark, pret, wpc, wtotal, wire, wret>>

(* select with a timeout returns 0: nothing arrived in time.              *)
ReadTimeout(len, f) ==
  /\ Idle /\ rbuf = <<>>
  /\ timeout # 0 /\ fdq = <<>> /\ ~unplugged
  /\ rret' = [res |-> "timeout", flag |-> f, data |-> <<>>]
  /\ UNCHANGED <<arrived, fdq, rbuf, timeout, state, unplugged, crashed, taken,
                 flushMark, pret, wpc, wtotal, wire, wret>>

(* The fd is ready.  read() returns k bytes, but buf->used grows by the   *)
(* requested len, and a peek copies the pi_buffer_t header, not the data, *)
(* into data->buf.  After unplugging read() returns 0 or -1; -1 is held   *)
(* in the size_t rbuf, so it passes "rbuf > 0" and a peek memcpy's        *)
(* (size_t)-1 bytes.                                                      *)
PeekLen(len, f) == IF f = "peek" /\ len > PeekCap THEN PeekCap ELSE len

ReadFd(len, f) ==
  LET n == PeekLen(len, f) IN
  /\ Idle /\ rbuf = <<>> /\ fdq # <<>> /\ ~unplugged
  /\ \E k \in 1..Least(n, Len(fdq)) :
       /\ fdq' = Drop(fdq, k)
       /\ taken' = taken \o SubSeq(fdq, 1, k)
       /\ rret' = [res |-> "ok", flag |-> f, data |-> SubSeq(fdq, 1, k) \o JunkSeq(n - k)]
       /\ rbuf' = IF f = "peek" THEN JunkSeq(k) ELSE rbuf
  /\ UNCHANGED <<arrived, timeout, state, unplugged, crashed, flushMark, pret,
                 wpc, wtotal, wire, wret>>

ReadGone(len, f) ==
  LET n == PeekLen(len, f) IN
  /\ Idle /\ rbuf = <<>> /\ unplugged
  /\ \/ rret' = [res |-> "eof", flag |-> f, data |-> <<>>] /\ UNCHANGED crashed
     \/ f = "normal" /\ rret' = [res |-> "error", flag |-> f, data |-> JunkSeq(n)]
        /\ UNCHANGED crashed
     \/ f = "peek" /\ crashed' = TRUE /\ UNCHANGED rret
  /\ UNCHANGED <<arrived, fdq, rbuf, timeout, state, unplugged, taken,
                 flushMark, pret, wpc, wtotal, wire, wret>>

-----------------------------------------------------------------------------
(* u_write.  The loop select()s and then write()s len bytes from the      *)
(* start of buf each time, subtracting what was written from total.       *)
(* With a timeout, a select that reports the fd writable returns          *)
(* PI_ERR_SOCK_TIMEOUT, and one that times out leaves the fd unset and    *)
(* breaks the socket.                                                     *)

WriteStart ==
  /\ Idle
  /\ wpc' = "loop" /\ wtotal' = Len(Msg) /\ wire' = <<>> /\ wret' = "none"
  /\ UNCHANGED <<arrived, fdq, rbuf, timeout, state, unplugged, crashed, taken,
                 flushMark, rret, pret>>

WriteSelectReady ==
  /\ wpc = "loop" /\ timeout # 0
  /\ wpc' = "idle" /\ wret' = "timeout"
  /\ UNCHANGED <<arrived, fdq, rbuf, timeout, state, unplugged, crashed, taken,
                 flushMark, rret, pret, wtotal, wire>>

WriteSelectTimedOut ==
  /\ wpc = "loop" /\ timeout # 0 /\ ~unplugged
  /\ state' = "CONBK" /\ wpc' = "idle" /\ wret' = "disconnected"
  /\ UNCHANGED <<arrived, fdq, rbuf, timeout, unplugged, crashed, taken,
                 flushMark, rret, pret, wtotal, wire>>

WriteChunk ==
  /\ wpc = "loop" /\ timeout = 0 /\ ~unplugged
  /\ \E n \in 1..Len(Msg) :
       /\ wire' = wire \o SubSeq(Msg, 1, n)
       /\ wtotal' = wtotal - n
       /\ IF wtotal - n > 0
            THEN UNCHANGED <<wpc, wret>>
            ELSE wpc' = "idle" /\ wret' = "ok"
  /\ UNCHANGED <<arrived, fdq, rbuf, timeout, state, unplugged, crashed, taken,
                 flushMark, rret, pret>>

(* Mutant of WriteFails: the socket is marked closed, not broken.       *)
WriteFailsCloses ==
  /\ wpc = "loop" /\ timeout = 0 /\ unplugged
  /\ state' = "CLOSE" /\ wpc' = "idle" /\ wret' = "disconnected"
  /\ UNCHANGED <<arrived, fdq, rbuf, timeout, unplugged, crashed, taken,
                 flushMark, rret, pret, wtotal, wire>>

WriteFails ==
  /\ wpc = "loop" /\ timeout = 0 /\ unplugged
  /\ state' = "CONBK" /\ wpc' = "idle" /\ wret' = "disconnected"
  /\ UNCHANGED <<arrived, fdq, rbuf, timeout, unplugged, crashed, taken,
                 flushMark, rret, pret, wtotal, wire>>

-----------------------------------------------------------------------------
(* u_poll, u_flush and the PI_DEV_TIMEOUT socket option.                  *)

Poll(t) ==
  /\ Idle
  /\ \/ (fdq # <<>> \/ unplugged) /\ pret' = "ok"
     \/ t # 0 /\ fdq = <<>> /\ ~unplugged /\ pret' = "timeout"
  /\ UNCHANGED <<arrived, fdq, rbuf, timeout, state, unplugged, crashed, taken,
                 flushMark, rret, wpc, wtotal, wire, wret>>

(* The drain loop recv()s from a tty, which is not a socket: recv fails   *)
(* at once and the tty keeps its pending bytes.                           *)
Flush(fl) ==
  /\ Idle
  /\ IF "input" \in fl
       THEN rbuf' = <<>> /\ flushMark' = arrived
       ELSE UNCHANGED <<rbuf, flushMark>>
  /\ UNCHANGED <<arrived, fdq, timeout, state, unplugged, crashed, taken,
                 rret, pret, wpc, wtotal, wire, wret>>

SetTimeout(v) ==
  /\ Idle
  /\ timeout' = v
  /\ UNCHANGED <<arrived, fdq, rbuf, state, unplugged, crashed, taken,
                 flushMark, rret, pret, wpc, wtotal, wire, wret>>

-----------------------------------------------------------------------------
Read(len, f) ==
  \/ ReadBuf(len, f) \/ ReadNoMemory(len, f) \/ ReadTimeout(len, f)
  \/ ReadFd(len, f) \/ ReadGone(len, f)

WriteStep == WriteSelectReady \/ WriteSelectTimedOut \/ WriteChunk \/ WriteFails

Next ==
  \/ HandheldSends \/ Unplug
  \/ \E len \in Lens, f \in Flags : Read(len, f)
  \/ WriteStart \/ WriteStep
  \/ \E t \in Timeouts : Poll(t) \/ SetTimeout(t)
  \/ \E fl \in FlushFlags : Flush(fl)

(* The protocol layer keeps calling u_read while it expects data, and a   *)
(* u_write loop runs to completion.                                       *)
ReadsData == \E len \in Lens, f \in Flags : ReadBuf(len, f) \/ ReadFd(len, f)

Spec == Init /\ [][Next]_vars
FairSpec == Spec /\ SF_vars(ReadsData) /\ WF_vars(WriteStep)

-----------------------------------------------------------------------------
(* Properties.                                                            *)

(* Every byte the handheld sends before it is unplugged is eventually     *)
(* read() from the tty by a caller that keeps reading: u_read_buf drains  *)
(* data->buf so u_read goes back to the fd.                               *)
EveryByteTaken ==
  \A i \in Byte : (arrived >= i) ~> (Len(taken) >= i \/ unplugged \/ crashed)

(* When u_read succeeds, every byte it has put in the caller's buffer is  *)
(* a byte the handheld sent (u_read: buf->used += len).                   *)
ReadReturnsStreamBytes ==
  rret.res = "ok" => \A i \in 1..Len(rret.data) : rret.data[i] # Junk

(* data->buf holds the most recent bytes read() from the tty, so a read   *)
(* after a peek returns what the peek saw (u_read: memcpy into data->buf).*)
PeekBufferHoldsTakenBytes == IsSuffix(rbuf, taken)

(* A u_read made after u_flush(PI_FLUSH_INPUT) returns only bytes that    *)
(* arrived after the flush (u_flush: "flush pending data").               *)
NoStaleAfterFlush ==
  [][rret'.res = "ok" => \A i \in 1..Len(rret'.data) :
                           rret'.data[i] \in Byte => rret'.data[i] > flushMark]_rret

(* A u_write that returns len has put exactly buf[0..len-1] on the tty.   *)
WriteSendsMessage == (wpc = "idle" /\ wret = "ok") => wire = Msg

(* u_read never faults, whatever read() returns.                          *)
NoFault == ~crashed
=============================================================================
