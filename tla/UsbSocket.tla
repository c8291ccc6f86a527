------------------------------ MODULE UsbSocket ------------------------------
(***************************************************************************)
(* A HotSync connection over USB as a conduit opens it: pilot_connect     *)
(* (src/connect.c) or plu_connect (src/userland.c) create a socket, bind  *)
(* it (pi_usb_bind, u_open), listen (pi_usb_listen) and accept            *)
(* (pi_usb_accept): poll for data, raise data->timeout, run the CMP       *)
(* handshake, reset the timeout and mark the socket CONAC; then they read *)
(* the system info over DLP.  The handheld, concurrently, sends its CMP   *)
(* wakeup and waits for the host's init or abort.                         *)
(*                                                                         *)
(* The handshake writes go through the Linux u_write (see LinuxUsb),      *)
(* whose outcome depends only on data->timeout and is summarised by       *)
(* WriteResults.  The socket layer (pi_socket, pi_close), the CMP         *)
(* handshake routine and DLP are not in the source tree and are modelled  *)
(* from the spec.                                                         *)
(***************************************************************************)
EXTENDS Naturals, Sequences, Cmp

CONSTANTS
  Apps,       \* the connect routines: "pilot_connect", "plu_connect"
  AcceptTos,  \* values of ps->accept_to: 0 (pi_accept) or a timeout (pi_accept_to)
  Backends    \* the USB backends the library is built with: "linux", "freebsd"

ASSUME Apps \subseteq {"pilot_connect", "plu_connect"} /\ AcceptTos \subseteq Nat
ASSUME Backends \subseteq {"linux", "freebsd"}

(* The maximum rates a handheld offers in its wakeup.                    *)
HandheldBauds == {9600, 115200}

(* What the handheld's first record can be: a CMP wakeup offering one of *)
(* its rates, a record of another type (an abort), or fewer than 10      *)
(* bytes.                                                                 *)
HandheldRecords ==
  {cmp_wakeup(m) : m \in HandheldBauds} \cup {cmp_abort(0), SubSeq(cmp_wakeup(9600), 1, 4)}

(* cmp_rx_handshake is not in the source tree; from spec.md: a decoded  *)
(* record of type 1 is a wakeup, the negotiated speed equals the rate B   *)
(* the wakeup requests (spec section 7), and any other record is answered *)
(* with an abort.                                                         *)
IsWakeup(c) == c.ret = 0 /\ c.type = 1
HandshakeRate(c) == c.baudrate
AbortReason == 128

(* What accept can send the handheld.                                    *)
HostRecords ==
  {cmp_init(HandshakeRate(cmp_rx(w))) : w \in {cmp_wakeup(m) : m \in HandheldBauds}}
    \cup {cmp_abort(AbortReason)}

(* What cmp_rx decodes before any record was read.                       *)
NoRecord == [ret |-> -1]

VARIABLES
  conduit,    \* which connect routine runs
  backend,    \* which backend's u_open, u_poll and u_write pi_usb_* call
  plugged,    \* the handheld is plugged in
  strayFd,    \* a tty descriptor u_open left open without attaching it to a socket
  app,        \* where the conduit's connect routine is
  acc,        \* where pi_usb_accept is: "poll", "rx", "init", "abort"
  acceptTo,   \* ps->accept_to
  sockOpen,   \* the pi_socket exists (not yet pi_close'd)
  fdOpen,     \* the tty opened by u_open is open
  sstate,     \* ps->state
  timeout,    \* data->timeout
  got,        \* the record cmp_rx decoded, NoRecord before one is read
  toHost,     \* records from the handheld not yet read by the host
  toHandheld, \* records from the host not yet read by the handheld
  hh,         \* handheld: "idle", "waiting", "synced", "aborted"
  hhSent,     \* the record the handheld sent (<<>> before it sends)
  hhRate      \* the rate the handheld's received init told it to use (0: none)

vars == <<conduit, backend, plugged, strayFd, app, acc, acceptTo, sockOpen, fdOpen, sstate, timeout, got,
          toHost, toHandheld, hh, hhSent, hhRate>>

AppPcs == {"socket", "bind", "listen", "accept", "sysinfo", "done", "failed"}
States == {"CLOSE", "LISTN", "CONAC", "CONBK"}

TypeOK ==
  /\ conduit \in Apps /\ backend \in Backends /\ plugged \in BOOLEAN /\ strayFd \in BOOLEAN
  /\ app \in AppPcs
  /\ acc \in {"poll", "rx", "init", "abort"}
  /\ acceptTo \in AcceptTos
  /\ sockOpen \in BOOLEAN /\ fdOpen \in BOOLEAN
  /\ sstate \in States
  /\ timeout \in {t * 1000 : t \in AcceptTos} \cup {0}
  /\ got \in {cmp_rx(r) : r \in HandheldRecords} \cup {NoRecord}
  /\ toHost \in Seq(HandheldRecords)
  /\ toHandheld \in Seq(HostRecords)
  /\ hh \in {"idle", "waiting", "synced", "aborted"}
  /\ hhSent \in HandheldRecords \cup {<<>>} /\ hhRate \in {0} \cup HandheldBauds

Init ==
  /\ conduit \in Apps /\ backend \in Backends /\ plugged = TRUE /\ strayFd = FALSE
  /\ app = "socket" /\ acc = "poll"
  /\ acceptTo \in AcceptTos
  /\ sockOpen = FALSE /\ fdOpen = FALSE
  /\ sstate = "CLOSE" /\ timeout = 0 /\ got = NoRecord
  /\ toHost = <<>> /\ toHandheld = <<>> /\ hh = "idle" /\ hhSent = <<>> /\ hhRate = 0

(* Outcomes of the Linux u_write for a given data->timeout: with 0 it     *)
(* waits until writable and writes, and write() fails once the handheld   *)
(* is gone; otherwise a writable (or hung-up) fd makes select return 1,   *)
(* taken as PI_ERR_SOCK_TIMEOUT, and a select that times out breaks the   *)
(* socket.                                                                *)
WriteResults(t, up) ==
  CASE t = 0 /\ up  -> {"ok"}
    [] t = 0 /\ ~up -> {"broken"}
    [] t # 0 /\ up  -> {"timeout", "broken"}
    [] t # 0 /\ ~up -> {"timeout"}

(* Outcomes of the FreeBSD u_write: a select that times out (a busy     *)
(* device) and a write() that fails (a hung-up tty is writable) both     *)
(* return -1 and leave ps->state alone; a writable fd is written.         *)
FreeBsdWriteResults(t, up) ==
  CASE up /\ t = 0 -> {"ok"}
    [] up /\ t # 0 -> {"ok", "timeout"}
    [] ~up         -> {"timeout"}

(* data->impl.write of the backend the socket was created with.          *)
UWrite(t, up) ==
  IF backend = "linux" THEN WriteResults(t, up) ELSE FreeBsdWriteResults(t, up)

(* pi_close(sd) on a live socket: pi_usb_close closes the tty (when       *)
(* ps->sd != 0) and frees the addresses; the socket is destroyed.         *)
PiClose ==
  /\ sockOpen' = FALSE /\ fdOpen' = FALSE

-----------------------------------------------------------------------------
(* The conduit's connect routine.                                         *)

(* pi_socket; on failure pilot_connect (which tests !sd) goes on to a     *)
(* pi_bind that fails and a pi_close(-1); plu_connect returns.            *)
AppSocket ==
  /\ app = "socket"
  /\ \/ sockOpen' = TRUE /\ app' = "bind"
     \/ app' = "failed" /\ UNCHANGED sockOpen
  /\ UNCHANGED <<conduit, backend, plugged, strayFd, acc, acceptTo, fdOpen, sstate, timeout, got, toHost, toHandheld, hh, hhSent, hhRate>>

(* The outcomes of u_open: the tty is opened and made ps->sd ("ok");    *)
(* open() or the isatty check fails, leaving nothing open ("error"); or   *)
(* pi_socket_setsd fails and u_open returns without closing fd ("stray"). *)
UOpenResults == {"ok", "error", "stray"}

(* Whether pi_usb_bind's test (== -1) sees a failed u_open.  The FreeBSD  *)
(* u_open returns -1 on every failure; the Linux one returns              *)
(* PI_ERR_GENERIC_SYSTEM or pi_socket_setsd's code, defined outside src/, *)
(* so either reading is possible.                                         *)
OpenFailureSeen(b) == IF b = "freebsd" THEN {TRUE} ELSE BOOLEAN

(* A failed bind in pilot_connect: pi_close(sd), return -1.              *)
PilotBindFailed == PiClose

(* A failed bind in plu_connect: it prints and returns the error; the    *)
(* socket it created stays open.                                          *)
PluBindFailed == UNCHANGED <<sockOpen, fdOpen>>

(* pi_bind -> pi_usb_bind, which takes u_open's result as a failure only  *)
(* when it is -1.  u_open's error codes (PI_ERR_GENERIC_SYSTEM, the       *)
(* pi_socket_setsd result) are defined outside this tree, so whether the  *)
(* test sees a failure is a choice; when it does not, the bind succeeds   *)
(* with no tty behind the socket.                                         *)
AppBind ==
  /\ app = "bind"
  /\ \E r \in UOpenResults, minusOne \in OpenFailureSeen(backend) :
       /\ strayFd' = (strayFd \/ r = "stray")
       /\ CASE r = "ok" -> fdOpen' = TRUE /\ app' = "listen" /\ UNCHANGED sockOpen
            [] r # "ok" /\ minusOne -> app' = "failed"
                                        /\ IF conduit = "pilot_connect" THEN PilotBindFailed
                                                                       ELSE PluBindFailed
            [] r # "ok" /\ ~minusOne -> app' = "listen" /\ UNCHANGED <<sockOpen, fdOpen>>
  /\ UNCHANGED <<conduit, backend, plugged, acc, acceptTo, sstate, timeout, got, toHost, toHandheld, hh, hhSent, hhRate>>

AppListen ==
  /\ app = "listen"
  /\ sstate' = "LISTN" /\ app' = "accept" /\ acc' = "poll"
  /\ UNCHANGED <<conduit, backend, plugged, strayFd, acceptTo, sockOpen, fdOpen, timeout, got, toHost, toHandheld, hh, hhSent, hhRate>>

(* dlp_ReadSysInfo over the new connection; on failure pi_close(sd).      *)
AppSysInfo ==
  /\ app = "sysinfo"
  /\ \/ app' = "done" /\ UNCHANGED <<sockOpen, fdOpen>>
     \/ app' = "failed" /\ PiClose
  /\ UNCHANGED <<conduit, backend, plugged, strayFd, acc, acceptTo, sstate, timeout, got, toHost, toHandheld, hh, hhSent, hhRate>>

-----------------------------------------------------------------------------
(* pi_usb_accept.  A failure returns -1 to the caller, which sets sd = -1 *)
(* and calls pi_close(-1): nothing is closed.                             *)

(* Mutant of AcceptPoll: accept_to (seconds) stored unscaled as the      *)
(* millisecond data->timeout.                                             *)
AcceptPollNoScale ==
  /\ app = "accept" /\ acc = "poll"
  /\ \/ fdOpen /\ (toHost # <<>> \/ ~plugged) /\ timeout' = acceptTo /\ acc' = "rx"
        /\ UNCHANGED <<app, sockOpen, fdOpen>>
     \/ acceptTo # 0 /\ (~fdOpen \/ (toHost = <<>> /\ plugged)) /\ PiClose /\ app' = "failed"
        /\ UNCHANGED <<acc, timeout>>
  /\ UNCHANGED <<conduit, backend, plugged, strayFd, acceptTo, sstate, got, toHost, toHandheld, hh, hhSent, hhRate>>

(* u_poll(ps, accept_to): with 0 it waits until the fd is ready (data or *)
(* hang-up); a timeout makes accept pi_close the socket itself.  Then     *)
(* data->timeout = accept_to * 1000 and pi_socket_init.  On a socket      *)
(* with no tty behind it nothing ever becomes ready.                      *)
AcceptPoll ==
  /\ app = "accept" /\ acc = "poll"
  /\ \/ fdOpen /\ (toHost # <<>> \/ ~plugged) /\ timeout' = acceptTo * 1000 /\ acc' = "rx"
        /\ UNCHANGED <<app, sockOpen, fdOpen>>
     \/ acceptTo # 0 /\ (~fdOpen \/ (toHost = <<>> /\ plugged)) /\ PiClose /\ app' = "failed"
        /\ UNCHANGED <<acc, timeout>>
  /\ UNCHANGED <<conduit, backend, plugged, strayFd, acceptTo, sstate, got, toHost, toHandheld, hh, hhSent, hhRate>>

(* Mutant of AcceptRx: the record type is not checked.                   *)
AcceptRxAnyType ==
  /\ app = "accept" /\ acc = "rx"
  /\ \/ toHost # <<>> /\ got' = cmp_rx(Head(toHost)) /\ toHost' = Tail(toHost)
        /\ IF got'.ret < 0 THEN app' = "failed" /\ UNCHANGED acc
                           ELSE acc' = "init" /\ UNCHANGED app
     \/ toHost = <<>> /\ (timeout # 0 \/ ~plugged) /\ app' = "failed"
        /\ UNCHANGED <<acc, got, toHost>>
  /\ UNCHANGED <<conduit, backend, plugged, strayFd, acceptTo, sockOpen, fdOpen, sstate, timeout, toHandheld, hh, hhSent, hhRate>>

(* Mutant of AcceptRx: a short record sends accept back to u_poll for   *)
(* another one instead of failing the handshake.                          *)
AcceptRxRetries ==
  /\ app = "accept" /\ acc = "rx"
  /\ \/ toHost # <<>>
        /\ got' = cmp_rx(Head(toHost)) /\ toHost' = Tail(toHost)
        /\ CASE got'.ret < 0   -> acc' = "poll" /\ UNCHANGED app
             [] IsWakeup(got') -> acc' = "init" /\ UNCHANGED app
             [] OTHER          -> acc' = "abort" /\ UNCHANGED app
     \/ toHost = <<>> /\ (timeout # 0 \/ ~plugged) /\ app' = "failed"
        /\ UNCHANGED <<acc, got, toHost>>
  /\ UNCHANGED <<conduit, backend, plugged, strayFd, acceptTo, sockOpen, fdOpen, sstate, timeout, toHandheld, hh, hhSent, hhRate>>

(* cmp_rx_handshake reads the first record with cmp_rx (fewer than 10     *)
(* bytes: -1).  A wakeup is answered with cmp_init, anything else with    *)
(* cmp_abort.  A read that times out, or fails on a hung-up tty, fails    *)
(* the accept.                                                            *)
AcceptRx ==
  /\ app = "accept" /\ acc = "rx"
  /\ \/ toHost # <<>>
        /\ got' = cmp_rx(Head(toHost)) /\ toHost' = Tail(toHost)
        /\ CASE got'.ret < 0   -> app' = "failed" /\ UNCHANGED acc
             [] IsWakeup(got') -> acc' = "init" /\ UNCHANGED app
             [] OTHER          -> acc' = "abort" /\ UNCHANGED app
     \/ toHost = <<>> /\ (timeout # 0 \/ ~plugged) /\ app' = "failed"
        /\ UNCHANGED <<acc, got, toHost>>
  /\ UNCHANGED <<conduit, backend, plugged, strayFd, acceptTo, sockOpen, fdOpen, sstate, timeout, toHandheld, hh, hhSent, hhRate>>

(* Mutant of AcceptInit: ps->state is not set to PI_SOCK_CONAC.         *)
AcceptInitNoState ==
  /\ app = "accept" /\ acc = "init"
  /\ \E r \in UWrite(timeout, plugged) :
       CASE r = "ok" ->
              /\ toHandheld' = Append(toHandheld, cmp_init(HandshakeRate(got)))
              /\ timeout' = 0 /\ app' = "sysinfo" /\ UNCHANGED sstate
         [] r = "timeout" ->
              app' = "failed" /\ UNCHANGED <<toHandheld, timeout, sstate>>
         [] r = "broken" ->
              /\ sstate' = "CONBK" /\ app' = "failed"
              /\ UNCHANGED <<toHandheld, timeout>>
  /\ UNCHANGED <<conduit, backend, plugged, strayFd, acc, acceptTo, sockOpen, fdOpen, got, toHost, hh, hhSent, hhRate>>

(* cmp_init goes out through u_write; on success accept resets           *)
(* data->timeout to 0 and sets ps->state = PI_SOCK_CONAC.                *)
AcceptInit ==
  /\ app = "accept" /\ acc = "init"
  /\ \E r \in UWrite(timeout, plugged) :
       CASE r = "ok" ->
              /\ toHandheld' = Append(toHandheld, cmp_init(HandshakeRate(got)))
              /\ timeout' = 0 /\ sstate' = "CONAC" /\ app' = "sysinfo"
         [] r = "timeout" ->
              app' = "failed" /\ UNCHANGED <<toHandheld, timeout, sstate>>
         [] r = "broken" ->
              /\ sstate' = "CONBK" /\ app' = "failed"
              /\ UNCHANGED <<toHandheld, timeout>>
  /\ UNCHANGED <<conduit, backend, plugged, strayFd, acc, acceptTo, sockOpen, fdOpen, got, toHost, hh, hhSent, hhRate>>

(* cmp_abort, then the handshake fails whatever the write returned.       *)
AcceptAbort ==
  /\ app = "accept" /\ acc = "abort"
  /\ \E r \in UWrite(timeout, plugged) :
       /\ toHandheld' = IF r = "ok" THEN Append(toHandheld, cmp_abort(AbortReason)) ELSE toHandheld
       /\ sstate' = IF r = "broken" THEN "CONBK" ELSE sstate
  /\ app' = "failed"
  /\ UNCHANGED <<conduit, backend, plugged, strayFd, acc, acceptTo, sockOpen, fdOpen, timeout, got, toHost, hh, hhSent, hhRate>>

-----------------------------------------------------------------------------
(* The handheld: the HotSync button sends one record, then it waits.      *)

HandheldWakes ==
  /\ hh = "idle" /\ plugged
  /\ \E r \in HandheldRecords : toHost' = Append(toHost, r) /\ hhSent' = r
  /\ hh' = "waiting"
  /\ UNCHANGED <<conduit, backend, plugged, strayFd, app, acc, acceptTo, sockOpen, fdOpen, sstate, timeout, got, toHandheld,
                 hhRate>>

(* Unplugging drops whatever the tty still held.                         *)
Unplug ==
  /\ plugged /\ plugged' = FALSE /\ toHost' = <<>>
  /\ UNCHANGED <<conduit, backend, strayFd, app, acc, acceptTo, sockOpen, fdOpen, sstate, timeout, got,
                 toHandheld, hh, hhSent, hhRate>>

HandheldHears ==
  /\ hh = "waiting" /\ plugged /\ toHandheld # <<>>
  /\ LET c == cmp_rx(Head(toHandheld)) IN
       IF c.type = 2 THEN hh' = "synced" /\ hhRate' = c.baudrate
                     ELSE hh' = "aborted" /\ UNCHANGED hhRate
  /\ toHandheld' = Tail(toHandheld)
  /\ UNCHANGED <<conduit, backend, plugged, strayFd, app, acc, acceptTo, sockOpen, fdOpen, sstate, timeout, got, toHost,
                 hhSent>>

(* pi_accept on a socket with no tty waits in u_poll forever.             *)
Blocked ==
  /\ app = "accept" /\ acc = "poll" /\ ~fdOpen /\ acceptTo = 0
  /\ UNCHANGED vars

(* The connect routine has returned; nothing more happens.                *)
Returned ==
  /\ app \in {"done", "failed"}
  /\ (hh # "idle" /\ toHandheld = <<>>) \/ ~plugged
  /\ UNCHANGED vars

Next ==
  \/ AppSocket \/ AppBind \/ AppListen \/ AppSysInfo
  \/ AcceptPoll \/ AcceptRx \/ AcceptInit \/ AcceptAbort
  \/ HandheldWakes \/ HandheldHears \/ Unplug
  \/ Blocked \/ Returned

Spec == Init /\ [][Next]_vars

(* The host runs its steps to completion and the handheld presses         *)
(* HotSync and reads what it is sent.                                     *)
FairSpec ==
  /\ Spec
  /\ WF_vars(AppSocket \/ AppBind \/ AppListen \/ AppSysInfo)
  /\ WF_vars(AcceptPoll \/ AcceptRx \/ AcceptInit \/ AcceptAbort)
  /\ WF_vars(HandheldWakes \/ HandheldHears)

-----------------------------------------------------------------------------
(* Properties.                                                            *)

(* pi_usb_accept marks the socket connected only after it read the        *)
(* handheld's wakeup and sent it an init, and it leaves data->timeout at  *)
(* 0 so the DLP traffic that follows waits without the accept timeout.   *)
ConnectedAfterHandshake ==
  sstate = "CONAC" =>
    /\ IsWakeup(got) /\ timeout = 0
    /\ \/ hh = "synced"
       \/ hh = "waiting" /\ toHandheld = <<cmp_init(HandshakeRate(got))>>

(* The handheld and the host agree on the link speed: when the handheld *)
(* has read its init, the rate it decodes from the init's bytes           *)
(* (cmp_init's set_long at offset 6, read back by cmp_rx) is the rate B   *)
(* its own wakeup requested, which spec.md section 7 says the negotiated  *)
(* speed equals.                                                          *)
RateAgreement ==
  hh = "synced" => hhRate = cmp_rx(hhSent).baudrate

(* When the connect routine reports failure, it has released the socket  *)
(* and the tty it opened (connect.c / userland.c error paths).            *)
NoLeakOnFailure == app = "failed" => ~sockOpen /\ ~fdOpen

(* With pi_accept (accept_to 0, as pilot_connect and plu_connect call   *)
(* it), a wakeup the accept holds is eventually answered and the socket  *)
(* connected, unless the handheld is unplugged first.                    *)
WaitingAcceptConnects ==
  (app = "accept" /\ acc = "rx" /\ Len(toHost) = 1 /\ IsWakeup(cmp_rx(Head(toHost))) /\ acceptTo = 0)
    ~> (sstate = "CONAC" \/ ~plugged)

(* pilot_connect and plu_connect return once pi_accept is waiting on a   *)
(* real tty: u_poll(ps, 0) wakes on the handheld's record or on its      *)
(* hang-up, and every read, write and DLP call after it returns, whatever *)
(* the handheld sends or when it is unplugged.                            *)
ConnectReturns ==
  (app = "accept" /\ fdOpen) ~> (app \in {"done", "failed"})

(* Once accept holds a valid wakeup from the handheld, the connection is *)
(* eventually established (pi_usb_accept with the accept timeout raised  *)
(* on data->timeout for the handshake).                                   *)
WakeLeadsToConnection ==
  (app = "accept" /\ acc = "rx" /\ Len(toHost) = 1 /\ IsWakeup(cmp_rx(Head(toHost)))) ~> (sstate = "CONAC" \/ ~plugged)
=============================================================================
