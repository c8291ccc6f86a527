# TLA+ models of the pilot-link USB connection path

These modules model the part of `libpisock` that takes a Palm handheld from
"HotSync pressed" to a connected socket over USB, and the device I/O that the
protocol layers run on afterwards. TLC checks them. Every definition is
translated from the C source under `src/`. `PROJECT.json` maps each one to the
lines it stands for.

## The system and how its parts interact

| Part | Source | State | Operations |
|---|---|---|---|
| Connect routines | `libpisock/connect.c` (`pilot_connect`), `src/userland.c` (`plu_connect`) | the socket descriptor, its open tty | socket, bind, listen, accept, `dlp_ReadSysInfo`, close on error |
| USB socket ops | `libpisock/usb.c` `pi_usb_*` | `ps->state`, `ps->accept_to`, `data->timeout` | bind, listen, accept (CMP handshake), close, get/setsockopt |
| CMP records | `libpisock/cmp.c` | none (encode/decode 10-byte records) | `cmp_rx`, `cmp_init`, `cmp_abort`, `cmp_wakeup` |
| Linux backend | `libpisock/linuxusb.c` | tty fd, `data->buf`/`buf_size` (the peek buffer), `data->timeout`, `ps->state` | `u_read`, `u_read_buf`, `u_write`, `u_poll`, `u_flush` |
| FreeBSD backend | `libpisock/freebsdusb.c` | the same, without `ps->state` or flush | `u_read`, `u_read_buf`, `u_write`, `u_poll` |
| Device table | `libpisock/usb.c` `known_devices`, `USB_check_device`, `USB_configure_*` | `dev->dev.flags` | lookup, vendor-specific control requests |
| ToDo installer | `src/pilot-install-todos.c` | options, the socket, the file's text, ToDoDB | parse options, connect, open the conduit and ToDoDB, write one ToDo record per line, close and end the sync |

They interact like this:
- A tool calls a connect routine.
- The connect routine calls `pi_socket`, `pi_bind`, `pi_listen` and `pi_accept`. The generic socket layer dispatches these to `pi_usb_*`.
- `pi_usb_accept` waits in the backend's `u_poll`, then runs the CMP handshake. The handshake reads the handheld's wakeup with `cmp_rx` and answers with `cmp_init` or `cmp_abort`. Both go through the PADP/SLP layers down to the backend's `u_read`/`u_write`.
- After the handshake, DLP calls reach the same backend functions.
- Everything is single-threaded and blocking. The other actor is the handheld, which sends bytes and may be unplugged at any moment. That is where the interleavings are.

The SLP/PADP/DLP layers, `pi_socket`/`pi_close` and `cmp_rx_handshake` are not
in `src/`. The models take only the outcomes the USB code sees from them.

## Modules

- **`ByteStream`** is the abstract contract of a backend's `u_read`. The bytes
  the handheld sends come out in order, a normal read consumes what it returns,
  nothing is invented, and timeouts and EOF happen only when nothing is
  waiting. Unplugging may lose bytes still in transit. The constant `PeekKeeps`
  says whether a peek must leave what it returns.
- **`LinuxUsb`** models `linuxusb.c` and `pi_usb_setsockopt(PI_DEV_TIMEOUT)`.
  - *Variables:* `fdq` is the tty queue, `rbuf` is `data->buf`, `timeout` is `data->timeout`, and `state` is `ps->state`. Four variables are history: `taken` (bytes `read()` took), `flushMark`, `wire` (what `u_write` put on the tty) and `crashed` (a fault inside `u_read`).
  - *Read path:* each outcome of `u_read` is an action: `ReadBuf`, `ReadNoMemory`, `ReadTimeout`, `ReadFd` and `ReadGone`.
  - *Write path:* the `u_write` loop is stepped one iteration at a time: `WriteStart`, `WriteSelectReady`, `WriteSelectTimedOut`, `WriteChunk` and `WriteFails`.
  - *Other calls:* `Poll`, `Flush` and `SetTimeout`.
  - *Data abstraction:* the i-th byte sent is the number i, and `Junk` is any byte the handheld did not send. The partial writes that `write()` may do are every split of `Msg`.
- **`FreeBsdUsb`** models `freebsdusb.c` the same way. It is shown to refine
  `ByteStream` through the mapping `unread <- rbuf \o fdq`, `present <- ~unplugged`, `reply <- rret`.
- **`Cmp`** models `cmp.c` at byte level. A record is a sequence of 10 bytes (integers 0..255). `cmp_wakeup`, `cmp_init` and `cmp_abort` build the bytes the C functions put in `cmpbuf` before `padp_tx`; `cmp_rx` decodes what `padp_rx` delivered, returning `[ret |-> -1]` for fewer than 10 bytes. `SetShort`/`SetLong`/`GetShort`/`GetLong` are the big-endian `set_`/`get_` macros of `pi-source.h`, which is outside `src/`.
- **`UsbSocket`** models the connection set-up.
  - *Actions:* the connect routine's steps are `AppSocket`, `AppBind`, `AppListen` and `AppSysInfo`. `pi_usb_accept` is `AcceptPoll`, `AcceptRx`, `AcceptInit` and `AcceptAbort`. The handheld is `HandheldWakes`, `HandheldHears` and `Unplug`.
  - *Records:* the handheld sends a `cmp_wakeup` record offering 9600 or 115200 baud, a `cmp_abort` record, or a truncated wakeup. `AcceptRx` decodes it with `cmp_rx`; the host answers with `cmp_init` at `HandshakeRate`, the rate B the wakeup requested, which spec.md §7 says the negotiated speed equals, or with `cmp_abort`. The handheld decodes the answer with `cmp_rx` and keeps the rate (`hhRate`); `hhSent` records the record it sent. `cmp_rx_handshake` is outside `src/`, so `IsWakeup`, `HandshakeRate` and `AbortReason` are modelled from the spec.
  - *Choices:* `conduit` picks `pilot_connect` or `plu_connect` in `Init`. The constant `AcceptTos` gives `ps->accept_to`.
  - *Backends:* `backend` (from the constant `Backends`) says which backend the library was built with. `UWrite` picks that backend's `u_write` outcomes, and `OpenFailureSeen` says whether `pi_usb_bind` sees a `u_open` failure.
  - *Write outcomes:* `WriteResults` gives what the Linux `u_write` returns for a given `data->timeout`, and `FreeBsdWriteResults` gives what the FreeBSD one returns. The FreeBSD one returns -1 when `select()` times out or `write()` fails, and writes when the fd is writable. This is how the accept timeout reaches the handshake.
  - *Bind outcomes:* `UOpenResults` gives the three outcomes of `u_open`. `pi_usb_bind` treats only -1 as a failure, and `u_open`'s error codes are defined outside `src/`, so `AppBind` chooses whether the test sees the failure. When it does not, the socket has no tty and `pi_accept` waits forever (`Blocked`). A descriptor that `u_open` leaves open when `pi_socket_setsd` fails is `strayFd`. After a failed bind, `pilot_connect` closes the socket (`PilotBindFailed`) and `plu_connect` does not (`PluBindFailed`).
- **`UsbDevice`** models `USB_check_device` and `USB_configure_device`.
  - `known_devices` is the whole table of `usb.c`, entry by entry, without the `.id` strings.
  - The table lookup is the recursive `FirstMatch`.
  - `Incantation(flags)` is the control-request sequence the configure functions send.
- **`InstallTodos`** models `pilot-install-todos`.
  - *Actions:* `main` is `ParseArgs`, `Connect`, `OpenConduit`, `OpenDB` and `Finish`. `install_ToDos` is `FOpen` and the character loop `Scan`/`ScanDone`. The handheld may be unplugged at any step (`Unplug`).
  - *Abstraction:* `Connect` takes only what `pilot_connect` returns, a socket or -1; `UsbSocket` models how it gets there. A DLP call succeeds when the socket is valid and the handheld is still attached (`DlpOk`). DLP is outside `src/`, so this is modelled from the spec.
  - *Reference:* `LinesOf` splits a text into lines the way the tool's help text describes the file.
- The **`MC*`** modules give the constants for TLC.

## Runs

| Run | Cfg | Expect | What it shows |
|---|---|---|---|
| `linux_io` | `MCLinuxUsb.cfg` | pass | Under every interleaving of the calls with the handheld, every byte sent is eventually read from the tty (`EveryByteTaken`). |
| `linux_flush` | `MCLinuxUsb_flush.cfg` | violation | `u_flush` does not drain the tty: `recv()` fails on a tty, so a read after the flush returns a byte from before it. |
| `linux_partial_write` | `MCLinuxUsb_partial.cfg` | violation | After a partial write, the loop resends from the start of the buffer and reports success. |
| `linux_short_read` | `MCLinuxUsb_shortread.cfg` | violation | A short `read()` grows the caller's buffer by `len`. |
| `linux_peek_copy` | `MCLinuxUsb_peekcopy.cfg` | violation | A peek copies the `pi_buffer_t` header into `data->buf`. |
| `linux_peek_error` | `MCLinuxUsb_fault.cfg` | violation | `read()` returning -1 into a `size_t` passes `> 0`. A peek then copies `SIZE_MAX` bytes. |
| `freebsd_io` | `MCFreeBsdUsb.cfg` | pass | The FreeBSD backend implements `ByteStream` with peeks allowed to consume (`StreamRefined`), and every byte sent is read (`EveryByteTaken`). |
| `socket_connect` | `MCUsbSocket.cfg` | pass | Both backends, both connect routines, accept_to 0 and 1, every first record, and unplugging. The socket is `CONAC` only after a wakeup was answered with an init and the timeout reset (`ConnectedAfterHandshake`). The rate the handheld decodes from the init's bytes is the rate its wakeup requested (`RateAgreement`). With `pi_accept`, a wakeup always leads to a connection (`WaitingAcceptConnects`). A connect routine waiting in `pi_accept` on a real tty always returns, whatever the handheld sends and whenever it is unplugged (`ConnectReturns`). |
| `socket_accept_timeout` | `MCUsbSocket_timed.cfg` | violation | With `pi_accept_to`, the handshake timeout makes the `cmp_init` write fail every time, so it never connects. `u_write` with a nonzero timeout fails on both outcomes of its `select()` test: a writable fd is taken as a timeout, and a `select()` that times out marks a plugged-in socket broken, which spec.md forbids for a timeout. |
| `socket_leak` | `MCUsbSocket_leak.cfg` | violation | A failed handshake leaves the socket and the tty open, because `pilot_connect` closes `-1`. |
| `device_flags` | `MCUsbDevice.cfg` | violation | A Sony S320 is configured with the generic requests: the table entry's flags are never applied. |
| `install_trailing_line` | `MCInstallTodos.cfg` | violation | `pilot-install-todos` drops a last line that has no trailing newline and still exits 0, although its help promises a task per line. A handheld unplugged mid-install breaks the same property, because `dlp_WriteRecord`'s result is ignored. |

Every property of a passing run has a mutant in `PROJECT.json`. The mutant is a
plausible coding error in the definition it replaces, and TLC must find the
property violated with it:

| Mutant | Error it stands for |
|---|---|
| `ReadBufKeep` | `u_read_buf` that does not consume |
| `WriteFailsCloses` | wrong state constant |
| `AcceptPollNoScale` | `accept_to` not converted to ms |
| `AcceptRxAnyType` | no record-type check |
| `AcceptInitNoState` | `PI_SOCK_CONAC` never set |
| `AcceptRxRetries` | a short record sends accept back to `u_poll` |
| `cmp_init_ratefirst` (in `Cmp`) | `cmp_init` writes the rate at offset 2 and zero at offset 6 |

## Bounds and why they are enough

**Backends:**
- The handheld sends 3 bytes, and callers ask for 1 or 2.
- The peek cap (256 in the code) is 1. That is enough for a peek to fill the buffer and for the next read to be served from it.
- Timeouts are 0 (wait forever) and 1000 ms.
- `Msg` has two bytes, so a write can be split.

With these bounds, each of the following happens in a few steps:
- a short read;
- a peek followed by a read;
- a flush with bytes pending;
- a partial write;
- unplugging in the middle of a read or a write.

The Linux run covers about 80,000 states.

**Socket:**
- Both backends. The two violation runs use Linux only, because that is where their findings are.
- Both routines run.
- `accept_to` is 0 or 1 s.
- The handheld sends one first record: a wakeup at 9600 or 115200 baud, an abort record, or a truncated wakeup.
- The handheld may be unplugged at any point.

**Device table:** every vendor and product id of `known_devices` is attached, plus an unlisted one.

**ToDo installer:** every file of up to three characters over `a`, `b` and `\n`. This covers empty files, empty lines, two lines, and a last line with and without its newline. Every combination of options is tried, and so is every outcome of connect, fopen and malloc.

## Fairness

In the backends, `SF(ReadsData)` stands for a protocol layer that keeps calling
`u_read` while it expects data. A caller may interleave polls and timeouts, so
the fairness is strong. `WF(WriteStep)` holds because the write loop runs to
completion once entered.

In `UsbSocket`, the host's steps and the handheld's steps are weakly fair.
Blocking calls return once they can. The handheld's steps being fair means that a user who has
plugged it in presses HotSync and the handheld reads its answer. Unplugging is not fair: a
handheld may stay plugged in forever, so `ConnectReturns` cannot rely on a hang-up to
end a wait.

Deadlock checking is off in the backend runs. After a fault (`crashed`), the
model stops, as the process would. In `UsbSocket`, `Returned` is the
connect routine's final state.

## Not modelled

- `u_open`/`u_close` as code: `UsbSocket` models their outcomes (`UOpenResults`, `OpenFailureSeen`) and their effect on `fdOpen`, not the `open`/`isatty`/`fcntl` calls themselves.
- `pi_usb_connect`, the connecting side, which would send `cmp_wakeup`. The handheld's wakeup is built with `Cmp`'s `cmp_wakeup` instead.
- `getsockopt` and the NET handshake.
- `cmp_dump` and all logging.
- `plu_findcategory` and `plu_protect_files`: nothing in the source tree calls them.
- pilot_connect's port defaulting (`$PILOTPORT`, `/dev/pilot`, `stat`). `InstallTodos` exits before calling `pilot_connect` without a port, and `UsbSocket` starts from a given port.

Hazards without a property are listed in `PROJECT.json`:
- `plu_protect_files`: `name_99` is never tested.
- `pi_usb_close`: skips closing descriptor 0.
- The double peek on FreeBSD.
- Behaviours `UsbSocket` reaches that no run checks:
  - the stray descriptor of `u_open` (`strayFd`);
  - on Linux, a bind that succeeds without a tty, after which the connect routine never returns (`Blocked`).
- `pi_usb_accept` passes `accept_to`, which is in seconds, unscaled to `u_poll`, which takes milliseconds (`usb.c:347`). Durations are abstracted, so this cannot show.
- The state change of a timed-out Linux write on its own. `socket_accept_timeout` shows the same `select()` test failing the handshake.
- `install_ToDos` exits on an fopen or malloc failure with ToDoDB open and the sync never ended.
