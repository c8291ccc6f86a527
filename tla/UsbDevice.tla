----------------------------- MODULE UsbDevice ------------------------------
(***************************************************************************)
(* Device recognition and configuration of libpisock/usb.c: a USB backend *)
(* that sees a device calls USB_check_device(vendor, product), which      *)
(* looks the pair up in known_devices (or in override_device, when one is *)
(* set) and ORs the entry's USB_INIT_* flags into dev->dev.flags; then    *)
(* USB_configure_device sends the vendor-specific control requests those  *)
(* flags select.                                                          *)
(*                                                                         *)
(* Flags are sets (bitwise OR is union, a test of a bit is membership);   *)
(* vendor and product ids are hex strings, "0000" standing for the 0    *)
(* that is the table's product wildcard and an unset override_device.    *)
(***************************************************************************)
EXTENDS Naturals, Sequences

CONSTANTS
  Override,   \* override_device: [vendor, product, flags], vendor "0000" = unset
  Vendors,    \* the vendor ids a device can report
  Products    \* the product ids a device can report

InitFlags == {"NONE", "VISOR", "SONY_CILE", "TAPWAVE"}
Zero == "0000"
Entry == [vendor : Vendors \cup {Zero}, product : Products \cup {Zero}, flags : SUBSET InitFlags]

(* An entry of known_devices; an entry without .flags has none.         *)
D(v, p, f) == [vendor |-> v, product |-> p, flags |-> f]

(* known_devices[] of usb.c, in table order (the .id strings left out).   *)
known_devices ==
  << D("054c", "0038", {"SONY_CILE"}), D("054c", "0066", {}), D("054c", "0095", {}),
     D("054c", "000a", {}), D("054c", "00da", {}), D("054c", "00e9", {}),
     D("054c", "0144", {}), D("054c", "0169", {}),
     D("081e", "df00", {}),
     D("082d", "0100", {"VISOR"}), D("082d", "0200", {}), D("082d", "0300", {}),
     D("0830", "0001", {}), D("0830", "0002", {}), D("0830", "0003", {}),
     D("0830", "0010", {}), D("0830", "0011", {}), D("0830", "0020", {}),
     D("0830", "0030", {}), D("0830", "0031", {}), D("0830", "0040", {}),
     D("0830", "0050", {}), D("0830", "0051", {}), D("0830", "0052", {}),
     D("0830", "0053", {}), D("0830", "0060", {}), D("0830", "0061", {}),
     D("0830", "0062", {}), D("0830", "0063", {}), D("0830", "0070", {}),
     D("0830", "0071", {}), D("0830", "0080", {"NONE"}), D("0830", "0099", {}),
     D("0830", "0100", {}),
     D("091e", "0004", {}),
     D("0c88", "0021", {}), D("0c88", "a226", {}),
     D("12ef", "0100", {"TAPWAVE"}),
     D("4766", "0001", {}),
     D("04e8", "8001", {}) >>

ASSUME Override \in Entry /\ Zero \notin Vendors \cup Products

VARIABLES
  phase,      \* "idle", "check", "configure", "configured", "rejected"
  dev,        \* [vendor, product] of the device the backend found
  flags,      \* dev->dev.flags
  requests    \* control requests sent by USB_configure_device, in order

vars == <<phase, dev, flags, requests>>

Requests == {"visor_conn_info", "get_configuration", "get_interface",
             "ext_conn_info", "bytes_available"}

TypeOK ==
  /\ phase \in {"idle", "check", "configure", "configured", "rejected"}
  /\ dev \in [vendor : Vendors, product : Products] \cup {<<>>}
  /\ flags \subseteq InitFlags
  /\ requests \in Seq(Requests)

(* known_devices[i] (or override_device) accepts the pair: same vendor,   *)
(* and the entry's product is 0 or the same.                              *)
Matches(e, v, p) == e.vendor = v /\ (e.product = Zero \/ e.product = p)

(* The index of the first entry of known_devices from i on that matches, or 0. *)
RECURSIVE FirstMatch(_, _, _)
FirstMatch(v, p, i) ==
  IF i > Len(known_devices) THEN 0
  ELSE IF Matches(known_devices[i], v, p) THEN i ELSE FirstMatch(v, p, i + 1)

Init == phase = "idle" /\ dev = <<>> /\ flags = {} /\ requests = <<>>

(* The backend reads the device descriptor of a newly attached device.  *)
Attach ==
  /\ phase = "idle"
  /\ \E v \in Vendors, p \in Products : dev' = [vendor |-> v, product |-> p]
  /\ phase' = "check"
  /\ UNCHANGED <<flags, requests>>

(* USB_check_device.  With override_device set only it is consulted; the *)
(* table loop ORs in override_device.flags, not the matching entry's.    *)
USB_check_device ==
  LET v == dev.vendor
      p == dev.product
      i == FirstMatch(v, p, 1)
  IN /\ phase = "check"
     /\ IF Override.vendor # Zero
          THEN IF Matches(Override, v, p)
                 THEN flags' = flags \cup Override.flags /\ phase' = "configure"
                 ELSE phase' = "rejected" /\ UNCHANGED flags
          ELSE IF i # 0
                 THEN flags' = flags \cup Override.flags /\ phase' = "configure"
                 ELSE phase' = "rejected" /\ UNCHANGED flags
     /\ UNCHANGED <<dev, requests>>

(* The requests USB_configure_device issues for a set of flags: NONE     *)
(* returns at once; VISOR asks for the connection information; SONY_CILE *)
(* sends GET_CONFIGURATION and GET_INTERFACE; anything else goes through *)
(* USB_configure_generic, which asks for the extended connection         *)
(* information, twice more for TAPWAVE.  Every device but a Tapwave then *)
(* gets a bytes-available query.                                          *)
Incantation(f) ==
  LET first == CASE "NONE" \in f      -> <<>>
                 [] "VISOR" \in f     -> <<"visor_conn_info">>
                 [] "SONY_CILE" \in f -> <<"get_configuration", "get_interface">>
                 [] "TAPWAVE" \in f   -> <<"ext_conn_info", "ext_conn_info", "ext_conn_info">>
                 [] OTHER             -> <<"ext_conn_info">>
  IN IF "NONE" \in f \/ "TAPWAVE" \in f THEN first
     ELSE first \o <<"bytes_available">>

(* USB_configure_device: sends the requests and returns 0 whatever the   *)
(* control requests returned.                                             *)
USB_configure_device ==
  /\ phase = "configure"
  /\ requests' = Incantation(flags)
  /\ phase' = "configured"
  /\ UNCHANGED <<dev, flags>>

Done == phase \in {"configured", "rejected"} /\ UNCHANGED vars

Next == Attach \/ USB_check_device \/ USB_configure_device \/ Done

Spec == Init /\ [][Next]_vars

-----------------------------------------------------------------------------
(* A device the table lists is configured with the requests its entry's  *)
(* USB_INIT_* flags call for (the Sony S320 with the two Sony requests,   *)
(* a Visor with the Visor connection-information request), as the table's *)
(* comment says the flags are for.                                        *)
ConfiguredAsListed ==
  (phase = "configured" /\ Override.vendor = Zero) =>
    requests = Incantation(known_devices[FirstMatch(dev.vendor, dev.product, 1)].flags)
=============================================================================
