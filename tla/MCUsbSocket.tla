---------------------------- MODULE MCUsbSocket -----------------------------
(* Model-checking instance of UsbSocket.  accept_to is 0 (pi_accept, as  *)
(* pilot_connect and plu_connect call it) or 1 s (pi_accept_to).          *)
EXTENDS UsbSocket

MCApps == {"pilot_connect", "plu_connect"}
MCPilotConnect == {"pilot_connect"}

MCBackends == {"linux", "freebsd"}
MCLinux == {"linux"}

MCAcceptAll == {0, 1}
MCAcceptWait == {0}
MCAcceptTimed == {1}
=============================================================================
