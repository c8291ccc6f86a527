---------------------------- MODULE MCUsbDevice -----------------------------
(* Model-checking instance of UsbDevice: every vendor and product id of  *)
(* known_devices, and an unlisted vendor and product.  Ids are the        *)
(* table's hex values written as strings.                                 *)
EXTENDS UsbDevice

MCVendors  == {known_devices[k].vendor : k \in DOMAIN known_devices} \cup {"ffff"}
MCProducts == {known_devices[k].product : k \in DOMAIN known_devices} \cup {"ffff"}

(* override_device is a static zero-initialised struct nothing assigns.  *)
MCOverride == [vendor |-> "0000", product |-> "0000", flags |-> {}]
=============================================================================
