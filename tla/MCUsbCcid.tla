------------------------------ MODULE MCUsbCcid ------------------------------
(* UsbCcid for TLC. *)
EXTENDS UsbCcid
=============================================================================
