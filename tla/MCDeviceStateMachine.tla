------------------------- MODULE MCDeviceStateMachine -------------------------
(* Every event the table knows, and the three that main posts today. *)
EXTENDS DeviceStateMachine

AllEvents == EventTypes
MainEvents == {"INIT_DONE", "KEY_RECORD", "KEY_STOP"}
RaceEvents == MainEvents \cup {"USB_CONNECT"}
=============================================================================
