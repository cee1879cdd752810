------------------------------ MODULE AppValues ------------------------------
(***************************************************************************)
(* The sizes of app_values_t, the values of an application: those a        *)
(* transaction passes to it and those read from its state.                 *)
(***************************************************************************)

APPS_KV_MAX_COUNT == 8        \* places in values
APPS_KV_NAME_MAX_LENGTH == 8  \* bytes of a name
APPS_KV_SLICE_MAX_SIZE == 8   \* bytes of a byte slice

=============================================================================
