--------------------------- MODULE MCPreferenceSync ---------------------------
(* One device, with accounts that other devices write to as well.          *)
EXTENDS PreferenceSync
===============================================================================
