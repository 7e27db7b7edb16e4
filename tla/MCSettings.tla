----------------------------- MODULE MCSettings -----------------------------
(* Instances of Settings for TLC. *)
EXTENDS Settings

Keys == 1 .. 7

\* No step reads `error`, and `busy` is read only where it can just have changed.
SettingsView ==
    <<file, disk, up, manager, engine, white_list, client_access, inherited,
      IF Starting THEN busy ELSE {}, request, saving, lossy, faults>>
=============================================================================
