----------------------------- MODULE MCSession -----------------------------
(* The packets of Session for model checking, the longer fields shortened. *)
EXTENDS Session

\* Length, sequence id, protocol, version, connection id, salt, filler,
\* capabilities, reserved bytes, rest of the salt, name of the plugin.
MCGreeting ==
  <<"xx", "00", "00", "00", "xx", "xx", "00", "xx", "xx", "00", "xx",
    "00", "00", "00", "xx", "00", "xx", "00">>
MCSaltEnd == 16

\* Length 7, sequence id, 0x00, two counts of 0, status 2, no warnings.
MCOk == <<"xx", "00", "00", "xx", "00", "00", "00", "xx", "00", "00", "00">>

MCErr == <<"xx", "00", "00", "xx", "xx", "xx", "xx">>
MCSwitch == <<"xx", "00", "00", "xx", "FE", "xx", "00">>
=============================================================================
