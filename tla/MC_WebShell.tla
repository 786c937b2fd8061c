---------------------------- MODULE MC_WebShell ----------------------------
(***************************************************************************)
(* A plain page and a page with two sections; addresses with no page, an   *)
(* unknown page, an unknown section and no section.                        *)
(***************************************************************************)
EXTENDS WebShell

Address(p, s) == [page |-> p, section |-> s]

MCSections == [settings |-> <<"general", "backup">>]

MCAddresses ==
    {Address(None, None), Address("nothing", "general"), Address("help", None),
     Address("settings", None), Address("settings", "nothing"), Address("settings", "backup")}
=============================================================================
