------------------------------ MODULE MCMuting ------------------------------
(***************************************************************************)
(* A shell, its children, one tool and the widget, with small caches.      *)
(***************************************************************************)
EXTENDS Muting

MCLoads == {<<"sh", "claude">>, <<"sh", "vpnip">>, <<"claude", "sh">>}
MCOpens == [write : {FALSE}, tmpfile : {FALSE}, path : {"environ"}]
           \cup [write : {TRUE}, tmpfile : {FALSE}, path : {"plain"}]

\* And a write that is noise as long as /proc can tell where it went.
MCOpensAndWrites == MCOpens \cup [write : {TRUE}, tmpfile : {FALSE}, path : {"relative"}]
=============================================================================
