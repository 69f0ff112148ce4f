------------------------------ MODULE MCSystem ------------------------------
(***************************************************************************)
(* A session shell and what it starts: an install that drops and runs a    *)
(* payload, reads a secret and connects out.                               *)
(***************************************************************************)
EXTENDS System

Runs(comm, exe, cmdline) == [comm |-> comm, exe |-> exe, cmdline |-> cmdline, uid |-> 1]
Programs ==
  [sh        |-> Runs("sh", "/bin/sh", "sh"),
   npm       |-> Runs("node", "/bin/node", "node npm"),
   make      |-> Runs("make", "/bin/make", "make"),
   env       |-> Runs("env", "/bin/env", "env npm"),
   script    |-> Runs("node", "/bin/node", "node node_modules/tool.js"),
   payload   |-> Runs("x", "/tmp/x", "x")]

MCimage     == [i \in Image |-> Programs[i]]
MCName      == {"sh", "node", "npm", "make", "env", "x", "tool.js"}
MCPath      == {"/bin/sh", "/bin/node", "/bin/make", "/bin/env", "/tmp/x", "key"}
MCCmdline   == {"sh", "node npm", "make", "env npm", "node node_modules/tool.js", "x"}
MCbase_name == [p \in MCPath |->
                  CASE p = "/bin/sh" -> "sh" [] p = "/bin/node" -> "node"
                    [] p = "/bin/make" -> "make" [] p = "/bin/env" -> "env"
                    [] OTHER -> "x"]
MCarg_names == [c \in MCCmdline |->
                  CASE c = "node npm" -> {"node", "npm"}
                    [] c = "node node_modules/tool.js" -> {"node", "tool.js"}
                    [] OTHER -> {}]
MCpath_facts     == [p \in MCPath |-> IF p = "/tmp/x" THEN {"staging_dir"} ELSE {}]
MCcmd_facts      == [c \in MCCmdline |-> IF c = "node node_modules/tool.js"
                                          THEN {"in_dependency"} ELSE {}]
MCsecrets        == [p \in {"key"} |-> [readers |-> {}, dependency_only |-> FALSE]]
MCenviron_of     == <<>>
MCcompiler_names == {}
MCKey            == Pid \X Nat

\* A shell execs anything and env execs its argument; a package manager never
\* replaces itself.
MCREEXEC == ({"sh"} \X Image) \cup ({<<"env", "npm">>} \cap (Image \X Image))

Acting(action, path) == [action |-> action, path |-> path, loopback |-> FALSE, odd_port |-> FALSE]
MCAct == {Acting("Write", "/tmp/x"), Acting("SecretRead", "key"), Acting("Connect", None)}
OneAct == {Acting("Connect", None)}
=============================================================================
