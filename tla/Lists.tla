-------------------------------- MODULE Lists --------------------------------
(***************************************************************************)
(* The lists the rules match on (rules/lists.rs). Name lists are kept as   *)
(* they are; what the rules test paths and command lines for is a set of   *)
(* facts per path and command line, given by constants.                    *)
(***************************************************************************)
EXTENDS Events

CONSTANTS
  path_facts,     \* what holds of a path: a subset of PathFact
  cmd_facts,      \* what holds of a command line: a subset of CmdFact
  secrets,        \* of the paths in SECRETS: [readers, dependency_only]
  environ_of,     \* of the paths /proc/<pid>/environ: the pid
  compiler_names  \* names with a prefix in COMPILER_PREFIXES

DEPENDENCY_TOOLS == {"npm", "npx", "yarn", "pnpm", "pip", "pip3", "pipx", "poetry",
                     "cargo", "gem", "bundle", "composer", "go", "make", "mvn", "gradle"}
BUILD_TOOLS      == {"make", "configure", "dpkg-buildpackage", "rpmbuild", "mvn",
                     "gradle", "cargo", "go"}
SHELLS           == {"sh", "bash", "dash", "zsh", "ksh", "fish"}
SSHD_LISTENER    == {"sshd"}
SSHD_SESSION     == {"sshd-session", "sshd-auth"}
DOWNLOADERS      == {"curl", "wget", "nc", "ncat", "netcat", "socat"}
DECOMPRESSORS    == {"xz", "unxz", "xzcat", "lzma", "unlzma"}
COMPILERS        == {"cc", "gcc", "g++", "c++", "clang", "clang++", "cc1", "cc1plus",
                     "collect2", "ld", "ld.bfd", "ld.gold", "ld.lld", "lld", "mold",
                     "as", "ar", "ranlib", "rustc", "go"} \cup compiler_names
ENV_DUMPERS      == {"env", "printenv"}
CONTAINER_TOOLS  == {"docker", "kubectl", "crictl", "ctr", "nsenter"}

PathFact ==
  {"staging_dir",      \* under STAGING_DIRS
   "hidden_staging",   \* under /dev/shm, or a dot file under /tmp or /var/tmp
   "shell_rc", "cron", "systemd_unit", "authorized_keys",
   "object_file",      \* ends in one of OBJECT_SUFFIXES
   "system_bin",       \* under SYSTEM_BIN_DIRS
   "accounts",         \* /etc/passwd, /etc/shadow
   "sudoers",          \* /etc/sudoers, /etc/sudoers.d/
   "name_lookup",      \* /etc/resolv.conf, /etc/hosts
   "package_cache",    \* in one of PACKAGE_CACHES
   "public_cert",      \* under PUBLIC_CERT_DIRS
   "go_tool"}          \* under GO_TOOL_DIR

CmdFact ==
  {"in_dependency",    \* an interpreter's script under DEPENDENCY_DIRS
   "decode_and_run",   \* a pattern of DECODE_AND_RUN, or the word eval
   "test_data",        \* an argument under tests/
   "cache_owner"}      \* a marker of CACHE_OWNER_MARKERS

ASSUME ListsAssumption ==
  /\ path_facts \in [Path -> SUBSET PathFact]
  /\ cmd_facts \in [Cmdline -> SUBSET CmdFact]
  /\ DOMAIN secrets \subseteq Path
  /\ \A p \in DOMAIN secrets : secrets[p] \in [readers : SUBSET Name, dependency_only : BOOLEAN]
  /\ DOMAIN environ_of \subseteq Path
  /\ compiler_names \subseteq Name

PathIs(path, fact) == path # None /\ fact \in path_facts[path]
CmdIs(cmdline, fact) == cmdline # None /\ fact \in cmd_facts[cmdline]
=============================================================================
