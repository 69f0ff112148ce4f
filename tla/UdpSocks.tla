------------------------------ MODULE UdpSocks ------------------------------
(***************************************************************************)
(* Outbound UDP (the UDP half of sensors-ebpf/src/network.rs): which fds   *)
(* of a process are datagram sockets, where they point, and when a send is *)
(* reported.  The handlers run at the entry of a system call, or at its    *)
(* exit for socket(); what the kernel does in between is the external part *)
(* of the model.  Threads of one process run in parallel, so a handler     *)
(* that reads a map and then writes it does so in two steps.               *)
(*                                                                         *)
(* One process is modelled: a map key is (pid, fd), so processes do not    *)
(* interfere, except that they share the room: the kernel evicts an entry  *)
(* of UDP_SOCKS, or drops an event, because of what others put there.      *)
(* Addresses the process passes are readable IPv4 ones.  Any call may fail *)
(* after its hook has run, and an fd may change hands through a call no    *)
(* hook watches (close_range, close-on-exec, exit, dup, a received or      *)
(* inherited fd).                                                          *)
(*                                                                         *)
(* History variables, all but `astray' by socket: `told', what was         *)
(* reported; `tried', the datagrams the kernel was handed, and `sent',     *)
(* those of them that left, in calls made before the process was muted;    *)
(* `explicit', the sockets sent through with an address of the call's own; *)
(* `failed', the connects that failed; `evicted', the sockets whose entry  *)
(* was evicted; `refused', the reports the ring had no room for; `astray', *)
(* the fds that changed hands unwatched since the last watched socket() or *)
(* close() on them, and `strays', the sockets that were reached so.        *)
(***************************************************************************)
EXTENDS Integers, Sequences, FiniteSets, SequencesExt

CONSTANTS
  Thread, Fd, Dest,
  SHARED,      \* whether threads are inside calls on one fd at once
  MaxSockets,  \* bound: sockets ever created
  MaxCalls     \* bound: connects, sends, unwatched calls, failures, evictions,
               \* refused reports and the mute, together

ASSUME UdpSocksAssumption ==
  /\ Fd \subseteq Nat /\ SHARED \in BOOLEAN
  /\ MaxSockets \in Nat /\ MaxCalls \in Nat

VARIABLES UDP_SOCKS,     \* fd -> where the socket points, whether that was reported
          PENDING_SOCK,  \* threads inside socket() for a datagram socket
          muted,         \* whether the process is in MUTED
          thr,           \* the system call each thread is in
          fds,           \* the process's open sockets, as the kernel knows them
          made,          \* how many sockets were made
          calls,         \* how many of what MaxCalls bounds
          told, tried, sent, explicit, failed, evicted, refused, astray, strays

sensor  == <<UDP_SOCKS, PENDING_SOCK, muted>>
kernel  == <<fds, made>>
losses  == <<evicted, refused>>
unseen  == <<astray, strays>>
history == <<told, tried, sent, explicit, failed, losses, unseen>>
udpVars == <<sensor, kernel, history, thr, calls>>

Counted == calls < MaxCalls /\ calls' = calls + 1

NoDest == "unspecified"  \* no address, or AF_UNSPEC
EMPTY  == [daddr |-> NoDest, reported |-> FALSE]
Idle   == [call |-> "none"]

In(t, call, step) == thr[t].call = call /\ thr[t].step = step
Goto(t, step)     == thr' = [thr EXCEPT ![t].step = step]
Return(t)         == thr' = [thr EXCEPT ![t] = Idle]

Put(m, fd, sock) == [f \in DOMAIN m \cup {fd} |-> IF f = fd THEN sock ELSE m[f]]
Drop(m, fd)      == [f \in DOMAIN m \ {fd} |-> m[f]]

InUse(fd)        == \E t \in Thread : thr[t] # Idle /\ thr[t].fd = fd
\* A program uses an fd that socket() gave it, and unless SHARED one thread at
\* a time.
Spare(fd)  == \A u \in Thread : thr[u] # Idle /\ thr[u].fd = fd =>
                                 SHARED /\ thr[u].call # "socket"
May(t, fd) == thr[t] = Idle /\ fd \in DOMAIN fds /\ Spare(fd)

Init == /\ UDP_SOCKS = <<>> /\ PENDING_SOCK = {} /\ muted = FALSE
        /\ thr = [t \in Thread |-> Idle]
        /\ fds = <<>> /\ made = 0 /\ calls = 0
        /\ told = <<>> /\ tried = {} /\ sent = {} /\ explicit = {} /\ failed = {}
        /\ evicted = {} /\ refused = {} /\ astray = {} /\ strays = {}

-----------------------------------------------------------------------------
(* socket()                                                                *)

\* Seeded fault: the answer of socket_enter kept by process, not by thread.
PendingKey_Pid(t) == CHOOSE p \in Thread : TRUE
PendingKey(t) == t

SocketEnter(t, dgram) ==
  /\ thr[t] = Idle /\ made < MaxSockets
  /\ PENDING_SOCK' = PENDING_SOCK \cup (IF dgram THEN {PendingKey(t)} ELSE {})
  /\ thr' = [thr EXCEPT ![t] = [call |-> "socket", step |-> "kernel", fd |-> -1, dgram |-> dgram]]
  /\ UNCHANGED <<UDP_SOCKS, muted, kernel, history, calls>>

\* Kernel: the lowest free fd, or none when socket() fails.
LowestFree == {f \in Fd \ DOMAIN fds : \A g \in Fd \ DOMAIN fds : f <= g}
Socket(dgram) == [id |-> made + 1, dgram |-> dgram, peer |-> NoDest]
KernelSocket(t) ==
  /\ In(t, "socket", "kernel")
  /\ \/ \E fd \in LowestFree :
          /\ fds' = Put(fds, fd, Socket(thr[t].dgram)) /\ made' = made + 1
          /\ thr' = [thr EXCEPT ![t].fd = fd, ![t].step = "exit"] /\ UNCHANGED calls
     \/ Goto(t, "exit") /\ Counted /\ UNCHANGED kernel
  /\ UNCHANGED <<sensor, history>>

\* Seeded fault: a non-datagram socket leaves the entry alone.
Recorded_KeepsStale(fd, is_dgram) == IF is_dgram THEN Put(UDP_SOCKS, fd, EMPTY) ELSE UDP_SOCKS
Recorded(fd, is_dgram) == IF is_dgram THEN Put(UDP_SOCKS, fd, EMPTY) ELSE Drop(UDP_SOCKS, fd)

SocketExit(t) ==
  LET fd == thr[t].fd
  IN  /\ In(t, "socket", "exit")
      /\ PENDING_SOCK' = PENDING_SOCK \ {PendingKey(t)}
      /\ UDP_SOCKS' = IF fd < 0 THEN UDP_SOCKS
                      ELSE Recorded(fd, PendingKey(t) \in PENDING_SOCK)
      /\ astray' = astray \ {fd}
      /\ Return(t)
      /\ UNCHANGED <<muted, kernel, told, tried, sent, explicit, failed, losses, strays, calls>>

-----------------------------------------------------------------------------
(* close()                                                                 *)

CloseEnter(t, fd) ==
  /\ May(t, fd)
  /\ UDP_SOCKS' = Drop(UDP_SOCKS, fd)
  /\ thr' = [thr EXCEPT ![t] = [call |-> "close", step |-> "kernel", fd |-> fd]]
  /\ astray' = astray \ {fd}
  /\ UNCHANGED <<PENDING_SOCK, muted, kernel, told, tried, sent, explicit, failed, losses, strays, calls>>

KernelClose(t) ==
  /\ In(t, "close", "kernel")
  /\ fds' = Drop(fds, thr[t].fd)
  /\ Return(t)
  /\ UNCHANGED <<sensor, made, history, calls>>

-----------------------------------------------------------------------------
(* connect()                                                               *)

ConnectEnter(t, fd, to) ==
  /\ May(t, fd) /\ Counted
  /\ thr' = [thr EXCEPT ![t] =
               [call |-> "connect", fd |-> fd, to |-> to,
                step |-> IF fd \in DOMAIN UDP_SOCKS THEN "record" ELSE "kernel"]]
  /\ UNCHANGED <<sensor, kernel, history>>

\* Seeded faults: AF_UNSPEC ignored; the flag kept over a connect.
NextPeer_KeepsOld(fd, to) ==
  CASE to # NoDest -> [daddr |-> to, reported |-> FALSE]
    [] to = NoDest /\ fd \in DOMAIN UDP_SOCKS -> UDP_SOCKS[fd]
    [] OTHER -> EMPTY
NextPeer_StaysReported(fd, to) ==
  IF to = NoDest THEN EMPTY
  ELSE [daddr |-> to, reported |-> fd \in DOMAIN UDP_SOCKS /\ UDP_SOCKS[fd].reported]
NextPeer(fd, to) == IF to = NoDest THEN EMPTY ELSE [daddr |-> to, reported |-> FALSE]

ConnectRecord(t) ==
  /\ In(t, "connect", "record")
  /\ UDP_SOCKS' = Put(UDP_SOCKS, thr[t].fd, NextPeer(thr[t].fd, thr[t].to))
  /\ Goto(t, "kernel")
  /\ UNCHANGED <<PENDING_SOCK, muted, kernel, history, calls>>

\* Kernel: the socket, whichever fds it has, gets a new peer, or the call fails
\* and it keeps the old one.
KernelConnect(t) ==
  LET fd == thr[t].fd
      to == thr[t].to
  IN  /\ In(t, "connect", "kernel")
      /\ \/ /\ fds' = [f \in DOMAIN fds |->
                        IF fd \in DOMAIN fds /\ fds[f].id = fds[fd].id
                        THEN [fds[f] EXCEPT !.peer = to] ELSE fds[f]]
            /\ UNCHANGED <<failed, calls>>
         \/ /\ Counted
            /\ failed' = failed \cup {<<fds[f].id, to>> : f \in {fd} \cap DOMAIN fds}
            /\ UNCHANGED fds
      /\ Return(t)
      /\ UNCHANGED <<sensor, made, told, tried, sent, explicit, losses, unseen>>

-----------------------------------------------------------------------------
(* sendto(), sendmsg(), sendmmsg()                                         *)

\* An explicit address wins; otherwise the remembered peer.
Destination(fd, to) == IF to # NoDest THEN to ELSE UDP_SOCKS[fd].daddr

\* udp_send's early returns.
Reportable(fd, to) ==
  /\ ~muted
  /\ fd \in DOMAIN UDP_SOCKS
  /\ Destination(fd, to) # NoDest
  /\ UDP_SOCKS[fd] # [daddr |-> Destination(fd, to), reported |-> TRUE]

SendEnter(t, fd, to) ==
  /\ May(t, fd) /\ Counted
  /\ thr' = [thr EXCEPT ![t] =
               [call |-> "send", fd |-> fd, to |-> to,
                step |-> IF Reportable(fd, to) THEN "report" ELSE "kernel",
                daddr |-> IF Reportable(fd, to) THEN Destination(fd, to) ELSE NoDest,
                id |-> fds[fd].id, watched |-> ~muted]]
  /\ explicit' = IF to # NoDest THEN explicit \cup {fds[fd].id} ELSE explicit
  /\ UNCHANGED <<sensor, kernel, told, tried, sent, failed, losses, unseen>>

\* The entry is replaced and the event submitted, or dropped by a full ring.
SendReport(t) ==
  LET report == <<thr[t].id, thr[t].daddr>>
  IN  /\ In(t, "send", "report")
      /\ UDP_SOCKS' = Put(UDP_SOCKS, thr[t].fd, [daddr |-> thr[t].daddr, reported |-> TRUE])
      /\ \/ told' = Append(told, report) /\ UNCHANGED <<refused, calls>>
         \/ Counted /\ refused' = refused \cup {report} /\ UNCHANGED told
      /\ Goto(t, "kernel")
      /\ UNCHANGED <<PENDING_SOCK, muted, kernel, tried, sent, explicit, failed, evicted, unseen>>

\* Kernel: it is handed a datagram if the socket is still there and has somewhere
\* to go, and the datagram leaves or the call fails; a stream socket sends to its
\* peer, whatever address the call gives.
KernelSend(t) ==
  LET fd   == thr[t].fd
      open == fd \in DOMAIN fds /\ fds[fd].dgram
      to   == IF thr[t].to # NoDest \/ ~open THEN thr[t].to ELSE fds[fd].peer
      handed == IF open /\ to # NoDest /\ thr[t].watched THEN {<<fds[fd].id, to>>} ELSE {}
  IN  /\ In(t, "send", "kernel")
      /\ tried' = tried \cup handed
      /\ \/ sent' = sent \cup handed /\ UNCHANGED calls
         \/ handed # {} /\ Counted /\ UNCHANGED sent
      /\ Return(t)
      /\ UNCHANGED <<sensor, kernel, told, explicit, failed, losses, unseen>>

-----------------------------------------------------------------------------
(* Calls no hook watches                                                   *)

\* Kernel: a socket made unseen: a stream from accept(), which may get an fd that
\* was lost unseen before, or a datagram socket received or inherited.
Appear(t, dgram) ==
  /\ thr[t] = Idle /\ made < MaxSockets
  /\ made' = made + 1
  /\ \E fd \in LowestFree :
       /\ fds' = Put(fds, fd, Socket(dgram))
       /\ astray' = IF dgram THEN astray \cup {fd} ELSE astray
       /\ strays' = IF dgram \/ fd \in astray THEN strays \cup {made + 1} ELSE strays
  /\ Counted
  /\ UNCHANGED <<sensor, told, tried, sent, explicit, failed, losses, thr>>

\* Kernel: the fd is closed by close_range(), close-on-exec or exit.
Vanish(t, fd) ==
  /\ May(t, fd) /\ Counted
  /\ fds' = Drop(fds, fd)
  /\ astray' = astray \cup {fd}
  /\ UNCHANGED <<sensor, made, told, tried, sent, explicit, failed, losses, strays, thr>>

\* Kernel: `to' becomes, whatever it was, one more fd of the socket behind `from'
\* (dup, dup2, dup3, F_DUPFD).
Dup(t, from, to) ==
  /\ May(t, from) /\ Spare(to) /\ from # to /\ Counted
  /\ fds' = Put(fds, to, fds[from])
  /\ astray' = astray \cup {to}
  /\ strays' = strays \cup {fds[from].id}
  /\ UNCHANGED <<sensor, made, told, tried, sent, explicit, failed, losses, thr>>

-----------------------------------------------------------------------------
\* Userspace mutes the process (push_muted); nothing unmutes it.
Mute == /\ ~muted /\ Counted
        /\ muted' = TRUE
        /\ UNCHANGED <<UDP_SOCKS, PENDING_SOCK, kernel, history, thr>>

\* UDP_SOCKS is full and its least recent entry is this process's.
Evict(fd) ==
  /\ fd \in DOMAIN UDP_SOCKS /\ Counted
  /\ UDP_SOCKS' = Drop(UDP_SOCKS, fd)
  /\ evicted' = evicted \cup {fds[f].id : f \in {fd} \cap DOMAIN fds}
  /\ UNCHANGED <<PENDING_SOCK, muted, kernel, told, tried, sent, explicit, failed, refused, unseen, thr>>

Next ==
  \/ \E t \in Thread :
       \/ \E dgram \in BOOLEAN : SocketEnter(t, dgram)
       \/ KernelSocket(t)
       \/ SocketExit(t)
       \/ \E dgram \in BOOLEAN : Appear(t, dgram)
       \/ \E fd \in Fd : Vanish(t, fd)
       \/ \E from, to \in Fd : Dup(t, from, to)
       \/ \E fd \in Fd : CloseEnter(t, fd)
       \/ KernelClose(t)
       \/ \E fd \in Fd, to \in Dest \cup {NoDest} : ConnectEnter(t, fd, to)
       \/ ConnectRecord(t)
       \/ KernelConnect(t)
       \/ \E fd \in Fd, to \in Dest \cup {NoDest} : SendEnter(t, fd, to)
       \/ SendReport(t)
       \/ KernelSend(t)
  \/ Mute
  \/ \E fd \in Fd : Evict(fd)

Spec == Init /\ [][Next]_udpVars

-----------------------------------------------------------------------------
\* "An entry that outlives its socket is not a leak but a correctness bug":
\* an fd no call is at work on and that did not change hands unwatched has an
\* entry only if it is a datagram socket (network.rs:236-238).
EntryOutlivesNoSocket ==
  \A fd \in DOMAIN UDP_SOCKS \ astray :
    ~InUse(fd) => fd \in DOMAIN fds /\ fds[fd].dgram

\* And every datagram socket made by socket() has one, unless it was evicted, that
\* remembers nothing of an earlier socket on its fd, seen or unseen: what it calls
\* reported was reported for this socket, or refused by the ring.
EntriesMatchSockets ==
  /\ EntryOutlivesNoSocket
  /\ \A fd \in DOMAIN fds \ astray :
       fds[fd].dgram /\ ~InUse(fd) =>
          /\ fd \in DOMAIN UDP_SOCKS \/ fds[fd].id \in evicted
          /\ fd \in DOMAIN UDP_SOCKS /\ UDP_SOCKS[fd].reported =>
               LET report == <<fds[fd].id, UDP_SOCKS[fd].daddr>>
               IN  Contains(told, report) \/ report \in refused

\* A reported call that the kernel has yet to answer.
Underway(report) ==
  \E t \in Thread : In(t, "send", "kernel") /\ <<thr[t].id, thr[t].daddr>> = report

\* A connect is never reported as traffic: whatever is reported of a socket, the
\* process asked the kernel to send to the destination reported, or the reported
\* call is about to; unless that is where a connect failed to point it, or the
\* socket changed hands unwatched (network.rs:93-117, 329-371).
NoPhantomTraffic ==
  \A i \in DOMAIN told :
    \/ told[i] \in tried \cup failed \/ Underway(told[i])
    \/ told[i][1] \in strays

\* Nothing a connected socket sends goes unreported, however often it is
\* connected anew or its fd was another socket's before, as long as its sends
\* leave the address to connect, its connects succeed, its entry is not evicted,
\* the ring has room and it does not change hands unwatched (network.rs:255-279,
\* 329-371).
ConnectedSendsReported ==
  \A s \in sent :
    \/ s[1] \in explicit \cup evicted \cup strays \cup {f[1] : f \in failed}
    \/ s \in refused \/ Contains(told, s)

=============================================================================
