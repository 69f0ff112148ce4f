------------------------------ MODULE UdpProofs ------------------------------
(***************************************************************************)
(* What UDP_SOCKS promises of any number of threads, fds, sockets, calls   *)
(* and mishaps - calls that fail, entries evicted, reports refused, fds    *)
(* that change hands unwatched -, as long as no two threads are inside     *)
(* calls on one fd.                                                        *)
(***************************************************************************)
EXTENDS UdpSocks, TLAPS

Peer  == Dest \cup {NoDest}
Sock  == [id : Nat, dgram : BOOLEAN, peer : Peer]
Entry == [daddr : Peer, reported : BOOLEAN]

SocketCall  == [call : {"socket"}, step : {"kernel", "exit"}, fd : Fd \cup {-1}, dgram : BOOLEAN]
CloseCall   == [call : {"close"}, step : {"kernel"}, fd : Fd]
ConnectCall == [call : {"connect"}, fd : Fd, to : Peer, step : {"record", "kernel"}]
SendCall    == [call : {"send"}, fd : Fd, to : Peer, step : {"report", "kernel"},
                daddr : Peer, id : Nat, watched : BOOLEAN]
Call        == {Idle} \cup SocketCall \cup CloseCall \cup ConnectCall \cup SendCall

\* Counters apart.
Typed ==
  /\ thr \in [Thread -> Call]
  /\ DOMAIN fds \subseteq Fd /\ fds \in [DOMAIN fds -> Sock]
  /\ DOMAIN UDP_SOCKS \subseteq Fd /\ UDP_SOCKS \in [DOMAIN UDP_SOCKS -> Entry]
  /\ made \in Nat /\ told \in Seq(Nat \X Peer) /\ muted \in BOOLEAN

On(t, fd)   == thr[t] # Idle /\ thr[t].fd = fd
Reported(s) == Contains(told, s) \/ s \in refused

\* Sockets whose sends may go unreported.
Lost(id) == id \in explicit \cup evicted \cup strays \cup {f[1] : f \in failed}

\* No two calls are on one fd; socket() has none until the kernel gives it one.
Exclusive == \A t, u \in Thread, fd \in Fd : On(t, fd) /\ On(u, fd) => t = u

Pending == \A t \in Thread : t \in PENDING_SOCK <=> thr[t].call = "socket" /\ thr[t].dgram = TRUE

\* What a call knows of its fd.
SocketFine(c) ==
  /\ c.step = "kernel" => c.fd = -1
  /\ c.fd # -1 => /\ c.fd \in DOMAIN fds /\ (c.fd \in DOMAIN UDP_SOCKS => c.fd \in astray)
                  /\ fds[c.fd].dgram = c.dgram
                  /\ fds[c.fd].peer = NoDest \/ fds[c.fd].id \in strays
CloseFine(c) == c.fd \in DOMAIN fds /\ c.fd \notin DOMAIN UDP_SOCKS
ConnectFine(c) ==
  /\ c.fd \in DOMAIN fds
  /\ c.step = "record" => fds[c.fd].dgram = TRUE \/ c.fd \in astray
  /\ c.step = "kernel" /\ c.fd \in DOMAIN UDP_SOCKS =>
        UDP_SOCKS[c.fd].daddr = c.to /\ UDP_SOCKS[c.fd].reported = FALSE
SendFine(c) ==
  LET peer == fds[c.fd].peer IN
  /\ c.fd \in DOMAIN fds /\ c.id = fds[c.fd].id
  /\ c.to # NoDest => c.id \in explicit
  /\ c.step = "report" => c.daddr # NoDest
  /\ c.daddr # NoDest => /\ c.watched = TRUE
                         /\ fds[c.fd].dgram = TRUE \/ (c.fd \in astray /\ c.id \in strays)
                         /\ \/ c.daddr = IF c.to # NoDest THEN c.to ELSE peer
                            \/ <<c.id, c.daddr>> \in failed \/ c.id \in strays
  /\ c.step = "kernel" /\ c.watched = TRUE /\ fds[c.fd].dgram = TRUE /\ c.to = NoDest /\ peer # NoDest =>
        Lost(c.id) \/ Reported(<<c.id, peer>>)
CallFine(c) ==
  /\ c.call = "socket"  => SocketFine(c)
  /\ c.call = "close"   => CloseFine(c)
  /\ c.call = "connect" => ConnectFine(c)
  /\ c.call = "send"    => SendFine(c)

\* A datagram socket has its entry, save between the two halves of the calls
\* that make and unmake it; what is behind an fd astray is a stray, save before
\* the exit of the socket() that will clear it.
SockFine(fd) ==
  /\ fds[fd].id <= made
  /\ fd \in astray =>
       \/ fds[fd].id \in strays
       \/ \E t \in Thread : On(t, fd) /\ thr[t].call = "socket"
  /\ fds[fd].dgram = TRUE /\ fd \notin astray =>
       \/ fd \in DOMAIN UDP_SOCKS \/ fds[fd].id \in evicted
       \/ \E t \in Thread : On(t, fd) /\ thr[t].call \in {"socket", "close"}

\* An entry is a datagram socket's. It points where the socket does, save
\* between the two halves of connect(), after a connect that failed and after a
\* send to another address. Nothing is known of the entry of an fd astray.
EntryFine(fd) ==
  LET sock == fds[fd] entry == UDP_SOCKS[fd] IN
  fd \notin astray =>
    /\ fd \in DOMAIN fds /\ sock.dgram = TRUE
    /\ entry.reported = TRUE => Reported(<<sock.id, entry.daddr>>)
    /\ \/ \E t \in Thread : On(t, fd) /\ thr[t].call = "connect" /\ thr[t].step = "kernel"
       \/ entry.reported = TRUE /\ sock.id \in explicit
       \/ <<sock.id, entry.daddr>> \in failed \/ sock.id \in strays
       \/ entry.daddr = sock.peer

\* Only a stray has two fds.
Apart == \A f, g \in DOMAIN fds : fds[f].id = fds[g].id => f = g \/ fds[f].id \in strays

\* NoPhantomTraffic, with the call that is about to send named.
NoPhantom ==
  \A i \in DOMAIN told :
    \/ told[i] \in tried \cup failed \/ told[i][1] \in strays
    \/ \E t \in Thread : /\ thr[t].call = "send" /\ thr[t].step = "kernel"
                         /\ thr[t].daddr # NoDest
                         /\ <<thr[t].id, thr[t].daddr>> = told[i]

AllFine ==
  /\ \A t \in Thread : CallFine(thr[t])
  /\ \A fd \in DOMAIN fds : SockFine(fd)
  /\ \A fd \in DOMAIN UDP_SOCKS : EntryFine(fd)

IInv == Typed /\ Exclusive /\ Pending /\ AllFine /\ Apart /\ NoPhantom /\ ConnectedSendsReported

-----------------------------------------------------------------------------
(* A step of a call changes what concerns its own fd only, and the peer    *)
(* behind every fd of its socket.                                          *)

SameSock(g) ==
  /\ fds'[g].id = fds[g].id /\ fds'[g].dgram = fds[g].dgram
  /\ fds'[g].peer = fds[g].peer \/ fds[g].id \in strays

Frame(t, f) ==
  /\ \A u \in Thread \ {t} : thr'[u] = thr[u]
  /\ \A c \in {thr[t], thr'[t]} : c # Idle => c.fd \in {f, -1}
  /\ f \in Fd => \A u \in Thread \ {t} : ~On(u, f)
  /\ \A g \in Fd \ {f} : /\ g \in DOMAIN fds' <=> g \in DOMAIN fds
                         /\ g \in DOMAIN fds => SameSock(g)
                         /\ g \in DOMAIN UDP_SOCKS' <=> g \in DOMAIN UDP_SOCKS
                         /\ g \in DOMAIN UDP_SOCKS => UDP_SOCKS'[g] = UDP_SOCKS[g]
                         /\ g \in astray' <=> g \in astray
  /\ explicit \subseteq explicit' /\ evicted \subseteq evicted'
  /\ failed \subseteq failed' /\ strays \subseteq strays'
  /\ made' \in {made, made + 1}
  /\ \A s : Reported(s) => Reported(s)'

LEMMA CallFd ==
  ASSUME NEW c \in Call, c # Idle
  PROVE  /\ c.call \in {"socket", "close", "connect", "send"}
         /\ c.call = "socket" => c \in SocketCall
         /\ c.call = "close" => c \in CloseCall
         /\ c.call = "connect" => c \in ConnectCall
         /\ c.call = "send" => c \in SendCall
         /\ c.fd \in Fd \cup {-1} /\ (c.call # "socket" => c.fd \in Fd)
BY DEF Call, SocketCall, CloseCall, ConnectCall, SendCall, Idle

LEMMA StaysExclusive ==
  ASSUME Exclusive, NEW t \in Thread, NEW f \in Fd \cup {-1}, Frame(t, f)
  PROVE  Exclusive'
<1> SUFFICES ASSUME NEW u \in Thread, NEW w \in Thread, NEW fd \in Fd,
                    On(u, fd)', On(w, fd)', u # w
             PROVE  FALSE
  BY DEF Exclusive
<1>0. fd # -1
  BY UdpSocksAssumption
<1>1. CASE u # t /\ w # t
  BY <1>1 DEF Frame, On, Exclusive
<1>2. CASE u = t
  <2>1. f = fd
    BY <1>0, <1>2 DEF Frame, On
  <2>2. ~On(w, fd) /\ thr'[w] = thr[w]
    BY <1>2, <2>1 DEF Frame
  <2>3. QED
    BY <2>2 DEF On
<1>3. CASE w = t
  <2>1. f = fd
    BY <1>0, <1>3 DEF Frame, On
  <2>2. ~On(u, fd) /\ thr'[u] = thr[u]
    BY <1>3, <2>1 DEF Frame
  <2>3. QED
    BY <2>2 DEF On
<1>4. QED
  BY <1>1, <1>2, <1>3

LEMMA LostStays ==
  ASSUME NEW t, NEW f, Frame(t, f)
  PROVE  \A id : Lost(id) => Lost(id)'
<1>1. {g[1] : g \in failed} \subseteq {g[1] : g \in failed'}
  BY DEF Frame
<1>2. QED
  BY <1>1 DEF Frame, Lost

LEMMA OthersFine ==
  ASSUME Typed, Typed', AllFine, NEW t \in Thread, NEW f \in Fd \cup {-1}, Frame(t, f),
         NEW u \in Thread \ {t}
  PROVE  CallFine(thr[u])'
<1> DEFINE c == thr[u]
<1>1. c \in Call /\ c' = c /\ CallFine(c)
  BY DEF Typed, AllFine, Frame
<1>2. CASE c = Idle
  BY <1>1, <1>2 DEF CallFine, Idle
<1>3. CASE c # Idle /\ c.fd \in Fd
  <2>1. c.fd \in Fd \ {f}
    BY <1>3 DEF Frame, On
  <2>2. /\ c.fd \in DOMAIN fds' <=> c.fd \in DOMAIN fds
        /\ c.fd \in DOMAIN fds => SameSock(c.fd)
        /\ c.fd \in DOMAIN UDP_SOCKS' <=> c.fd \in DOMAIN UDP_SOCKS
        /\ c.fd \in DOMAIN UDP_SOCKS => UDP_SOCKS'[c.fd] = UDP_SOCKS[c.fd]
        /\ c.fd \in astray' <=> c.fd \in astray
    BY <2>1 DEF Frame
  <2>3. /\ explicit \subseteq explicit' /\ strays \subseteq strays' /\ failed \subseteq failed'
        /\ \A s : Reported(s) => Reported(s)'
    BY DEF Frame
  <2>a. \A id : Lost(id) => Lost(id)'
    BY LostStays
  <2> HIDE DEF c
  <2>4. SocketFine(c) => SocketFine(c)'
    BY <1>1, <2>2, <2>3 DEF SocketFine, SameSock
  <2>5. CloseFine(c) => CloseFine(c)'
    BY <1>1, <2>2 DEF CloseFine
  <2>6. ConnectFine(c) => ConnectFine(c)'
    BY <1>1, <2>2 DEF ConnectFine, SameSock
  <2>7. SendFine(c) => SendFine(c)'
    <3> SUFFICES ASSUME SendFine(c)  PROVE SendFine(c)'
      OBVIOUS
    <3>1. c.fd \in DOMAIN fds /\ SameSock(c.fd) /\ c.id = fds[c.fd].id
      BY <2>2 DEF SendFine
    <3>2. CASE c.id \in strays
      BY <1>1, <2>2, <2>3, <3>1, <3>2 DEF SendFine, SameSock, Lost
    <3>3. CASE fds'[c.fd].peer = fds[c.fd].peer
      BY <1>1, <2>2, <2>3, <2>a, <3>1, <3>3 DEF SendFine, SameSock
    <3>4. QED
      BY <3>1, <3>2, <3>3 DEF SameSock
  <2>8. CallFine(c)'
    BY <1>1, <2>4, <2>5, <2>6, <2>7 DEF CallFine
  <2>9. QED
    BY <2>8 DEF c
<1>4. CASE c # Idle /\ c.fd \notin Fd
  <2>1. c.call = "socket" /\ c.fd = -1
    BY <1>1, <1>4, CallFd
  <2>2. QED
    BY <1>1, <2>1 DEF CallFine, SocketFine
<1>5. QED
  BY <1>2, <1>3, <1>4

LEMMA StaysFine ==
  ASSUME Typed, Typed', AllFine, NEW t \in Thread, NEW f \in Fd \cup {-1}, Frame(t, f),
         CallFine(thr[t])',
         f \in DOMAIN fds' => SockFine(f)',
         f \in DOMAIN UDP_SOCKS' => EntryFine(f)'
  PROVE  AllFine'
<1>1. \A u \in Thread : CallFine(thr[u])'
  BY OthersFine
<1>2. ASSUME NEW g \in DOMAIN fds', g # f  PROVE SockFine(g)'
  <2>1. g \in Fd \ {f} /\ g \in DOMAIN fds /\ g # -1
    BY <1>2, UdpSocksAssumption DEF Typed, Frame
  <2>2. /\ SameSock(g) /\ strays \subseteq strays' /\ made' \in {made, made + 1}
        /\ g \in DOMAIN UDP_SOCKS' <=> g \in DOMAIN UDP_SOCKS
        /\ g \in astray' <=> g \in astray
        /\ evicted \subseteq evicted'
    BY <2>1 DEF Frame
  <2>3. \A u \in Thread : On(u, g) => thr'[u] = thr[u]
    BY <2>1 DEF Frame, On
  <2>4. SockFine(g)
    BY <2>1 DEF AllFine
  <2>5. fds'[g].id = fds[g].id /\ fds[g].id \in Nat /\ made \in Nat /\ made' \in Nat
    BY <2>1, <2>2 DEF SameSock, Typed, Sock
  <2>6. fds'[g].id <= made'
    BY <2>2, <2>4, <2>5 DEF SockFine
  <2>7. QED
    BY <2>2, <2>3, <2>4, <2>6 DEF SockFine, On, SameSock
<1>3. ASSUME NEW g \in DOMAIN UDP_SOCKS', g # f  PROVE EntryFine(g)'
  <2> SUFFICES ASSUME g \notin astray'  PROVE EntryFine(g)'
    BY DEF EntryFine
  <2>1. g \in Fd \ {f} /\ g \in DOMAIN UDP_SOCKS /\ g # -1 /\ g \notin astray
    BY <1>3, UdpSocksAssumption DEF Typed, Frame
  <2>2. EntryFine(g)
    BY <2>1 DEF AllFine
  <2>3. /\ g \in DOMAIN fds' <=> g \in DOMAIN fds
        /\ SameSock(g) /\ UDP_SOCKS'[g] = UDP_SOCKS[g]
        /\ explicit \subseteq explicit' /\ failed \subseteq failed' /\ strays \subseteq strays'
        /\ \A s : Reported(s) => Reported(s)'
    BY <2>1, <2>2 DEF Frame, EntryFine
  <2>4. \A u \in Thread : On(u, g) => thr'[u] = thr[u]
    BY <2>1 DEF Frame, On
  <2>5. QED
    BY <2>1, <2>2, <2>3, <2>4 DEF EntryFine, On, SameSock
<1>4. QED
  BY <1>1, <1>2, <1>3 DEF AllFine

LEMMA StaysPending ==
  ASSUME Pending, NEW t \in Thread, NEW f, Frame(t, f),
         \A u \in Thread \ {t} : u \in PENDING_SOCK' <=> u \in PENDING_SOCK,
         t \in PENDING_SOCK' <=> thr'[t].call = "socket" /\ thr'[t].dgram = TRUE
  PROVE  Pending'
BY DEF Pending, Frame

LEMMA StaysReal ==
  ASSUME NoPhantom, NEW t \in Thread, NEW f, Frame(t, f),
         told' = told, tried' = tried, ~In(t, "send", "kernel")
  PROVE  NoPhantom'
<1>0. failed \subseteq failed' /\ strays \subseteq strays'
  BY DEF Frame
<1> SUFFICES ASSUME NEW i \in DOMAIN told, told[i] \notin tried \cup failed, told[i][1] \notin strays
             PROVE  \E u \in Thread : /\ thr'[u].call = "send" /\ thr'[u].step = "kernel"
                                      /\ thr'[u].daddr # NoDest
                                      /\ <<thr'[u].id, thr'[u].daddr>> = told[i]
  BY <1>0 DEF NoPhantom
<1>1. PICK u \in Thread : /\ thr[u].call = "send" /\ thr[u].step = "kernel"
                          /\ thr[u].daddr # NoDest
                          /\ <<thr[u].id, thr[u].daddr>> = told[i]
  BY DEF NoPhantom
<1>2. thr'[u] = thr[u]
  BY <1>1 DEF Frame, In
<1>3. QED
  BY <1>1, <1>2

LEMMA SendsReported ==
  ConnectedSendsReported <=> \A s \in sent : Lost(s[1]) \/ Reported(s)
BY DEF ConnectedSendsReported, Lost, Reported

LEMMA StaysReported ==
  ASSUME ConnectedSendsReported, NEW t, NEW f, Frame(t, f), sent' = sent
  PROVE  ConnectedSendsReported'
<1>1. \A s \in sent : Lost(s[1]) \/ Reported(s)
  BY SendsReported
<1>2. \A s \in sent : Lost(s[1])' \/ Reported(s)'
  BY <1>1, LostStays DEF Frame
<1>3. QED
  BY <1>2 DEF ConnectedSendsReported, Lost, Reported

\* No socket is made and none gets another fd.
SameSocks == \A g \in DOMAIN fds' : g \in DOMAIN fds /\ fds'[g].id = fds[g].id

LEMMA StaysApart ==
  ASSUME Apart, SameSocks, strays \subseteq strays'
  PROVE  Apart'
BY DEF Apart, SameSocks

\* A new socket has a new id.
LEMMA NewApart ==
  ASSUME Typed, AllFine, Apart, NEW fd, NEW dgram, fds' = Put(fds, fd, Socket(dgram)),
         strays \subseteq strays'
  PROVE  Apart'
<1>1. /\ DOMAIN fds' = DOMAIN fds \cup {fd} /\ fds'[fd].id = made + 1
      /\ \A g \in DOMAIN fds' \ {fd} : g \in DOMAIN fds /\ fds'[g] = fds[g]
  BY DEF Put, Socket
<1>2. \A g \in DOMAIN fds : fds[g].id # made + 1
  <2> TAKE g \in DOMAIN fds
  <2>1. fds[g].id <= made /\ fds[g].id \in Nat /\ made \in Nat
    BY DEF AllFine, SockFine, Typed, Sock
  <2>2. QED
    BY <2>1
<1> SUFFICES ASSUME NEW g \in DOMAIN fds', NEW h \in DOMAIN fds',
                    fds'[g].id = fds'[h].id, g # h
             PROVE  fds'[g].id \in strays'
  BY DEF Apart
<1>3. g # fd /\ h # fd
  BY <1>1, <1>2
<1>4. QED
  BY <1>1, <1>3 DEF Apart

\* Quiet steps: nothing is reported and nothing is sent.
LEMMA QuietStep ==
  ASSUME IInv, NEW t \in Thread, NEW f \in Fd \cup {-1}, Typed', Frame(t, f), Apart',
         CallFine(thr[t])',
         f \in DOMAIN fds' => SockFine(f)',
         f \in DOMAIN UDP_SOCKS' => EntryFine(f)',
         \A u \in Thread \ {t} : u \in PENDING_SOCK' <=> u \in PENDING_SOCK,
         t \in PENDING_SOCK' <=> thr'[t].call = "socket" /\ thr'[t].dgram = TRUE,
         told' = told, tried' = tried, sent' = sent, ~In(t, "send", "kernel")
  PROVE  IInv'
BY StaysExclusive, StaysFine, StaysPending, StaysReal, StaysReported DEF IInv

LEMMA Alone ==
  ASSUME ~SHARED, NEW t \in Thread, NEW fd, May(t, fd)
  PROVE  thr[t] = Idle /\ fd \in DOMAIN fds /\ \A u \in Thread : ~On(u, fd)
BY DEF May, Spare, On

\* What is behind an fd astray that no call is on is a stray.
LEMMA IdleStray ==
  ASSUME IInv, NEW fd \in DOMAIN fds \cap astray, \A u \in Thread : ~On(u, fd)
  PROVE  fds[fd].id \in strays
BY DEF IInv, AllFine, SockFine

LEMMA IdleFacts ==
  ASSUME IInv, NEW t \in Thread, thr[t] = Idle
  PROVE  ~In(t, "send", "kernel") /\ t \notin PENDING_SOCK
BY DEF In, Idle, IInv, Pending

LEMMA FdIsNat ==
  ASSUME NEW fd \in Fd
  PROVE  fd \in Nat /\ fd >= 0 /\ ~(fd < 0) /\ fd # -1
<1>1. fd \in Nat
  BY UdpSocksAssumption
<1>2. QED
  BY <1>1

\* A free fd has no entry, unless it is astray, and no call is on it.
LEMMA FreeFd ==
  ASSUME IInv, NEW fd \in LowestFree
  PROVE  /\ fd \in Fd /\ fd \notin DOMAIN fds /\ (fd \in DOMAIN UDP_SOCKS => fd \in astray)
         /\ \A u \in Thread : ~On(u, fd)
<1>1. fd \in Fd /\ fd \notin DOMAIN fds
  BY DEF LowestFree
<1>2. fd \in DOMAIN UDP_SOCKS => fd \in astray
  BY <1>1 DEF IInv, AllFine, EntryFine
<1>3. ASSUME NEW u \in Thread, On(u, fd)  PROVE FALSE
  <2>1. thr[u] # Idle /\ thr[u].fd = fd /\ thr[u] \in Call /\ CallFine(thr[u])
    BY <1>3 DEF On, IInv, Typed, AllFine
  <2>2. thr[u].fd \in DOMAIN fds
    BY <1>1, <2>1, CallFd, FdIsNat DEF CallFine, SocketFine, CloseFine, ConnectFine, SendFine
  <2>3. QED
    BY <1>1, <2>1, <2>2
<1>4. QED
  BY <1>1, <1>2, <1>3

\* What is known of the call a thread is in.
LEMMA CallFacts ==
  ASSUME IInv, NEW t \in Thread, thr[t].call # "none"
  PROVE  /\ thr[t] \in Call /\ thr[t] # Idle /\ CallFine(thr[t])
         /\ thr[t].call # "socket" => t \notin PENDING_SOCK
         /\ thr[t].fd \in Fd => \A u \in Thread \ {t} : ~On(u, thr[t].fd)
BY DEF IInv, Typed, AllFine, Pending, Idle, Exclusive, On

-----------------------------------------------------------------------------
(* socket()                                                                *)

LEMMA SocketEnterStep ==
  ASSUME IInv, NEW t \in Thread, NEW dgram \in BOOLEAN, SocketEnter(t, dgram)
  PROVE  IInv'
<1> DEFINE c == [call |-> "socket", step |-> "kernel", fd |-> -1, dgram |-> dgram]
<1>1. /\ thr[t] = Idle /\ thr' = [thr EXCEPT ![t] = c]
      /\ PENDING_SOCK' = PENDING_SOCK \cup (IF dgram THEN {t} ELSE {})
      /\ UNCHANGED <<UDP_SOCKS, muted, fds, made, told, tried, sent, explicit, failed, evicted, refused, astray, strays>>
  BY DEF SocketEnter, PendingKey, kernel, history, losses, unseen
<1>2. c \in SocketCall /\ thr'[t] = c /\ thr \in [Thread -> Call]
  BY <1>1 DEF SocketCall, IInv, Typed
<1>3. Typed'
  BY <1>1, <1>2 DEF IInv, Typed, Call
<1>4. Frame(t, -1)
  BY <1>1, <1>2, UdpSocksAssumption DEF Frame, SameSock, Reported
<1>5. CallFine(thr[t])'
  BY <1>2 DEF CallFine, SocketFine
<1>6. -1 \notin DOMAIN fds' /\ -1 \notin DOMAIN UDP_SOCKS'
  BY <1>3, UdpSocksAssumption DEF Typed
<1>7. t \in PENDING_SOCK' <=> thr'[t].call = "socket" /\ thr'[t].dgram = TRUE
  BY <1>1, <1>2, IdleFacts
<1>8. Apart'
  BY <1>1, StaysApart DEF IInv, SameSocks
<1>9. QED
  BY <1>8, <1>1, <1>3, <1>4, <1>5, <1>6, <1>7, IdleFacts, QuietStep

LEMMA KernelSocketStep ==
  ASSUME IInv, NEW t \in Thread, KernelSocket(t)
  PROVE  IInv'
<1> DEFINE c == thr[t]
<1>1. /\ c \in SocketCall /\ c.step = "kernel" /\ c.fd = -1
      /\ thr \in [Thread -> Call]
      /\ t \in PENDING_SOCK <=> c.dgram = TRUE
  BY CallFacts, CallFd DEF KernelSocket, In, CallFine, SocketFine, IInv, Typed, Pending
<1>2. UNCHANGED <<UDP_SOCKS, PENDING_SOCK, muted, told, tried, sent, explicit, failed, evicted, refused, astray, strays>>
  BY DEF KernelSocket, sensor, history, losses, unseen
<1>3. ~In(t, "send", "kernel")
  BY <1>1 DEF SocketCall, In
<1>4. ASSUME NEW fd \in LowestFree,
             fds' = Put(fds, fd, Socket(c.dgram)), made' = made + 1,
             thr' = [thr EXCEPT ![t].fd = fd, ![t].step = "exit"]
      PROVE  IInv'
  <2>1. fd \in Fd /\ fd \notin DOMAIN fds /\ (fd \in DOMAIN UDP_SOCKS => fd \in astray) /\ fd # -1
    BY FreeFd, FdIsNat
  <2>2. thr'[t] = [c EXCEPT !.fd = fd, !.step = "exit"] /\ \A u \in Thread \ {t} : thr'[u] = thr[u]
    BY <1>1, <1>4
  <2>3. thr'[t] \in SocketCall /\ thr'[t].fd = fd /\ thr'[t].step = "exit" /\ thr'[t].dgram = c.dgram
        /\ thr'[t].call = "socket" /\ thr' \in [Thread -> Call]
    BY <1>1, <1>4, <2>1, <2>2 DEF SocketCall, Call
  <2>4. Socket(c.dgram) \in Sock
    BY <1>1 DEF Socket, Sock, SocketCall, Peer, IInv, Typed
  <2>5. Typed'
    BY <1>2, <1>4, <2>1, <2>3, <2>4 DEF IInv, Typed, Put
  <2>6. \A u \in Thread : ~On(u, fd)
    BY FreeFd
  <2>7. Frame(t, fd)
    BY <1>1, <1>2, <1>4, <2>1, <2>2, <2>3, <2>6 DEF Frame, SameSock, Reported, Put
  <2>8. CallFine(thr[t])'
    BY <1>2, <1>4, <2>1, <2>3 DEF CallFine, SocketFine, Put, Socket
  <2>9. SockFine(fd)'
    <3>1. On(t, fd)' /\ thr'[t].call = "socket"
      BY <2>3 DEF On, Idle
    <3>2. fds'[fd].id = made + 1 /\ made' = made + 1 /\ made \in Nat
      BY <1>4 DEF Put, Socket, IInv, Typed
    <3>3. fds'[fd].id <= made'
      BY <3>2
    <3>4. QED
      BY <3>1, <3>3 DEF SockFine
  <2>11. fd \in DOMAIN UDP_SOCKS' => EntryFine(fd)'
    BY <1>2, <2>1 DEF EntryFine
  <2>12. Apart'
    BY <1>2, <1>4, NewApart DEF IInv
  <2>10. QED
    BY <2>11, <2>12, <1>1, <1>2, <1>3, <2>1, <2>3, <2>5, <2>7, <2>8, <2>9, QuietStep
<1>5. ASSUME Goto(t, "exit"), UNCHANGED kernel
      PROVE  IInv'
  <2>1. thr' = [thr EXCEPT ![t].step = "exit"] /\ fds' = fds /\ made' = made
    BY <1>5 DEF Goto, kernel
  <2>2. thr'[t] = [c EXCEPT !.step = "exit"] /\ \A u \in Thread \ {t} : thr'[u] = thr[u]
    BY <1>1, <2>1
  <2>3. thr'[t] \in SocketCall /\ thr'[t].fd = -1 /\ thr'[t].step = "exit" /\ thr'[t].dgram = c.dgram
        /\ thr'[t].call = "socket" /\ thr' \in [Thread -> Call]
    BY <1>1, <2>1, <2>2 DEF SocketCall, Call
  <2>4. Typed'
    BY <1>2, <2>1, <2>3 DEF IInv, Typed
  <2>5. Frame(t, -1)
    BY <1>1, <1>2, <2>1, <2>2, <2>3, UdpSocksAssumption DEF Frame, SameSock, Reported
  <2>6. CallFine(thr[t])'
    BY <2>3 DEF CallFine, SocketFine
  <2>7. -1 \notin DOMAIN fds' /\ -1 \notin DOMAIN UDP_SOCKS'
    BY <2>4, UdpSocksAssumption DEF Typed
  <2>8. Apart'
    BY <1>2, <2>1, StaysApart DEF IInv, SameSocks
  <2>9. QED
    BY <2>8, <1>1, <1>2, <1>3, <2>3, <2>4, <2>5, <2>6, <2>7, QuietStep
<1>6. QED
  BY <1>4, <1>5 DEF KernelSocket

LEMMA SocketExitStep ==
  ASSUME IInv, NEW t \in Thread, SocketExit(t)
  PROVE  IInv'
<1> DEFINE c == thr[t]
<1>0. PICK f \in Fd \cup {-1} : f = c.fd
  BY CallFacts, CallFd DEF SocketExit, In
<1>1. /\ c \in SocketCall /\ c.step = "exit" /\ SocketFine(c)
      /\ thr \in [Thread -> Call]
      /\ t \in PENDING_SOCK <=> c.dgram = TRUE
      /\ c.fd \in Fd => \A u \in Thread \ {t} : ~On(u, c.fd)
  BY CallFacts, CallFd DEF SocketExit, In, CallFine, IInv, Typed, Pending
<1>2. /\ UNCHANGED <<muted, fds, made, told, tried, sent, explicit, failed, evicted, refused, strays>>
      /\ astray' = astray \ {f}
      /\ thr' = [thr EXCEPT ![t] = Idle] /\ PENDING_SOCK' = PENDING_SOCK \ {t}
  BY <1>0 DEF SocketExit, PendingKey, Return, kernel, losses
<1>3. thr'[t] = Idle /\ thr' \in [Thread -> Call] /\ \A u \in Thread \ {t} : thr'[u] = thr[u]
  BY <1>1, <1>2 DEF Call
<1>4. c.fd \in Fd \cup {-1} /\ c.dgram \in BOOLEAN /\ \A fd \in Fd : fd # -1
  BY <1>1, FdIsNat DEF SocketCall
<1>5. UDP_SOCKS' = IF c.fd \notin Fd THEN UDP_SOCKS
                  ELSE IF c.dgram = TRUE THEN Put(UDP_SOCKS, f, EMPTY) ELSE Drop(UDP_SOCKS, f)
  <2>0. UDP_SOCKS' = IF c.fd < 0 THEN UDP_SOCKS ELSE Recorded(c.fd, t \in PENDING_SOCK)
    BY DEF SocketExit, PendingKey
  <2>1. CASE c.fd = -1
    <3>1. -1 \notin Fd /\ c.fd < 0
      BY <1>4, <2>1
    <3>2. QED
      BY <2>0, <3>1, <2>1
  <2>2. CASE c.fd \in Fd
    <3>1. ~(c.fd < 0)
      BY <2>2, FdIsNat
    <3>2. QED
      BY <1>0, <1>1, <2>0, <2>2, <3>1 DEF Recorded
  <2>3. QED
    BY <1>4, <2>1, <2>2
<1>6. Typed'
  <2>1. EMPTY \in Entry
    BY DEF EMPTY, Entry, Peer
  <2>2. DOMAIN UDP_SOCKS' \subseteq Fd /\ UDP_SOCKS' \in [DOMAIN UDP_SOCKS' -> Entry]
    <3>1. CASE c.fd \notin Fd
      BY <1>5, <3>1 DEF IInv, Typed
    <3>2. CASE c.fd \in Fd /\ c.dgram = TRUE
      BY <1>0, <1>5, <2>1, <3>2 DEF IInv, Typed, Put
    <3>3. CASE c.fd \in Fd /\ c.dgram # TRUE
      BY <1>5, <3>3 DEF IInv, Typed, Drop
    <3>4. QED
      BY <3>1, <3>2, <3>3
  <2>3. QED
    BY <1>2, <1>3, <2>2 DEF IInv, Typed
<1>7. Frame(t, f)
  <2>1. \A g \in Fd \ {f} : /\ g \in DOMAIN UDP_SOCKS' <=> g \in DOMAIN UDP_SOCKS
                            /\ g \in DOMAIN UDP_SOCKS => UDP_SOCKS'[g] = UDP_SOCKS[g]
    BY <1>5 DEF Put, Drop
  <2>2. QED
    BY <1>0, <1>1, <1>2, <1>3, <2>1 DEF Frame, SameSock, Reported
<1>8. CallFine(thr[t])'
  BY <1>3 DEF CallFine, Idle
<1>9. f \in DOMAIN fds' => SockFine(f)'
  <2> SUFFICES ASSUME f \in DOMAIN fds  PROVE SockFine(f)'
    BY <1>2
  <2>1. f \in Fd /\ fds[f].dgram = c.dgram
    BY <1>0, <1>1, <1>4 DEF SocketFine, IInv, Typed
  <2>2. fds[f].dgram = TRUE => f \in DOMAIN UDP_SOCKS'
    BY <1>0, <1>5, <2>1 DEF Put
  <2>3. SockFine(f)
    BY DEF IInv, AllFine
  <2>4. QED
    BY <1>2, <2>2, <2>3 DEF SockFine
<1>10. f \in DOMAIN UDP_SOCKS' => EntryFine(f)'
  <2> SUFFICES ASSUME f \in DOMAIN UDP_SOCKS'  PROVE EntryFine(f)'
    OBVIOUS
  <2>1. f \in Fd /\ f # -1
    BY <1>4, <1>6 DEF Typed
  <2>2. /\ f \in DOMAIN fds /\ fds[f].dgram = c.dgram
        /\ fds[f].peer = NoDest \/ fds[f].id \in strays
    BY <1>0, <1>1, <2>1 DEF SocketFine
  <2>3. c.dgram = TRUE /\ UDP_SOCKS'[f] = EMPTY
    BY <1>0, <1>5, <2>1 DEF Put, Drop
  <2>4. EMPTY.daddr = NoDest /\ EMPTY.reported = FALSE
    BY DEF EMPTY
  <2>5. QED
    BY <1>2, <2>2, <2>3, <2>4 DEF EntryFine
<1>11. ~In(t, "send", "kernel") /\ thr'[t].call # "socket"
  BY <1>1, <1>3 DEF SocketCall, In, Idle
<1>12. \A u \in Thread \ {t} : u \in PENDING_SOCK' <=> u \in PENDING_SOCK
  BY <1>2
<1>13. t \in PENDING_SOCK' <=> thr'[t].call = "socket" /\ thr'[t].dgram = TRUE
  BY <1>2, <1>11
<1>14. Apart'
  BY <1>2, StaysApart DEF IInv, SameSocks
<1>15. QED
  BY <1>14, <1>2, <1>4, <1>6, <1>7, <1>8, <1>9, <1>10, <1>11, <1>12, <1>13, QuietStep

-----------------------------------------------------------------------------
(* close()                                                                 *)

LEMMA CloseEnterStep ==
  ASSUME IInv, ~SHARED, NEW t \in Thread, NEW fd \in Fd, CloseEnter(t, fd)
  PROVE  IInv'
<1> DEFINE c == [call |-> "close", step |-> "kernel", fd |-> fd]
<1>1. /\ UDP_SOCKS' = Drop(UDP_SOCKS, fd) /\ thr' = [thr EXCEPT ![t] = c]
      /\ UNCHANGED <<PENDING_SOCK, muted, fds, made, told, tried, sent, explicit, failed, evicted, refused, strays>>
      /\ astray' = astray \ {fd}
  BY DEF CloseEnter, kernel, losses
<1>2. thr[t] = Idle /\ fd \in DOMAIN fds /\ \A u \in Thread : ~On(u, fd)
  BY Alone DEF CloseEnter
<1>3. /\ c \in CloseCall /\ thr'[t] = c /\ thr' \in [Thread -> Call]
      /\ \A u \in Thread \ {t} : thr'[u] = thr[u]
  BY <1>1 DEF CloseCall, Call, IInv, Typed
<1>4. Typed'
  BY <1>1, <1>3 DEF IInv, Typed, Drop
<1>5. Frame(t, fd)
  BY <1>1, <1>2, <1>3 DEF Frame, SameSock, Reported, Drop
<1>6. CallFine(thr[t])'
  BY <1>1, <1>2, <1>3 DEF CallFine, CloseFine, Drop
<1>7. SockFine(fd)'
  <2>1. On(t, fd)' /\ thr'[t].call = "close" /\ SockFine(fd)
    BY <1>2, <1>3 DEF On, Idle, IInv, AllFine
  <2>2. QED
    BY <1>1, <2>1 DEF SockFine
<1>8. fd \notin DOMAIN UDP_SOCKS'
  BY <1>1 DEF Drop
<1>9. thr'[t].call # "socket"
  BY <1>3
<1>10. Apart'
  BY <1>1, StaysApart DEF IInv, SameSocks
<1>11. QED
  BY <1>10, <1>1, <1>2, <1>4, <1>5, <1>6, <1>7, <1>8, <1>9, IdleFacts, QuietStep

LEMMA KernelCloseStep ==
  ASSUME IInv, NEW t \in Thread, KernelClose(t)
  PROVE  IInv'
<1> DEFINE c == thr[t]
<1>1. /\ c \in CloseCall /\ CloseFine(c) /\ t \notin PENDING_SOCK
      /\ thr \in [Thread -> Call] /\ c # Idle
      /\ c.fd \in Fd => \A u \in Thread \ {t} : ~On(u, c.fd)
  BY CallFacts, CallFd DEF KernelClose, In, CallFine, IInv, Typed
<1>2. PICK f \in Fd : f = c.fd
  BY <1>1 DEF CloseCall
<1>3. /\ fds' = Drop(fds, f) /\ thr' = [thr EXCEPT ![t] = Idle]
      /\ UNCHANGED <<UDP_SOCKS, PENDING_SOCK, muted, made, told, tried, sent, explicit, failed, evicted, refused, astray, strays>>
  BY <1>2 DEF KernelClose, Return, sensor, history, losses, unseen
<1>4. thr'[t] = Idle /\ thr' \in [Thread -> Call] /\ \A u \in Thread \ {t} : thr'[u] = thr[u]
  BY <1>1, <1>3 DEF Call
<1>5. f \notin DOMAIN fds' /\ f \notin DOMAIN UDP_SOCKS'
  BY <1>1, <1>2, <1>3 DEF CloseFine, Drop
<1>6. Typed'
  BY <1>3, <1>4 DEF IInv, Typed, Drop
<1>7. Frame(t, f)
  BY <1>1, <1>2, <1>3, <1>4 DEF Frame, SameSock, Reported, Drop
<1>8. CallFine(thr[t])'
  BY <1>4 DEF CallFine, Idle
<1>9. ~In(t, "send", "kernel") /\ thr'[t].call # "socket"
  BY <1>1, <1>4 DEF CloseCall, In, Idle
<1>10. Apart'
  BY <1>3, StaysApart DEF IInv, SameSocks, Drop
<1>11. QED
  BY <1>10, <1>1, <1>3, <1>5, <1>6, <1>7, <1>8, <1>9, QuietStep

-----------------------------------------------------------------------------
(* connect()                                                               *)

LEMMA ConnectEnterStep ==
  ASSUME IInv, ~SHARED, NEW t \in Thread, NEW fd \in Fd, NEW to \in Peer,
         ConnectEnter(t, fd, to)
  PROVE  IInv'
<1> DEFINE c == [call |-> "connect", fd |-> fd, to |-> to,
                 step |-> IF fd \in DOMAIN UDP_SOCKS THEN "record" ELSE "kernel"]
<1>1. /\ thr' = [thr EXCEPT ![t] = c]
      /\ UNCHANGED <<UDP_SOCKS, PENDING_SOCK, muted, fds, made, told, tried, sent, explicit, failed, evicted, refused, astray, strays>>
  BY DEF ConnectEnter, sensor, kernel, history, losses, unseen
<1>2. thr[t] = Idle /\ fd \in DOMAIN fds /\ \A u \in Thread : ~On(u, fd)
  BY Alone DEF ConnectEnter
<1>3. /\ c \in ConnectCall /\ thr'[t] = c /\ thr' \in [Thread -> Call]
      /\ \A u \in Thread \ {t} : thr'[u] = thr[u]
  BY <1>1 DEF ConnectCall, Call, IInv, Typed
<1>4. Typed'
  BY <1>1, <1>3 DEF IInv, Typed
<1>5. Frame(t, fd)
  BY <1>1, <1>2, <1>3 DEF Frame, SameSock, Reported
<1>6. fd \in DOMAIN UDP_SOCKS => EntryFine(fd)
  BY DEF IInv, AllFine
<1>7. CallFine(thr[t])'
  BY <1>1, <1>2, <1>3, <1>6 DEF CallFine, ConnectFine, EntryFine
<1>8. SockFine(fd)'
  BY <1>1, <1>2 DEF SockFine, On, IInv, AllFine
<1>9. fd \in DOMAIN UDP_SOCKS' => EntryFine(fd)'
  BY <1>1, <1>2, <1>6 DEF EntryFine, On, Reported
<1>10. thr'[t].call # "socket"
  BY <1>3
<1>11. Apart'
  BY <1>1, StaysApart DEF IInv, SameSocks
<1>12. QED
  BY <1>11, <1>1, <1>2, <1>4, <1>5, <1>7, <1>8, <1>9, <1>10, IdleFacts, QuietStep

LEMMA ConnectRecordStep ==
  ASSUME IInv, NEW t \in Thread, ConnectRecord(t)
  PROVE  IInv'
<1> DEFINE c == thr[t]
<1>1. /\ c \in ConnectCall /\ c.step = "record" /\ ConnectFine(c) /\ t \notin PENDING_SOCK
      /\ thr \in [Thread -> Call] /\ c # Idle
      /\ c.fd \in Fd => \A u \in Thread \ {t} : ~On(u, c.fd)
  BY CallFacts, CallFd DEF ConnectRecord, In, CallFine, IInv, Typed
<1>2. PICK f \in Fd : f = c.fd
  BY <1>1 DEF ConnectCall
<1> DEFINE e == NextPeer(f, c.to)
<1>3. /\ UDP_SOCKS' = Put(UDP_SOCKS, f, e) /\ thr' = [thr EXCEPT ![t].step = "kernel"]
      /\ UNCHANGED <<PENDING_SOCK, muted, fds, made, told, tried, sent, explicit, failed, evicted, refused, astray, strays>>
  BY <1>2 DEF ConnectRecord, Goto, kernel, history, losses, unseen
<1>4. e \in Entry /\ e.daddr = c.to /\ e.reported = FALSE
  BY <1>1 DEF NextPeer, EMPTY, Entry, Peer, ConnectCall
<1>5. /\ thr'[t] = [c EXCEPT !.step = "kernel"]
      /\ \A u \in Thread \ {t} : thr'[u] = thr[u]
  BY <1>1, <1>3
<1>6. /\ thr'[t] \in ConnectCall /\ thr'[t].fd = f /\ thr'[t].to = c.to
      /\ thr'[t].step = "kernel" /\ thr'[t].call = "connect" /\ thr' \in [Thread -> Call]
  BY <1>1, <1>2, <1>3, <1>5 DEF ConnectCall, Call
<1>7. f \in DOMAIN UDP_SOCKS' /\ UDP_SOCKS'[f] = e
  BY <1>3 DEF Put
<1>8. f \in DOMAIN fds /\ (fds[f].dgram = TRUE \/ f \in astray)
  BY <1>1, <1>2 DEF ConnectFine
<1> HIDE DEF e
<1>9. Typed'
  BY <1>3, <1>4, <1>6 DEF IInv, Typed, Put
<1>10. Frame(t, f)
  BY <1>1, <1>2, <1>3, <1>5, <1>6 DEF Frame, SameSock, Reported, Put
<1>11. CallFine(thr[t])'
  BY <1>3, <1>4, <1>6, <1>7, <1>8 DEF CallFine, ConnectFine
<1>12. SockFine(f)'
  <2>1. ~\E u \in Thread : On(u, f) /\ thr[u].call = "socket"
    BY <1>1, <1>2 DEF On, ConnectCall
  <2>2. SockFine(f)
    BY <1>8 DEF IInv, AllFine
  <2>3. QED
    BY <1>3, <1>7, <2>1, <2>2 DEF SockFine
<1>13. EntryFine(f)'
  <2>1. On(t, f)'
    BY <1>6 DEF On, Idle
  <2>2. QED
    BY <1>3, <1>4, <1>6, <1>7, <1>8, <2>1 DEF EntryFine
<1>14. ~In(t, "send", "kernel") /\ thr'[t].call # "socket"
  BY <1>1, <1>6 DEF ConnectCall, In
<1>15. Apart'
  BY <1>3, StaysApart DEF IInv, SameSocks
<1>16. QED
  BY <1>15, <1>1, <1>3, <1>9, <1>10, <1>11, <1>12, <1>13, <1>14, QuietStep

LEMMA KernelConnectStep ==
  ASSUME IInv, NEW t \in Thread, KernelConnect(t)
  PROVE  IInv'
<1> DEFINE c == thr[t]
<1>1. /\ c \in ConnectCall /\ c.step = "kernel" /\ ConnectFine(c) /\ t \notin PENDING_SOCK
      /\ thr \in [Thread -> Call] /\ c # Idle
      /\ c.fd \in Fd => \A u \in Thread \ {t} : ~On(u, c.fd)
  BY CallFacts, CallFd DEF KernelConnect, In, CallFine, IInv, Typed
<1>2. PICK f \in Fd : f = c.fd
  BY <1>1 DEF ConnectCall
<1>3. f \in DOMAIN fds /\ c.to \in Peer
  BY <1>1, <1>2 DEF ConnectFine, ConnectCall
<1>4. /\ \/ /\ fds' = [g \in DOMAIN fds |-> IF fds[g].id = fds[f].id
                                            THEN [fds[g] EXCEPT !.peer = c.to] ELSE fds[g]]
            /\ failed' = failed
         \/ /\ failed' = failed \cup {<<fds[g].id, c.to>> : g \in {f}} /\ fds' = fds
      /\ thr' = [thr EXCEPT ![t] = Idle]
      /\ UNCHANGED <<UDP_SOCKS, PENDING_SOCK, muted, made, told, tried, sent, explicit, evicted, refused, astray, strays>>
  <2>1. {f} \cap DOMAIN fds = {f}
    BY <1>3
  <2>2. QED
    BY <1>2, <1>3, <2>1 DEF KernelConnect, Return, sensor, losses, unseen
<1>5. thr'[t] = Idle /\ thr' \in [Thread -> Call] /\ \A u \in Thread \ {t} : thr'[u] = thr[u]
  BY <1>1, <1>4 DEF Call
\* The socket has its new peer, or the failure is on record.
<1>6. /\ DOMAIN fds' = DOMAIN fds
      /\ \A g \in DOMAIN fds : /\ fds'[g] \in Sock
                               /\ fds'[g].id = fds[g].id /\ fds'[g].dgram = fds[g].dgram
                               /\ fds[g].id # fds[f].id => fds'[g] = fds[g]
      /\ fds'[f].peer = c.to \/ <<fds[f].id, c.to>> \in failed'
      /\ failed \subseteq failed'
  <2>1. \A g \in DOMAIN fds : fds[g] \in Sock
    BY DEF IInv, Typed
  <2>2. CASE fds' = fds /\ failed' = failed \cup {<<fds[g].id, c.to>> : g \in {f}}
    BY <2>1, <2>2
  <2>3. CASE /\ fds' = [g \in DOMAIN fds |-> IF fds[g].id = fds[f].id
                                            THEN [fds[g] EXCEPT !.peer = c.to] ELSE fds[g]]
             /\ failed' = failed
    <3>1. \A g \in DOMAIN fds : [fds[g] EXCEPT !.peer = c.to] = [id |-> fds[g].id, dgram |-> fds[g].dgram, peer |-> c.to]
      BY <2>1 DEF Sock
    <3>2. \A g \in DOMAIN fds : fds'[g] = IF fds[g].id = fds[f].id
                  THEN [id |-> fds[g].id, dgram |-> fds[g].dgram, peer |-> c.to] ELSE fds[g]
      BY <2>3, <3>1
    <3>3. \A g \in DOMAIN fds : [id |-> fds[g].id, dgram |-> fds[g].dgram, peer |-> c.to] \in Sock
      BY <1>3, <2>1 DEF Sock
    <3>4. QED
      BY <1>3, <2>1, <2>3, <3>2, <3>3
  <2>4. QED
    BY <1>4, <2>2, <2>3
<1>7. fds' \in [DOMAIN fds' -> Sock]
  <2>1. CASE fds' = fds
    BY <2>1 DEF IInv, Typed
  <2>2. CASE fds' = [g \in DOMAIN fds |-> IF fds[g].id = fds[f].id
                                          THEN [fds[g] EXCEPT !.peer = c.to] ELSE fds[g]]
    BY <1>6, <2>2
  <2>3. QED
    BY <1>4, <2>1, <2>2
<1>8. \A g \in DOMAIN fds \ {f} : SameSock(g)
  <2> TAKE g \in DOMAIN fds \ {f}
  <2>1. fds[g].id = fds[f].id => fds[g].id \in strays
    BY <1>3 DEF IInv, Apart
  <2>2. QED
    BY <1>6, <2>1 DEF SameSock
<1>9. Typed'
  BY <1>4, <1>5, <1>6, <1>7 DEF IInv, Typed
<1>10. Frame(t, f)
  BY <1>1, <1>2, <1>4, <1>5, <1>6, <1>8 DEF Frame, Reported
<1>11. CallFine(thr[t])'
  BY <1>5 DEF CallFine, Idle
<1>12. SockFine(f)'
  <2>1. \A u \in Thread : On(u, f) /\ thr[u].call \in {"socket", "close"} => On(u, f)' /\ thr'[u] = thr[u]
    BY <1>1, <1>2, <1>5 DEF On, ConnectCall
  <2>2. SockFine(f)
    BY <1>3 DEF IInv, AllFine
  <2>3. QED
    BY <1>3, <1>4, <1>6, <2>1, <2>2 DEF SockFine
<1>13. f \in DOMAIN UDP_SOCKS' => EntryFine(f)'
  <2> SUFFICES ASSUME f \in DOMAIN UDP_SOCKS  PROVE EntryFine(f)'
    BY <1>4
  <2>1. EntryFine(f)
    BY DEF IInv, AllFine
  <2>2. UDP_SOCKS[f].daddr = c.to /\ UDP_SOCKS[f].reported = FALSE
    BY <1>1, <1>2 DEF ConnectFine
  <2>3. QED
    BY <1>3, <1>4, <1>6, <2>1, <2>2 DEF EntryFine
<1>14. ~In(t, "send", "kernel") /\ thr'[t].call # "socket"
  BY <1>1, <1>5 DEF ConnectCall, In, Idle
<1>15. Apart'
  BY <1>4, <1>6, StaysApart DEF IInv, SameSocks
<1>16. QED
  BY <1>1, <1>4, <1>9, <1>10, <1>11, <1>12, <1>13, <1>14, <1>15, QuietStep

-----------------------------------------------------------------------------
(* sendto(), sendmsg(), sendmmsg()                                         *)

\* A send that reports nothing has nothing new to report.
LEMMA NothingNew ==
  ASSUME IInv, NEW fd \in DOMAIN fds, \A u \in Thread : ~On(u, fd),
         ~Reportable(fd, NoDest), ~muted,
         fds[fd].dgram = TRUE, fds[fd].peer # NoDest
  PROVE  Lost(fds[fd].id) \/ Reported(<<fds[fd].id, fds[fd].peer>>)
<1> DEFINE entry == UDP_SOCKS[fd]
           id    == fds[fd].id
<1> SUFFICES ASSUME ~Lost(id)
             PROVE  Reported(<<id, fds[fd].peer>>)
  OBVIOUS
<1>1. id \notin explicit /\ id \notin evicted /\ id \notin strays /\ \A x : <<id, x>> \notin failed
  <2>1. ASSUME NEW x, <<id, x>> \in failed  PROVE FALSE
    <3>1. <<id, x>>[1] \in {f[1] : f \in failed}
      BY <2>1
    <3>2. QED
      BY <3>1 DEF Lost
  <2>2. QED
    BY <2>1 DEF Lost
<1>2. fd \notin astray
  BY <1>1, IdleStray
<1>3. fd \in DOMAIN UDP_SOCKS
  BY <1>1, <1>2 DEF IInv, AllFine, SockFine
<1>4. EntryFine(fd)
  BY <1>3 DEF IInv, AllFine
<1>5. entry.daddr = fds[fd].peer
  BY <1>1, <1>2, <1>4 DEF EntryFine
<1>6. entry = [daddr |-> entry.daddr, reported |-> TRUE]
  BY <1>3, <1>5 DEF Reportable, Destination
<1>7. entry.reported = TRUE
  BY <1>6
<1>8. QED
  BY <1>2, <1>4, <1>5, <1>7 DEF EntryFine

LEMMA SendEnterStep ==
  ASSUME IInv, ~SHARED, NEW t \in Thread, NEW fd \in Fd, NEW to \in Peer,
         SendEnter(t, fd, to)
  PROVE  IInv'
<1>0. PICK c : c = [call |-> "send", fd |-> fd, to |-> to,
                  step |-> IF Reportable(fd, to) THEN "report" ELSE "kernel",
                  daddr |-> IF Reportable(fd, to) THEN Destination(fd, to) ELSE NoDest,
                  id |-> fds[fd].id, watched |-> ~muted]
  OBVIOUS
<1>1. /\ thr' = [thr EXCEPT ![t] = c]
      /\ explicit' = IF to # NoDest THEN explicit \cup {fds[fd].id} ELSE explicit
      /\ UNCHANGED <<UDP_SOCKS, PENDING_SOCK, muted, fds, made, told, tried, sent, failed, evicted, refused, astray, strays>>
  BY <1>0 DEF SendEnter, sensor, kernel, losses, unseen
<1>2. thr[t] = Idle /\ fd \in DOMAIN fds /\ \A u \in Thread : ~On(u, fd)
  BY Alone DEF SendEnter
<1>3. fds[fd] \in Sock /\ (fd \in DOMAIN UDP_SOCKS => UDP_SOCKS[fd] \in Entry)
  BY <1>2 DEF IInv, Typed
<1>4. Reportable(fd, to) =>
        /\ ~muted /\ fd \in DOMAIN UDP_SOCKS /\ Destination(fd, to) # NoDest
        /\ UDP_SOCKS[fd] # [daddr |-> Destination(fd, to), reported |-> TRUE]
        /\ Destination(fd, to) \in Peer
  BY <1>3 DEF Reportable, Destination, Entry
<1>5. fd \in DOMAIN UDP_SOCKS => EntryFine(fd)
  BY DEF IInv, AllFine
\* An unreported entry points where the socket does, or where a connect failed
\* to point it.
<1>6. Reportable(fd, to) =>
        /\ fds[fd].dgram = TRUE \/ (fd \in astray /\ fds[fd].id \in strays)
        /\ \/ Destination(fd, to) = IF to # NoDest THEN to ELSE fds[fd].peer
           \/ <<fds[fd].id, Destination(fd, to)>> \in failed \/ fds[fd].id \in strays
  <2> SUFFICES ASSUME Reportable(fd, to), fd \notin astray
               PROVE  /\ fds[fd].dgram = TRUE
                      /\ to = NoDest => \/ UDP_SOCKS[fd].daddr = fds[fd].peer \/ fds[fd].id \in strays
                                        \/ <<fds[fd].id, UDP_SOCKS[fd].daddr>> \in failed
    BY <1>2, IdleStray DEF Destination
  <2>1. EntryFine(fd) /\ UDP_SOCKS[fd] \in Entry
    BY <1>3, <1>4, <1>5
  <2>2. to = NoDest => UDP_SOCKS[fd].reported # TRUE
    BY <1>4, <2>1 DEF Entry, Destination
  <2>3. QED
    BY <1>2, <2>1, <2>2 DEF EntryFine
<1>7. c \in SendCall
  BY <1>0, <1>2, <1>3, <1>4 DEF SendCall, Sock, Peer
<1>8. /\ thr'[t] = c /\ thr' \in [Thread -> Call]
      /\ \A u \in Thread \ {t} : thr'[u] = thr[u]
  BY <1>1, <1>7 DEF Call, IInv, Typed
<1>9. /\ c.call = "send" /\ c.fd = fd /\ c.to = to /\ c.id = fds[fd].id
      /\ c.watched = TRUE <=> ~muted
      /\ IF Reportable(fd, to) THEN c.step = "report" /\ c.daddr = Destination(fd, to)
                               ELSE c.step = "kernel" /\ c.daddr = NoDest
  BY <1>0
<1>10. Typed'
  BY <1>1, <1>8 DEF IInv, Typed
<1>11. Frame(t, fd)
  BY <1>1, <1>2, <1>8, <1>9 DEF Frame, SameSock, Reported
<1>12. SendFine(c)'
  <2>1. strays' = strays /\ failed' = failed /\ astray' = astray
    BY <1>1
  <2>2. CASE Reportable(fd, to)
    BY <2>1, <1>1, <1>2, <1>4, <1>6, <1>9, <2>2 DEF SendFine
  <2>3. CASE ~Reportable(fd, to)
    <3>1. /\ to = NoDest /\ c.watched = TRUE /\ fds[fd].dgram = TRUE /\ fds[fd].peer # NoDest =>
              Lost(fds[fd].id) \/ Reported(<<fds[fd].id, fds[fd].peer>>)
      BY <1>2, <1>9, <2>3, NothingNew
    <3>2. QED
      BY <1>1, <1>2, <1>9, <2>1, <2>3, <3>1 DEF SendFine, Reported, Lost
  <2>4. QED
    BY <2>2, <2>3
<1>13. CallFine(thr[t])'
  BY <1>8, <1>9, <1>12 DEF CallFine
<1>14. SockFine(fd)'
  BY <1>1, <1>2 DEF SockFine, On, IInv, AllFine
<1>15. fd \in DOMAIN UDP_SOCKS' => EntryFine(fd)'
  BY <1>1, <1>2, <1>5 DEF EntryFine, On, Reported
<1>16. thr'[t].call # "socket"
  BY <1>8, <1>9
<1>17. Apart'
  BY <1>1, StaysApart DEF IInv, SameSocks
<1>18. QED
  BY <1>17, <1>1, <1>2, <1>10, <1>11, <1>13, <1>14, <1>15, <1>16, IdleFacts, QuietStep

LEMMA Appended ==
  ASSUME NEW S, NEW q \in Seq(S), NEW x \in S
  PROVE  /\ Append(q, x) \in Seq(S)
         /\ Len(q) \in Nat /\ Len(Append(q, x)) = Len(q) + 1
         /\ DOMAIN q = 1..Len(q) /\ DOMAIN Append(q, x) = 1..(Len(q) + 1)
         /\ \A i \in 1..Len(q) : Append(q, x)[i] = q[i] /\ i \in 1..(Len(q) + 1)
         /\ Append(q, x)[Len(q) + 1] = x
         /\ \A i \in 1..(Len(q) + 1) : i \notin 1..Len(q) => i = Len(q) + 1
OBVIOUS

LEMMA SendReportStep ==
  ASSUME IInv, NEW t \in Thread, SendReport(t)
  PROVE  IInv'
<1>0. PICK c : c = thr[t]
  OBVIOUS
<1>1. /\ c \in SendCall /\ c.step = "report" /\ SendFine(c) /\ t \notin PENDING_SOCK
      /\ thr \in [Thread -> Call] /\ c # Idle
      /\ c.fd \in Fd => \A u \in Thread \ {t} : ~On(u, c.fd)
  BY <1>0, CallFacts, CallFd DEF SendReport, In, CallFine, IInv, Typed
<1>2. PICK f \in Fd : f = c.fd
  BY <1>1 DEF SendCall
<1>3. PICK e : e = [daddr |-> c.daddr, reported |-> TRUE]
  OBVIOUS
<1>4. PICK s : s = <<c.id, c.daddr>>
  OBVIOUS
<1>5. /\ UDP_SOCKS' = Put(UDP_SOCKS, f, e) /\ thr' = [thr EXCEPT ![t].step = "kernel"]
      /\ \/ told' = Append(told, s) /\ UNCHANGED refused
         \/ refused' = refused \cup {s} /\ UNCHANGED told
      /\ UNCHANGED <<PENDING_SOCK, muted, fds, made, tried, sent, explicit, failed, evicted, astray, strays>>
  BY <1>0, <1>2, <1>3, <1>4 DEF SendReport, Goto, kernel, unseen
<1>6. e \in Entry /\ s \in Nat \X Peer /\ told \in Seq(Nat \X Peer)
  BY <1>1, <1>3, <1>4 DEF Entry, SendCall, IInv, Typed
<1>7. /\ thr'[t] = [c EXCEPT !.step = "kernel"]
      /\ \A u \in Thread \ {t} : thr'[u] = thr[u]
  BY <1>0, <1>1, <1>5
<1>8. PICK d : d = thr'[t]
  OBVIOUS
<1>9. /\ d \in SendCall /\ d.call = "send" /\ d.step = "kernel" /\ d.fd = f
      /\ d.to = c.to /\ d.daddr = c.daddr /\ d.id = c.id /\ d.watched = c.watched
      /\ thr' \in [Thread -> Call]
  BY <1>1, <1>2, <1>5, <1>7, <1>8 DEF SendCall, Call
<1>10. f \in DOMAIN UDP_SOCKS' /\ UDP_SOCKS'[f] = e
  BY <1>5 DEF Put
<1>11. /\ f \in DOMAIN fds /\ c.id = fds[f].id /\ c.daddr # NoDest
       /\ fds[f].dgram = TRUE \/ (f \in astray /\ c.id \in strays)
       /\ \/ c.daddr = IF c.to # NoDest THEN c.to ELSE fds[f].peer
          \/ <<c.id, c.daddr>> \in failed \/ c.id \in strays
       /\ c.to # NoDest => c.id \in explicit
  BY <1>1, <1>2 DEF SendFine
<1>12. told' \in Seq(Nat \X Peer) /\ \A x : Contains(told, x) => Contains(told', x)
  <2>1. CASE told' = told
    BY <1>6, <2>1
  <2>2. CASE told' = Append(told, s)
    BY <1>6, <2>2, Appended DEF Contains
  <2>3. QED
    BY <1>5, <2>1, <2>2
<1>13. Typed'
  BY <1>5, <1>6, <1>9, <1>12 DEF IInv, Typed, Put
\* Told or refused, the report is accounted for.
<1>14. Reported(s)' /\ \A x : Reported(x) => Reported(x)'
  <2>1. Contains(told', s) \/ s \in refused'
    BY <1>5, <1>6, Appended DEF Contains
  <2>2. QED
    BY <1>5, <1>12, <2>1 DEF Reported
<1>15. Frame(t, f)
  BY <1>0, <1>1, <1>2, <1>5, <1>7, <1>8, <1>9, <1>14 DEF Frame, SameSock, Put
<1>16. CallFine(thr[t])'
  <2>1. SendFine(d)'
    <3>1. /\ strays' = strays /\ failed' = failed /\ explicit' = explicit /\ evicted' = evicted
          /\ fds' = fds /\ astray' = astray
      BY <1>5
    <3>2. c.watched = TRUE
      BY <1>1, <1>11 DEF SendFine
    <3>3. CASE c.id \in strays
      BY <1>9, <1>11, <3>1, <3>2, <3>3 DEF SendFine, Lost
    <3>4. CASE <<c.id, c.daddr>> \in failed
      <4>1. <<c.id, c.daddr>>[1] \in {g[1] : g \in failed}
        BY <3>4
      <4>2. Lost(c.id)'
        BY <3>1, <4>1 DEF Lost
      <4>3. QED
        BY <1>9, <1>11, <3>1, <3>2, <3>4, <4>2 DEF SendFine
    <3>5. CASE c.daddr = IF c.to # NoDest THEN c.to ELSE fds[f].peer
      BY <1>4, <1>9, <1>11, <1>14, <3>1, <3>2, <3>5 DEF SendFine
    <3>6. QED
      BY <1>11, <3>3, <3>4, <3>5
  <2>2. CallFine(d)'
    BY <1>9, <2>1 DEF CallFine
  <2>3. QED
    BY <1>8, <2>2
<1>17. SockFine(f)'
  <2>1. ~\E u \in Thread : On(u, f) /\ thr[u].call = "socket"
    BY <1>0, <1>1, <1>2 DEF On, SendCall
  <2>2. SockFine(f)
    BY <1>11 DEF IInv, AllFine
  <2>3. QED
    BY <1>5, <1>10, <2>1, <2>2 DEF SockFine
<1>18. EntryFine(f)'
  <2>1. e.daddr = c.daddr /\ e.reported = TRUE
    BY <1>3
  <2>2. \/ e.daddr = fds[f].peer \/ fds[f].id \in explicit
        \/ <<fds[f].id, e.daddr>> \in failed \/ fds[f].id \in strays
    BY <1>11, <2>1
  <2>3. Reported(<<fds[f].id, e.daddr>>)'
    BY <1>4, <1>5, <1>11, <1>14, <2>1
  <2>4. f \notin astray => fds[f].dgram = TRUE
    BY <1>11
  <2>5. QED
    BY <1>5, <1>10, <1>11, <2>1, <2>2, <2>3, <2>4 DEF EntryFine
<1>19. AllFine'
  BY <1>13, <1>15, <1>16, <1>17, <1>18, StaysFine DEF IInv
<1>20. Pending'
  BY <1>1, <1>5, <1>8, <1>9, <1>15, StaysPending DEF IInv
<1>21. NoPhantom'
  <2> SUFFICES ASSUME NEW i \in DOMAIN told'
               PROVE  \/ told'[i] \in tried \cup failed \/ told'[i][1] \in strays
                      \/ \E u \in Thread : /\ thr'[u].call = "send" /\ thr'[u].step = "kernel"
                                           /\ thr'[u].daddr # NoDest
                                           /\ <<thr'[u].id, thr'[u].daddr>> = told'[i]
    BY <1>5 DEF NoPhantom
  <2>0. /\ i \in DOMAIN told => told'[i] = told[i]
        /\ i \notin DOMAIN told => told'[i] = s
    <3>1. CASE told' = told
      BY <3>1
    <3>2. CASE told' = Append(told, s)
      <4>1. /\ Len(told) \in Nat /\ DOMAIN told = 1..Len(told)
            /\ DOMAIN told' = 1..(Len(told) + 1)
            /\ \A k \in 1..Len(told) : told'[k] = told[k]
            /\ told'[Len(told) + 1] = s
        BY <1>6, <3>2, Appended
      <4>2. i \in 1..Len(told) \/ i = Len(told) + 1
        BY <4>1
      <4>3. QED
        BY <4>1, <4>2
    <3>3. QED
      BY <1>5, <3>1, <3>2
  <2>1. CASE i \in DOMAIN told
    <3>1. told'[i] = told[i]
      BY <2>0, <2>1
    <3>2. \A u \in Thread : thr[u].call = "send" /\ thr[u].step = "kernel" => thr'[u] = thr[u]
      BY <1>0, <1>1, <1>7
    <3>3. QED
      BY <2>1, <3>1, <3>2 DEF IInv, NoPhantom
  <2>2. CASE i \notin DOMAIN told
    <3>1. told'[i] = s
      BY <2>0, <2>2
    <3>2. QED
      BY <1>4, <1>8, <1>9, <1>11, <3>1
  <2>3. QED
    BY <2>1, <2>2
<1>22. Apart'
  BY <1>5, StaysApart DEF IInv, SameSocks
<1>23. QED
  BY <1>22, <1>5, <1>13, <1>15, <1>19, <1>20, <1>21, StaysExclusive, StaysReported DEF IInv

LEMMA KernelSendStep ==
  ASSUME IInv, NEW t \in Thread, KernelSend(t)
  PROVE  IInv'
<1>0. PICK c : c = thr[t]
  OBVIOUS
<1>1. /\ c \in SendCall /\ c.step = "kernel" /\ SendFine(c) /\ t \notin PENDING_SOCK
      /\ thr \in [Thread -> Call] /\ c # Idle
      /\ c.fd \in Fd => \A u \in Thread \ {t} : ~On(u, c.fd)
  BY <1>0, CallFacts, CallFd DEF KernelSend, In, CallFine, IInv, Typed
<1>2. PICK f \in Fd : f = c.fd
  BY <1>1 DEF SendCall
<1>3. f \in DOMAIN fds /\ c.id = fds[f].id
  BY <1>1, <1>2 DEF SendFine
<1> DEFINE to   == IF c.to # NoDest THEN c.to ELSE fds[f].peer
           goes == fds[f].dgram = TRUE /\ to # NoDest /\ c.watched = TRUE
<1>4. /\ thr' = [thr EXCEPT ![t] = Idle]
      /\ UNCHANGED <<UDP_SOCKS, PENDING_SOCK, muted, fds, made, told, explicit, failed, evicted, refused, astray, strays>>
  BY DEF KernelSend, Return, sensor, kernel, losses, unseen
<1>5. /\ tried' = IF goes THEN tried \cup {<<c.id, to>>} ELSE tried
      /\ sent' = sent \/ (goes /\ sent' = sent \cup {<<c.id, to>>})
  <2>1. fds[f].dgram \in BOOLEAN /\ c.watched \in BOOLEAN
    BY <1>1, <1>3 DEF IInv, Typed, Sock, SendCall
  <2>2. CASE fds[f].dgram = TRUE
    BY <1>0, <1>2, <1>3, <2>1, <2>2 DEF KernelSend
  <2>3. CASE fds[f].dgram = FALSE
    BY <1>0, <1>2, <1>3, <2>1, <2>3 DEF KernelSend
  <2>4. QED
    BY <2>1, <2>2, <2>3
<1>6. thr'[t] = Idle /\ thr' \in [Thread -> Call] /\ \A u \in Thread \ {t} : thr'[u] = thr[u]
  BY <1>1, <1>4 DEF Call
<1>7. Typed'
  BY <1>4, <1>6 DEF IInv, Typed
<1>8. Frame(t, f)
  BY <1>0, <1>1, <1>2, <1>4, <1>6 DEF Frame, SameSock, Reported
<1>9. CallFine(thr[t])'
  BY <1>6 DEF CallFine, Idle
<1>10. SockFine(f)'
  <2>1. \A u \in Thread : On(u, f) /\ thr[u].call \in {"socket", "close"} => On(u, f)' /\ thr'[u] = thr[u]
    BY <1>0, <1>1, <1>2, <1>6 DEF On, SendCall
  <2>2. SockFine(f)
    BY <1>3 DEF IInv, AllFine
  <2>3. QED
    BY <1>4, <2>1, <2>2 DEF SockFine
<1>11. f \in DOMAIN UDP_SOCKS' => EntryFine(f)'
  <2> SUFFICES ASSUME f \in DOMAIN UDP_SOCKS  PROVE EntryFine(f)'
    BY <1>4
  <2>1. EntryFine(f)
    BY DEF IInv, AllFine
  <2>2. ~\E u \in Thread : On(u, f) /\ thr[u].call = "connect" /\ thr[u].step = "kernel"
    BY <1>0, <1>1, <1>2 DEF On, SendCall
  <2>3. QED
    BY <1>4, <2>1, <2>2 DEF EntryFine, Reported
<1>12. AllFine'
  BY <1>7, <1>8, <1>9, <1>10, <1>11, StaysFine DEF IInv
<1>13. Pending'
  BY <1>1, <1>4, <1>6, <1>8, StaysPending DEF IInv, Idle
\* The call that was about to send what it reported has.
<1>14. NoPhantom'
  <2> SUFFICES ASSUME NEW i \in DOMAIN told, told[i] \notin tried' \cup failed, told[i][1] \notin strays
               PROVE  \E u \in Thread : /\ thr'[u].call = "send" /\ thr'[u].step = "kernel"
                                        /\ thr'[u].daddr # NoDest
                                        /\ <<thr'[u].id, thr'[u].daddr>> = told[i]
    BY <1>4 DEF NoPhantom
  <2>1. PICK u \in Thread : /\ thr[u].call = "send" /\ thr[u].step = "kernel"
                            /\ thr[u].daddr # NoDest
                            /\ <<thr[u].id, thr[u].daddr>> = told[i]
    BY <1>5 DEF IInv, NoPhantom
  <2>2. CASE u = t
    <3>1. c.daddr # NoDest /\ told[i] = <<c.id, c.daddr>>
      BY <1>0, <2>1, <2>2
    <3>2. c.watched = TRUE /\ fds[f].dgram = TRUE /\ c.daddr = to
      <4>1. c.id \notin strays /\ <<c.id, c.daddr>> \notin failed
        BY <3>1
      <4>2. QED
        BY <1>1, <1>2, <3>1, <4>1 DEF SendFine
    <3>3. QED
      BY <1>5, <3>1, <3>2
  <2>3. CASE u # t
    BY <1>6, <2>1, <2>3
  <2>4. QED
    BY <2>2, <2>3
\* What leaves was reported, unless it could not be.
<1>15. ConnectedSendsReported'
  <2>1. \A s \in sent : Lost(s[1]) \/ Reported(s)
    BY SendsReported DEF IInv
  <2>2. goes => Lost(c.id) \/ Reported(<<c.id, to>>)
    BY <1>1, <1>2, <1>3 DEF SendFine, Lost
  <2>3. \A s \in sent' : Lost(s[1]) \/ Reported(s)
    BY <1>5, <2>1, <2>2
  <2>4. QED
    BY <1>4, <2>3 DEF ConnectedSendsReported, Lost, Reported
<1>16. Apart'
  BY <1>4, StaysApart DEF IInv, SameSocks
<1>17. QED
  BY <1>7, <1>8, <1>12, <1>13, <1>14, <1>15, <1>16, StaysExclusive DEF IInv

-----------------------------------------------------------------------------
(* Calls no hook watches.                                                  *)

LEMMA AppearStep ==
  ASSUME IInv, NEW t \in Thread, NEW dgram \in BOOLEAN, Appear(t, dgram)
  PROVE  IInv'
<1>1. PICK fd \in LowestFree :
         /\ fds' = Put(fds, fd, Socket(dgram))
         /\ astray' = IF dgram THEN astray \cup {fd} ELSE astray
         /\ strays' = IF dgram \/ fd \in astray THEN strays \cup {made + 1} ELSE strays
  BY DEF Appear
<1>2. /\ UNCHANGED <<UDP_SOCKS, PENDING_SOCK, muted, told, tried, sent, explicit, failed, evicted, refused, thr>>
      /\ made' = made + 1 /\ thr[t] = Idle
  BY DEF Appear, sensor, losses
<1>3. fd \in Fd /\ fd \notin DOMAIN fds /\ (fd \in DOMAIN UDP_SOCKS => fd \in astray) /\ fd # -1
  BY FreeFd, FdIsNat
<1>4. /\ Socket(dgram) \in Sock /\ Socket(dgram).id = made + 1 /\ Socket(dgram).dgram = dgram
      /\ made \in Nat
  BY DEF Socket, Sock, Peer, IInv, Typed
<1>5. Typed'
  <2>1. DOMAIN fds' \subseteq Fd /\ fds' \in [DOMAIN fds' -> Sock]
    BY <1>1, <1>3, <1>4 DEF IInv, Typed, Put
  <2>2. made' \in Nat
    BY <1>2, <1>4
  <2>3. QED
    BY <1>2, <2>1, <2>2 DEF IInv, Typed
<1>6. \A u \in Thread : ~On(u, fd)
  BY FreeFd
<1>7. Frame(t, fd)
  BY <1>1, <1>2, <1>3, <1>6 DEF Frame, SameSock, Reported, Put
<1>8. CallFine(thr[t])'
  BY <1>2 DEF CallFine, Idle
<1>9. SockFine(fd)'
  <2>1. fds'[fd] = Socket(dgram)
    BY <1>1 DEF Put
  <2>2. fds'[fd].id <= made'
    BY <1>2, <1>4, <2>1
  <2>3. fd \in astray' => fds'[fd].id \in strays'
    BY <1>1, <1>4, <2>1
  <2>4. dgram = TRUE => fd \in astray'
    BY <1>1
  <2>5. QED
    BY <1>4, <2>1, <2>2, <2>3, <2>4 DEF SockFine
<1>10. fd \in DOMAIN UDP_SOCKS' => EntryFine(fd)'
  BY <1>1, <1>2, <1>3 DEF EntryFine
<1>11. Apart'
  BY <1>1, NewApart DEF IInv
<1>12. thr'[t].call # "socket" /\ t \notin PENDING_SOCK
  BY <1>2, IdleFacts DEF Idle
<1>13. QED
  BY <1>2, <1>3, <1>5, <1>7, <1>8, <1>9, <1>10, <1>11, <1>12, IdleFacts, QuietStep

LEMMA VanishStep ==
  ASSUME IInv, ~SHARED, NEW t \in Thread, NEW fd \in Fd, Vanish(t, fd)
  PROVE  IInv'
<1>1. /\ fds' = Drop(fds, fd) /\ astray' = astray \cup {fd}
      /\ UNCHANGED <<UDP_SOCKS, PENDING_SOCK, muted, made, told, tried, sent, explicit, failed, evicted, refused, strays, thr>>
  BY DEF Vanish, sensor, losses
<1>2. thr[t] = Idle /\ fd \in DOMAIN fds /\ \A u \in Thread : ~On(u, fd)
  BY Alone DEF Vanish
<1>3. Typed'
  BY <1>1 DEF IInv, Typed, Drop
<1>4. Frame(t, fd)
  BY <1>1, <1>2 DEF Frame, SameSock, Reported, Drop
<1>5. CallFine(thr[t])'
  BY <1>1, <1>2 DEF CallFine, Idle
<1>6. fd \notin DOMAIN fds' /\ EntryFine(fd)'
  BY <1>1 DEF Drop, EntryFine
<1>7. Apart'
  BY <1>1, StaysApart DEF IInv, SameSocks, Drop
<1>8. thr'[t].call # "socket"
  BY <1>1, <1>2 DEF Idle
<1>9. QED
  BY <1>1, <1>2, <1>3, <1>4, <1>5, <1>6, <1>7, <1>8, IdleFacts, QuietStep

LEMMA DupStep ==
  ASSUME IInv, ~SHARED, NEW t \in Thread, NEW from \in Fd, NEW to \in Fd, Dup(t, from, to)
  PROVE  IInv'
<1>1. /\ fds' = Put(fds, to, fds[from]) /\ astray' = astray \cup {to}
      /\ strays' = strays \cup {fds[from].id}
      /\ UNCHANGED <<UDP_SOCKS, PENDING_SOCK, muted, made, told, tried, sent, explicit, failed, evicted, refused, thr>>
  BY DEF Dup, sensor, losses
<1>2. thr[t] = Idle /\ from \in DOMAIN fds /\ \A u \in Thread : ~On(u, to)
  BY Alone DEF Dup, Spare, On
<1>3. /\ DOMAIN fds' = DOMAIN fds \cup {to} /\ fds'[to] = fds[from]
      /\ \A g \in DOMAIN fds \ {to} : fds'[g] = fds[g]
  BY <1>1 DEF Put
<1>4. Typed'
  BY <1>1, <1>2 DEF IInv, Typed, Put
<1>5. Frame(t, to)
  BY <1>1, <1>2, <1>3 DEF Frame, SameSock, Reported
<1>6. CallFine(thr[t])'
  BY <1>1, <1>2 DEF CallFine, Idle
<1>7. SockFine(to)'
  <2>1. SockFine(from)
    BY <1>2 DEF IInv, AllFine
  <2>2. QED
    BY <1>1, <1>3, <2>1 DEF SockFine
<1>8. EntryFine(to)'
  BY <1>1 DEF EntryFine
<1>9. Apart'
  <2> SUFFICES ASSUME NEW g \in DOMAIN fds', NEW h \in DOMAIN fds',
                      fds'[g].id = fds'[h].id, g # h
               PROVE  fds'[g].id \in strays'
    BY DEF Apart
  <2>1. CASE g # to /\ h # to
    BY <1>1, <1>3, <2>1 DEF IInv, Apart
  <2>2. CASE g = to \/ h = to
    BY <1>1, <1>3, <2>2
  <2>3. QED
    BY <2>1, <2>2
<1>10. thr'[t].call # "socket"
  BY <1>1, <1>2 DEF Idle
<1>11. QED
  BY <1>1, <1>2, <1>4, <1>5, <1>6, <1>7, <1>8, <1>9, <1>10, IdleFacts, QuietStep

-----------------------------------------------------------------------------
(* The outside.                                                            *)

LEMMA MuteStep ==
  ASSUME IInv, Mute
  PROVE  IInv'
<1>1. /\ muted' = TRUE
      /\ UNCHANGED <<UDP_SOCKS, PENDING_SOCK, fds, made, told, tried, sent, explicit, failed, evicted, refused, astray, strays, thr>>
  BY DEF Mute, kernel, history, losses, unseen
<1>2. Typed' /\ Exclusive' /\ Pending' /\ Apart'
  BY <1>1 DEF IInv, Typed, Exclusive, Pending, Apart, On
<1>3. AllFine'
  BY <1>1 DEF IInv, AllFine, CallFine, SocketFine, CloseFine, ConnectFine, SendFine,
              SockFine, EntryFine, On, Reported, Lost
<1>4. NoPhantom' /\ ConnectedSendsReported'
  BY <1>1 DEF IInv, NoPhantom, ConnectedSendsReported
<1>5. QED
  BY <1>2, <1>3, <1>4 DEF IInv

LEMMA EvictStep ==
  ASSUME IInv, NEW fd \in Fd, Evict(fd)
  PROVE  IInv'
<1>1. /\ UDP_SOCKS' = Drop(UDP_SOCKS, fd)
      /\ evicted' = evicted \cup {fds[f].id : f \in {fd} \cap DOMAIN fds}
      /\ UNCHANGED <<PENDING_SOCK, muted, fds, made, told, tried, sent, explicit, failed, refused, astray, strays, thr>>
  BY DEF Evict, kernel, unseen
<1>2. /\ DOMAIN UDP_SOCKS' = DOMAIN UDP_SOCKS \ {fd}
      /\ \A g \in DOMAIN UDP_SOCKS' : UDP_SOCKS'[g] = UDP_SOCKS[g]
      /\ evicted \subseteq evicted' /\ (fd \in DOMAIN fds => fds[fd].id \in evicted')
  BY <1>1 DEF Drop
<1>3. Typed' /\ Exclusive' /\ Pending' /\ Apart'
  BY <1>1, <1>2 DEF IInv, Typed, Exclusive, Pending, Apart, On, Drop
<1>4. ASSUME NEW t \in Thread  PROVE CallFine(thr[t])'
  BY <1>1, <1>2 DEF IInv, AllFine, CallFine, SocketFine, CloseFine, ConnectFine, SendFine, Reported, Lost
<1>5. ASSUME NEW g \in DOMAIN fds  PROVE SockFine(g)'
  BY <1>1, <1>2 DEF IInv, AllFine, SockFine, On
<1>6. ASSUME NEW g \in DOMAIN UDP_SOCKS'  PROVE EntryFine(g)'
  BY <1>1, <1>2 DEF IInv, AllFine, EntryFine, On, Reported
<1>7. NoPhantom' /\ ConnectedSendsReported'
  BY <1>1, <1>2 DEF IInv, NoPhantom, ConnectedSendsReported
<1>8. QED
  BY <1>1, <1>3, <1>4, <1>5, <1>6, <1>7 DEF IInv, AllFine

-----------------------------------------------------------------------------
(* The theorems.                                                           *)

LEMMA UdpInitial == Init => IInv
<1> SUFFICES ASSUME Init  PROVE IInv
  OBVIOUS
<1>1. /\ DOMAIN UDP_SOCKS = {} /\ DOMAIN fds = {} /\ DOMAIN told = {}
      /\ told \in Seq(Nat \X Peer) /\ sent = {} /\ tried = {} /\ PENDING_SOCK = {} /\ muted = FALSE /\ made = 0
      /\ UDP_SOCKS = <<>> /\ fds = <<>>
  BY DEF Init
<1>2. thr \in [Thread -> Call] /\ \A t \in Thread : thr[t] = Idle /\ thr[t].call = "none"
  BY DEF Init, Call, Idle
<1>3. UDP_SOCKS \in [DOMAIN UDP_SOCKS -> Entry] /\ fds \in [DOMAIN fds -> Sock]
  BY <1>1
<1>4. Typed
  BY <1>1, <1>2, <1>3 DEF Typed
<1>5. Exclusive /\ Pending /\ Apart
  BY <1>1, <1>2 DEF Exclusive, Pending, Apart, On
<1>6. AllFine
  BY <1>1, <1>2 DEF AllFine, CallFine
<1>7. NoPhantom /\ ConnectedSendsReported
  BY <1>1 DEF NoPhantom, ConnectedSendsReported
<1>8. QED
  BY <1>4, <1>5, <1>6, <1>7 DEF IInv

\* The inductive invariant holds of every step.
LEMMA UdpNext == ASSUME ~SHARED, IInv, [Next]_udpVars  PROVE IInv'
<1>1. CASE UNCHANGED udpVars
  <2>1. UNCHANGED <<UDP_SOCKS, PENDING_SOCK, muted, fds, made, told, tried, sent, explicit, failed, evicted, refused, astray, strays, thr>>
    BY <1>1 DEF udpVars, sensor, kernel, history, losses, unseen
  <2>2. Typed' /\ Exclusive' /\ Pending' /\ Apart'
    BY <2>1 DEF IInv, Typed, Exclusive, Pending, Apart, On
  <2>3. AllFine'
    BY <2>1 DEF IInv, AllFine, CallFine, SocketFine, CloseFine, ConnectFine, SendFine,
                SockFine, EntryFine, On, Reported, Lost
  <2>4. NoPhantom' /\ ConnectedSendsReported'
    BY <2>1 DEF IInv, NoPhantom, ConnectedSendsReported
  <2>5. QED
    BY <2>2, <2>3, <2>4 DEF IInv
<1>2. ASSUME NEW t \in Thread,
             \/ \E dgram \in BOOLEAN : SocketEnter(t, dgram)
             \/ KernelSocket(t) \/ SocketExit(t)
      PROVE  IInv'
  BY <1>2, SocketEnterStep, KernelSocketStep, SocketExitStep
<1>3. ASSUME NEW t \in Thread, (\E fd \in Fd : CloseEnter(t, fd)) \/ KernelClose(t)
      PROVE  IInv'
  BY <1>3, CloseEnterStep, KernelCloseStep
<1>4. ASSUME NEW t \in Thread,
             \/ \E fd \in Fd, to \in Dest \cup {NoDest} : ConnectEnter(t, fd, to)
             \/ ConnectRecord(t) \/ KernelConnect(t)
      PROVE  IInv'
  BY <1>4, ConnectEnterStep, ConnectRecordStep, KernelConnectStep DEF Peer
<1>5. ASSUME NEW t \in Thread,
             \/ \E fd \in Fd, to \in Dest \cup {NoDest} : SendEnter(t, fd, to)
             \/ SendReport(t) \/ KernelSend(t)
      PROVE  IInv'
  BY <1>5, SendEnterStep, SendReportStep, KernelSendStep DEF Peer
<1>6. CASE Mute \/ \E fd \in Fd : Evict(fd)
  BY <1>6, MuteStep, EvictStep
<1>7. ASSUME NEW t \in Thread,
             \/ \E dgram \in BOOLEAN : Appear(t, dgram)
             \/ \E fd \in Fd : Vanish(t, fd)
             \/ \E from, to \in Fd : Dup(t, from, to)
      PROVE  IInv'
  BY <1>7, AppearStep, VanishStep, DupStep
<1>8. QED
  BY <1>1, <1>2, <1>3, <1>4, <1>5, <1>6, <1>7 DEF Next

\* Everything the sensor relies on, for any number of threads that keep off
\* each other's fds (network.rs:236-371).
THEOREM UdpInvariant == ASSUME ~SHARED PROVE Spec => []IInv
<1>1. IInv /\ [Next]_udpVars => IInv'
  BY UdpNext
<1>2. QED
  BY <1>1, UdpInitial, PTL DEF Spec

\* An entry never outlives its socket nor remembers an earlier one's, seen or
\* unseen, and none is missing but for eviction, unless its fd changed hands
\* unwatched since the last socket() or close() on it (network.rs:236-238,
\* main.rs:28-35).
THEOREM EntriesTrue == ASSUME ~SHARED PROVE Spec => []EntriesMatchSockets
<1>1. IInv => EntriesMatchSockets
  <2> SUFFICES ASSUME IInv  PROVE EntriesMatchSockets
    OBVIOUS
  <2>1. EntryOutlivesNoSocket
    BY DEF IInv, AllFine, EntryFine, EntryOutlivesNoSocket
  <2>2. ASSUME NEW fd \in DOMAIN fds \ astray, fds[fd].dgram, ~InUse(fd)
        PROVE  /\ fd \in DOMAIN UDP_SOCKS \/ fds[fd].id \in evicted
               /\ fd \in DOMAIN UDP_SOCKS /\ UDP_SOCKS[fd].reported =>
                    Reported(<<fds[fd].id, UDP_SOCKS[fd].daddr>>)
    <3>1. fds[fd].dgram = TRUE /\ SockFine(fd) /\ \A t \in Thread : ~On(t, fd)
      BY <2>2 DEF IInv, Typed, Sock, AllFine, InUse, On
    <3>2. fd \in DOMAIN UDP_SOCKS => /\ UDP_SOCKS[fd].reported \in BOOLEAN
                                     /\ EntryFine(fd)
      BY DEF IInv, Typed, Entry, AllFine
    <3>3. QED
      BY <3>1, <3>2 DEF SockFine, EntryFine
  <2>3. QED
    BY <2>1, <2>2 DEF EntriesMatchSockets, Reported
<1>2. QED
  BY <1>1, UdpInvariant, PTL

\* No connect is reported as traffic: what is reported of a socket the process
\* asked the kernel to send, or is about to, to where it was reported to go, unless
\* a connect failed to point the socket there or it changed hands unwatched
\* (network.rs:93-117, 329-371).
THEOREM TrafficIsReal == ASSUME ~SHARED PROVE Spec => []NoPhantomTraffic
<1>1. IInv => NoPhantomTraffic
  BY DEF IInv, NoPhantom, NoPhantomTraffic, Underway, In
<1>2. QED
  BY <1>1, UdpInvariant, PTL

\* What a connected socket sends is reported, unless a connect of it failed, its
\* entry was evicted, the ring refused the report or it changed hands unwatched
\* (network.rs:255-279, 329-371).
THEOREM ConnectedSends == ASSUME ~SHARED PROVE Spec => []ConnectedSendsReported
<1>1. IInv => ConnectedSendsReported
  BY DEF IInv
<1>2. QED
  BY <1>1, UdpInvariant, PTL

=============================================================================
