------------------------------- MODULE Startup --------------------------------
(***************************************************************************)
(* Daemons of one user coming up and going down: main.rs (probe, fork),    *)
(* the beginning and the end of run in daemon/mod.rs, and tls.rs.  They    *)
(* share the files of ~/.pmd: the cookie, a certificate and its key, and   *)
(* for each port a control socket and a PID file.                          *)
(*                                                                         *)
(* A process is one pmd start command.  It may be killed between any two   *)
(* steps.  Writing a file is two steps: it is created or emptied, and then *)
(* filled.                                                                 *)
(***************************************************************************)
EXTENDS Naturals

CONSTANTS
  Proc,      \* pmd start commands
  Earlier,   \* a daemon of an earlier time, which may have left its files
  Port,      \* Port[x]: the port x is started for
  Bind,      \* Bind[x]: the address it binds the port on
  Settings   \* what may be the case: what ~/.pmd holds at first ("fresh" nothing, "ready"
             \* Earlier's files), which processes are started, which of them with
             \* --foreground

ASSUME StartupAssumption ==
  /\ Earlier \notin Proc
  /\ {"absent", "empty", "free", "none"} \cap (Proc \cup {Earlier}) = {}
  /\ DOMAIN Port = Proc /\ DOMAIN Bind = Proc
  /\ Settings \subseteq [home : {"fresh", "ready"}, started : SUBSET Proc,
                          foreground : SUBSET Proc]

VARIABLES
  pc,          \* pc[x]: the next step of x, or how it has ended
  setting,     \* what is the case in this behaviour
  file,        \* file[f]: who wrote the shared file f, or that it is absent or empty
  sock,        \* sock[p]: who bound the socket file of port p, or "absent"
  pid,         \* pid[p]: whose number the PID file of port p holds, or "absent"
  lock,        \* lock[p]: who has locked that PID file, or "free"
  tcp,         \* tcp[l]: who listens on the address and port l, or "free"
  cookie,      \* cookie[x]: whose cookie x uses, or "none"
  cert,        \* cert[x]: whose certificate x has read last
  loads,       \* loads[x]: how many TLS configurations x has built
  why          \* why[x]: the reason why x failed, or "none"

shared == <<file, sock, pid, lock, tcp>>
private == <<cookie, cert, loads, why>>
vars == <<pc, setting, shared, private>>

PortNo   == {Port[x] : x \in Proc}
Listen(x) == <<Bind[x], Port[x]>>
ListenAddr == {Listen(x) : x \in Proc}
Shared   == {"cookie", "cert", "key"}
Writer   == Proc \cup {Earlier}

Starting == {"daemonize", "cookie", "createCookie", "fillCookie", "identity",
             "createCert", "fillCert", "createKey", "fillKey", "readCert", "readKey",
             "bindTcp", "removeSock", "bindSock", "writePid"}
Stopping == {"draining", "removeSockFile", "removePidFile", "exit"}
Ended    == {"already", "failed", "stopped", "killed"}

TypeOK ==
  /\ pc \in [Proc -> {"off", "up"} \cup Starting \cup Stopping \cup Ended]
  /\ setting \in Settings
  /\ file \in [Shared -> Writer \cup {"absent", "empty"}]
  /\ sock \in [PortNo -> Proc \cup {"absent"}]
  /\ pid \in [PortNo -> Proc \cup {"absent"}]
  /\ lock \in [PortNo -> Proc \cup {"free"}]
  /\ tcp \in [ListenAddr -> Proc \cup {"free"}]
  /\ cookie \in [Proc -> Writer \cup {"none"}]
  /\ cert \in [Proc -> Writer \cup {"none", "empty"}]
  /\ loads \in [Proc -> 0 .. 2]
  /\ why \in [Proc -> {"none", "busy", "cookie", "identity", "socket"}]

Init ==
  /\ pc = [x \in Proc |-> "off"]
  /\ setting \in Settings
  /\ file = [f \in Shared |-> IF setting.home = "ready" THEN Earlier ELSE "absent"]
  /\ sock = [p \in PortNo |-> "absent"]
  /\ pid = [p \in PortNo |-> "absent"]
  /\ lock = [p \in PortNo |-> "free"]
  /\ tcp = [l \in ListenAddr |-> "free"]
  /\ cookie = [x \in Proc |-> "none"] /\ cert = [x \in Proc |-> "none"]
  /\ loads = [x \in Proc |-> 0] /\ why = [x \in Proc |-> "none"]

\* x goes from one step to another.
Step(x, from, to) ==
  /\ pc[x] = from
  /\ pc' = [pc EXCEPT ![x] = to]
  /\ UNCHANGED setting

Put(f, content) == file' = [file EXCEPT ![f] = content]

\* The kernel closes what x had open; files stay.
Release(x) ==
  /\ lock' = [p \in PortNo |-> IF lock[p] = x THEN "free" ELSE lock[p]]
  /\ tcp' = [l \in ListenAddr |-> IF tcp[l] = x THEN "free" ELSE tcp[l]]
  /\ UNCHANGED <<file, sock, pid>>

\* x returns an error and ends.
Fail(x, from, reason) ==
  /\ Step(x, from, "failed")
  /\ why' = [why EXCEPT ![x] = reason]
  /\ Release(x)
  /\ UNCHANGED <<cookie, cert, loads>>

-------------------------------------------------------------------------------
(***************************************************************************)
(* pmd start                                                               *)
(***************************************************************************)

\* Somebody accepts connections on the control socket of port p.
Answers(p) ==
  sock[p] \in Proc /\ pc[sock[p]] \in {"writePid", "up"} \cup Stopping

\* main: a daemon that answers makes this one superfluous.
Probe(x) ==
  /\ x \in setting.started
  /\ Step(x, "off", IF Answers(Port[x]) THEN "already" ELSE "daemonize")
  /\ UNCHANGED <<shared, private>>

\* The daemonize crate locks the PID file and writes it, unless in the foreground.
Daemonize(x) ==
  \/ /\ x \in setting.foreground
     /\ Step(x, "daemonize", "cookie")
     /\ UNCHANGED <<shared, private>>
  \/ /\ x \notin setting.foreground /\ lock[Port[x]] = "free"
     /\ Step(x, "daemonize", "cookie")
     /\ lock' = [lock EXCEPT ![Port[x]] = x]
     /\ pid' = [pid EXCEPT ![Port[x]] = x]
     /\ UNCHANGED <<file, sock, tcp, private>>
  \/ /\ x \notin setting.foreground /\ lock[Port[x]] # "free"
     /\ Fail(x, "daemonize", "busy")

\* Mutant: an empty cookie is taken for a cookie.
LoadCookieEvenEmpty(x) ==
  \/ /\ file["cookie"] = "absent"
     /\ Step(x, "cookie", "createCookie")
     /\ UNCHANGED <<shared, private>>
  \/ /\ file["cookie"] # "absent"
     /\ Step(x, "cookie", "identity")
     /\ cookie' = [cookie EXCEPT ![x] = IF file["cookie"] = "empty" THEN "none" ELSE file["cookie"]]
     /\ UNCHANGED <<shared, cert, loads, why>>

\* load_or_generate_cookie finds no cookie, a cookie that it reads, or an empty one.
LoadCookie(x) ==
  \/ /\ file["cookie"] = "absent"
     /\ Step(x, "cookie", "createCookie")
     /\ UNCHANGED <<shared, private>>
  \/ /\ file["cookie"] \in Writer
     /\ Step(x, "cookie", "identity")
     /\ cookie' = [cookie EXCEPT ![x] = file["cookie"]]
     /\ UNCHANGED <<shared, cert, loads, why>>
  \/ /\ file["cookie"] = "empty"
     /\ Fail(x, "cookie", "cookie")

\* It writes a new one, without looking again.
GenerateCookie(x) ==
  \/ /\ Step(x, "createCookie", "fillCookie")
     /\ Put("cookie", "empty")
     /\ UNCHANGED <<sock, pid, lock, tcp, private>>
  \/ /\ Step(x, "fillCookie", "identity")
     /\ Put("cookie", x)
     /\ cookie' = [cookie EXCEPT ![x] = x]
     /\ UNCHANGED <<sock, pid, lock, tcp, cert, loads, why>>

\* load_or_generate_identity, once for the acceptor and once for the connector.
CheckIdentity(x) ==
  /\ Step(x, "identity",
          IF "absent" \in {file["cert"], file["key"]} THEN "createCert" ELSE "readCert")
  /\ UNCHANGED <<shared, private>>

\* generate_self_signed_cert writes the certificate, then the key.
GenerateIdentity(x) ==
  /\ \/ Step(x, "createCert", "fillCert") /\ Put("cert", "empty")
     \/ Step(x, "fillCert", "createKey") /\ Put("cert", x)
     \/ Step(x, "createKey", "fillKey") /\ Put("key", "empty")
     \/ Step(x, "fillKey", "readCert") /\ Put("key", x)
  /\ UNCHANGED <<sock, pid, lock, tcp, private>>

ReadCert(x) ==
  /\ Step(x, "readCert", "readKey")
  /\ cert' = [cert EXCEPT ![x] = file["cert"]]
  /\ UNCHANGED <<shared, cookie, loads, why>>

\* Mutant: one configuration too many.
BuildTlsOnceMore(x) ==
  \/ /\ cert[x] \in Writer /\ file["key"] = cert[x]
     /\ Step(x, "readKey", IF loads[x] <= 1 THEN "identity" ELSE "bindTcp")
     /\ loads' = [loads EXCEPT ![x] = @ + 1]
     /\ UNCHANGED <<shared, cookie, cert, why>>
  \/ /\ ~ (cert[x] \in Writer /\ file["key"] = cert[x])
     /\ Fail(x, "readKey", "identity")

\* The key is read and a configuration built: rustls wants a certificate and the
\* key that belongs to it.
BuildTls(x) ==
  \/ /\ cert[x] \in Writer /\ file["key"] = cert[x]
     /\ Step(x, "readKey", IF loads[x] = 0 THEN "identity" ELSE "bindTcp")
     /\ loads' = [loads EXCEPT ![x] = @ + 1]
     /\ UNCHANGED <<shared, cookie, cert, why>>
  \/ /\ ~ (cert[x] \in Writer /\ file["key"] = cert[x])
     /\ Fail(x, "readKey", "identity")

\* Mutant: the socket file is removed before the port is taken.
BindTcpUnlinksFirst(x) ==
  \/ /\ tcp[Listen(x)] = "free"
     /\ Step(x, "bindTcp", "removeSock")
     /\ tcp' = [tcp EXCEPT ![Listen(x)] = x]
     /\ sock' = [sock EXCEPT ![Port[x]] = "absent"]
     /\ UNCHANGED <<file, pid, lock, private>>
  \/ /\ tcp[Listen(x)] # "free"
     /\ Step(x, "bindTcp", "failed")
     /\ sock' = [sock EXCEPT ![Port[x]] = "absent"]
     /\ why' = [why EXCEPT ![x] = "busy"]
     /\ UNCHANGED <<file, pid, lock, tcp, cookie, cert, loads>>

BindTcp(x) ==
  \/ /\ tcp[Listen(x)] = "free"
     /\ Step(x, "bindTcp", "removeSock")
     /\ tcp' = [tcp EXCEPT ![Listen(x)] = x]
     /\ UNCHANGED <<file, sock, pid, lock, private>>
  \/ /\ tcp[Listen(x)] # "free"
     /\ Fail(x, "bindTcp", "busy")

\* Mutant: a socket file that is there stays.
RemoveSockNever(x) ==
  /\ Step(x, "removeSock", "bindSock")
  /\ UNCHANGED <<shared, private>>

\* A stale socket file is removed ...
RemoveSock(x) ==
  /\ Step(x, "removeSock", "bindSock")
  /\ sock' = [sock EXCEPT ![Port[x]] = "absent"]
  /\ UNCHANGED <<file, pid, lock, tcp, private>>

\* ... for the control socket cannot be bound where a file is.
BindSock(x) ==
  \/ /\ sock[Port[x]] = "absent"
     /\ Step(x, "bindSock", "writePid")
     /\ sock' = [sock EXCEPT ![Port[x]] = x]
     /\ UNCHANGED <<file, pid, lock, tcp, private>>
  \/ /\ sock[Port[x]] # "absent"
     /\ Fail(x, "bindSock", "socket")

WritePid(x) ==
  /\ Step(x, "writePid", "up")
  /\ pid' = [pid EXCEPT ![Port[x]] = x]
  /\ UNCHANGED <<file, sock, lock, tcp, private>>

-------------------------------------------------------------------------------
(***************************************************************************)
(* The end of a daemon                                                     *)
(***************************************************************************)

\* pmd stop or SIGINT ends the main loop; half a second later the token is
\* cancelled.
Stop(x) ==
  /\ Step(x, "up", "draining") \/ Step(x, "draining", "removeSockFile")
  /\ UNCHANGED <<shared, private>>

\* The server task sees the cancellation and drops its listener, if it still can.
DropListener(x) ==
  /\ pc[x] \in Stopping \ {"draining"}
  /\ tcp[Listen(x)] = x
  /\ tcp' = [tcp EXCEPT ![Listen(x)] = "free"]
  /\ UNCHANGED <<pc, setting, file, sock, pid, lock, private>>

\* The socket and PID files are removed, whoever they belong to by now.  A PID file
\* that is created later is another file, and unlocked.
RemoveFiles(x) ==
  \/ /\ Step(x, "removeSockFile", "removePidFile")
     /\ sock' = [sock EXCEPT ![Port[x]] = "absent"]
     /\ UNCHANGED <<file, pid, lock, tcp, private>>
  \/ /\ Step(x, "removePidFile", "exit")
     /\ pid' = [pid EXCEPT ![Port[x]] = "absent"]
     /\ lock' = [lock EXCEPT ![Port[x]] = "free"]
     /\ UNCHANGED <<file, sock, tcp, private>>

Exit(x) ==
  /\ Step(x, "exit", "stopped")
  /\ Release(x)
  /\ UNCHANGED private

\* kill -9, or the machine goes down.
Kill(x) ==
  /\ pc[x] \in {"up"} \cup Starting \cup Stopping
  /\ pc' = [pc EXCEPT ![x] = "killed"]
  /\ Release(x)
  /\ UNCHANGED <<setting, private>>

Next ==
  \E x \in Proc :
    \/ Probe(x) \/ Daemonize(x) \/ LoadCookie(x) \/ GenerateCookie(x)
    \/ CheckIdentity(x) \/ GenerateIdentity(x) \/ ReadCert(x) \/ BuildTls(x)
    \/ BindTcp(x) \/ RemoveSock(x) \/ BindSock(x) \/ WritePid(x)
    \/ Stop(x) \/ DropListener(x) \/ RemoveFiles(x) \/ Exit(x) \/ Kill(x)

Spec == Init /\ [][Next]_vars

-------------------------------------------------------------------------------
(***************************************************************************)
(* Properties                                                              *)
(***************************************************************************)

\* The other starts for x's port.
Rivals(x) == {y \in Proc \ {x} : Port[y] = Port[x] /\ pc[y] \notin {"off", "already"}}

\* Those that the lock of the PID file does not keep away, because one of the two
\* runs in the foreground and locks nothing.
Unlocked(x) == {y \in Rivals(x) : {x, y} \cap setting.foreground # {}}

\* A daemon that is up can be reached: the control socket of its port is its own,
\* however many starts for the port overlapped with its own, because the lock of the
\* PID file and then the listener let one at a time remove the file and bind it
\* (mod.rs:61 before mod.rs:83).  Where the lock is missing, the end of another daemon
\* (mod.rs:213), or a start for another address of the host, may take the file.
\* The PID file is its own too when nobody for its port runs in the foreground.
Reachable ==
  \A x \in Proc : pc[x] = "up" =>
    /\ \/ sock[Port[x]] = x
       \/ \E y \in Unlocked(x) :
            Bind[y] # Bind[x] \/ pc[y] \in Stopping \cup {"stopped", "killed"}
    /\ pid[Port[x]] = x \/ x \in setting.foreground \/ Unlocked(x) # {}

\* After any crash the next start comes up, or finds another process on its port,
\* once ~/.pmd has its cookie and its identity: what a killed daemon leaves behind
\* (mod.rs:82 "Remove stale socket file") stops nobody.  Only a start for another
\* address can bind the control socket first, and only where the lock is missing or
\* went with the PID file that a daemon in the foreground removed.
RestartSucceeds ==
  \A x \in Proc : pc[x] = "failed" =>
    \/ why[x] = "busy"
    \/ why[x] \in {"cookie", "identity"} /\ \E f \in Shared : file[f] # Earlier
    \/ why[x] = "socket" /\ Unlocked(x) # {} /\ \E y \in Rivals(x) : Bind[y] # Bind[x]

\* Two processes made a cookie of their own.
TwoGenerated == \E x, y \in Proc : x # y /\ cookie[x] = x /\ cookie[y] = y

\* Every daemon that is up has a whole cookie, and daemons of one home have the
\* same one unless the first starts of two of them overlapped: a cookie file that
\* is still being written, or was left empty by a crash, is never used (mod.rs:338).
WholeCookie ==
  \A x, y \in Proc : pc[x] = "up" /\ pc[y] = "up" =>
    /\ cookie[x] \in Writer
    /\ cookie[x] = cookie[y] \/ TwoGenerated

\* Daemons of one home share the cookie (README.md:96 "All nodes in a cluster must
\* share the same cookie", README.md:100 "A random 32-byte cookie is generated on
\* first start").
SameCookie ==
  \A x, y \in Proc : pc[x] = "up" /\ pc[y] = "up" => cookie[x] = cookie[y]
===============================================================================
