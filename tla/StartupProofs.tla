----------------------------- MODULE StartupProofs -----------------------------
(***************************************************************************)
(* What Startup promises, for any set of pmd start commands, ports,        *)
(* addresses and settings.  The inductive invariant IInv says who holds    *)
(* the lock of the PID file and the listener while it is allowed to touch  *)
(* the files of its port, and where a cookie comes from.                   *)
(***************************************************************************)
EXTENDS Startup, TLAPS

Over == {"exit", "stopped", "killed"}

\* A daemon in the foreground has removed the PID file of port p, and the lock
\* with it, or may have.
ForegroundOver(p) ==
  \E z \in setting.foreground \cap Proc : Port[z] = p /\ pc[z] \in Over

\* From daemonising to the removal of the PID file.
Locking == (Starting \ {"daemonize"}) \cup {"up", "draining", "removeSockFile", "removePidFile"}

\* Who was daemonised holds the lock of its PID file, unless a daemon in the
\* foreground has removed that file.
LockHeld ==
  \A x \in Proc : pc[x] \in Locking /\ x \notin setting.foreground =>
    lock[Port[x]] = x \/ ForegroundOver(Port[x])

\* Who is about to touch the socket file, or is up, holds its listener.
TcpHeld ==
  \A x \in Proc : pc[x] \in {"removeSock", "bindSock", "writePid", "up", "draining"} =>
    tcp[Listen(x)] = x

\* What may take the socket file away from x.
Taken(x) ==
  \E y \in Unlocked(x) : Bind[y] # Bind[x] \/ pc[y] \in Stopping \cup {"stopped", "killed"}

\* Who has bound its socket has it, unless it was taken away.
SockHeld ==
  \A x \in Proc : pc[x] \in {"writePid", "up"} => sock[Port[x]] = x \/ Taken(x)

\* Nobody binds a socket between x's removal of the file and x's own bind, unless
\* on another address.
SockFree ==
  \A x \in Proc : pc[x] = "bindSock" =>
    \/ sock[Port[x]] = "absent"
    \/ Unlocked(x) # {} /\ \E y \in Rivals(x) : Bind[y] # Bind[x]

\* The same for the PID file.
PidHeld ==
  \A x \in Proc : pc[x] = "up" =>
    pid[Port[x]] = x \/ x \in setting.foreground \/ Unlocked(x) # {}

Generating == {"createCookie", "fillCookie", "createCert", "fillCert", "createKey", "fillKey"}

\* In a home that is ready nobody writes the shared files.
Ready ==
  setting.home = "ready" =>
    /\ \A f \in Shared : file[f] = Earlier
    /\ \A x \in Proc : /\ pc[x] \notin Generating
                       /\ cookie[x] \in {"none", Earlier}
                       /\ pc[x] = "readKey" => cert[x] = Earlier

\* In a home that was fresh nothing is Earlier's, and a cookie is somebody's who
\* made one.
Fresh ==
  setting.home = "fresh" =>
    /\ \A f \in Shared : file[f] # Earlier
    /\ \A x \in Proc : cookie[x] # Earlier
    /\ file["cookie"] \in Proc => cookie[file["cookie"]] = file["cookie"]
    /\ \A x \in Proc : cookie[x] \in Proc => cookie[cookie[x]] = cookie[x]

\* Who is past its cookie has one.
HasCookie ==
  \A x \in Proc :
    /\ pc[x] \in (Starting \ {"daemonize", "cookie", "createCookie", "fillCookie"})
                   \cup {"up"} => cookie[x] \in Writer
    /\ pc[x] \in {"off", "daemonize", "cookie", "createCookie", "fillCookie"} => cookie[x] = "none"

\* Two configurations are built, the second on the way to the listener.
Loading ==
  \A x \in Proc : pc[x] \in {"off", "daemonize", "cookie", "createCookie", "fillCookie",
      "identity", "createCert", "fillCert", "createKey", "fillKey", "readCert", "readKey"} =>
    loads[x] <= 1

\* Who reads the certificate has seen that it is there, or has made it.
CertThere ==
  \A x \in Proc : pc[x] \in {"fillCert", "createKey", "fillKey", "readCert"} =>
    file["cert"] # "absent"

IInv ==
  /\ TypeOK /\ Loading /\ CertThere
  /\ LockHeld /\ TcpHeld
  /\ SockHeld /\ SockFree /\ PidHeld
  /\ Ready /\ Fresh /\ HasCookie
  /\ RestartSucceeds

-------------------------------------------------------------------------------
(***************************************************************************)
(* One process moves, and moves on.                                        *)
(***************************************************************************)

\* One process takes a step of its own.
ProcStep(x) ==
  \/ Probe(x) \/ Daemonize(x) \/ LoadCookie(x) \/ GenerateCookie(x)
  \/ CheckIdentity(x) \/ GenerateIdentity(x) \/ ReadCert(x) \/ BuildTls(x)
  \/ BindTcp(x) \/ RemoveSock(x) \/ BindSock(x) \/ WritePid(x)
  \/ Stop(x) \/ DropListener(x) \/ RemoveFiles(x) \/ Exit(x) \/ Kill(x)

\* A process belongs to a port and an address.
LEMMA Places == \A x \in Proc : Port[x] \in PortNo /\ Listen(x) \in ListenAddr
  BY DEF PortNo, ListenAddr

\* Ending keeps the types.
LEMMA ReleaseType ==
  ASSUME TypeOK, NEW x \in Proc, Release(x)
  PROVE  /\ lock' \in [PortNo -> Proc \cup {"free"}]
         /\ tcp' \in [ListenAddr -> Proc \cup {"free"}]
         /\ UNCHANGED <<file, sock, pid>>
  BY DEF TypeOK, Release

LEMMA FailType ==
  ASSUME TypeOK, Loading, CertThere, NEW x \in Proc, NEW from,
         NEW reason \in {"busy", "cookie", "identity", "socket"}, Fail(x, from, reason)
  PROVE  TypeOK' /\ Loading' /\ CertThere'
<1>1. TypeOK'  BY ReleaseType DEF Fail, Step, TypeOK, Ended
<1>2. Loading' /\ CertThere'  BY DEF Fail, Step, Release, TypeOK, Loading, CertThere
<1> QED BY <1>1, <1>2

\* The types of Startup are kept by every step.
LEMMA TypeStep ==
  ASSUME TypeOK, Loading, CertThere, NEW x \in Proc, ProcStep(x)
  PROVE  TypeOK' /\ Loading' /\ CertThere'
<1> USE StartupAssumption, Places DEF TypeOK, Loading, CertThere, Step, Put, Writer, Shared, Starting, Stopping
<1>1. CASE Probe(x)  BY <1>1 DEF Probe, shared, private, Ended
<1>2. CASE Daemonize(x)
  <2>1. CASE Fail(x, "daemonize", "busy")  BY <2>1, FailType
  <2>2. CASE ~ Fail(x, "daemonize", "busy")  BY <1>2, <2>2 DEF Daemonize, shared, private
  <2> QED BY <2>1, <2>2
<1>3. CASE LoadCookie(x)
  <2>1. CASE Fail(x, "cookie", "cookie")  BY <2>1, FailType
  <2>2. CASE ~ Fail(x, "cookie", "cookie")  BY <1>3, <2>2 DEF LoadCookie, shared, private
  <2> QED BY <2>1, <2>2
<1>4. CASE GenerateCookie(x)  BY <1>4 DEF GenerateCookie, private
<1>5. CASE CheckIdentity(x)  BY <1>5 DEF CheckIdentity, shared, private
<1>6. CASE GenerateIdentity(x)  BY <1>6 DEF GenerateIdentity, private
<1>7. CASE ReadCert(x)  BY <1>7 DEF ReadCert, shared
<1>8. CASE BuildTls(x)
  <2>1. CASE Fail(x, "readKey", "identity")  BY <2>1, FailType
  <2>2. CASE /\ Step(x, "readKey", IF loads[x] = 0 THEN "identity" ELSE "bindTcp")
             /\ loads' = [loads EXCEPT ![x] = @ + 1]
             /\ UNCHANGED <<shared, cookie, cert, why>>
    <3>1. loads[x] \in {0, 1}  BY <2>2
    <3>2. loads' \in [Proc -> 0 .. 2]
      <4>1. loads[x] + 1 \in 0 .. 2  BY <3>1
      <4> QED BY <2>2, <4>1
    <3>3. Loading'  BY <2>2, <3>1
    <3>4. CertThere'  BY <2>2 DEF shared
    <3> QED BY <2>2, <3>2, <3>3, <3>4 DEF shared
  <2> QED BY <1>8, <2>1, <2>2 DEF BuildTls
<1>9. CASE BindTcp(x)
  <2>1. CASE Fail(x, "bindTcp", "busy")  BY <2>1, FailType
  <2>2. CASE ~ Fail(x, "bindTcp", "busy")  BY <1>9, <2>2 DEF BindTcp, private
  <2> QED BY <2>1, <2>2
<1>10. CASE RemoveSock(x)  BY <1>10 DEF RemoveSock, private
<1>11. CASE BindSock(x)
  <2>1. CASE Fail(x, "bindSock", "socket")  BY <2>1, FailType
  <2>2. CASE ~ Fail(x, "bindSock", "socket")  BY <1>11, <2>2 DEF BindSock, private
  <2> QED BY <2>1, <2>2
<1>12. CASE WritePid(x)  BY <1>12 DEF WritePid, private
<1>13. CASE Stop(x)  BY <1>13 DEF Stop, shared, private
<1>14. CASE DropListener(x)  BY <1>14 DEF DropListener, private
<1>15. CASE RemoveFiles(x)  BY <1>15 DEF RemoveFiles, private
<1>16. CASE Exit(x)  BY <1>16, ReleaseType DEF Exit, private, Ended
<1>17. CASE Kill(x)  BY <1>17, ReleaseType DEF Kill, private, Ended
<1> QED BY <1>1, <1>2, <1>3, <1>4, <1>5, <1>6, <1>7, <1>8, <1>9, <1>10, <1>11, <1>12,
           <1>13, <1>14, <1>15, <1>16, <1>17 DEF ProcStep

\* A step moves one process, and none goes back: what has left the beginning or
\* reached its end does not return.
LEMMA Onward ==
  ASSUME TypeOK, NEW x \in Proc, ProcStep(x)
  PROVE  /\ setting' = setting
         /\ \A y \in Proc \ {x} : pc'[y] = pc[y]
         /\ pc[x] \notin {"off", "already"} => pc'[x] \notin {"off", "already"}
         /\ pc[x] \in Over => pc'[x] \in Over
         /\ pc[x] \in Stopping \cup {"stopped", "killed"} =>
              pc'[x] \in Stopping \cup {"stopped", "killed"}
<1> USE DEF TypeOK, Step, Fail, Over, Starting, Stopping
<1>1. CASE Probe(x)  BY <1>1 DEF Probe
<1>2. CASE Daemonize(x)  BY <1>2 DEF Daemonize
<1>3. CASE LoadCookie(x)  BY <1>3 DEF LoadCookie
<1>4. CASE GenerateCookie(x)  BY <1>4 DEF GenerateCookie
<1>5. CASE CheckIdentity(x)  BY <1>5 DEF CheckIdentity
<1>6. CASE GenerateIdentity(x)  BY <1>6 DEF GenerateIdentity
<1>7. CASE ReadCert(x)  BY <1>7 DEF ReadCert
<1>8. CASE BuildTls(x)  BY <1>8 DEF BuildTls
<1>9. CASE BindTcp(x)  BY <1>9 DEF BindTcp
<1>10. CASE RemoveSock(x)  BY <1>10 DEF RemoveSock
<1>11. CASE BindSock(x)  BY <1>11 DEF BindSock
<1>12. CASE WritePid(x)  BY <1>12 DEF WritePid
<1>13. CASE Stop(x)  BY <1>13 DEF Stop
<1>14. CASE DropListener(x)  BY <1>14 DEF DropListener
<1>15. CASE RemoveFiles(x)  BY <1>15 DEF RemoveFiles
<1>16. CASE Exit(x)  BY <1>16 DEF Exit
<1>17. CASE Kill(x)  BY <1>17 DEF Kill
<1> QED BY <1>1, <1>2, <1>3, <1>4, <1>5, <1>6, <1>7, <1>8, <1>9, <1>10, <1>11, <1>12,
           <1>13, <1>14, <1>15, <1>16, <1>17 DEF ProcStep

\* So what excuses a daemon once excuses it for good.
LEMMA Excuses ==
  ASSUME TypeOK, NEW x \in Proc, ProcStep(x), NEW y \in Proc
  PROVE  /\ Rivals(y) \subseteq Rivals(y)'
         /\ Unlocked(y) \subseteq Unlocked(y)'
         /\ Taken(y) => Taken(y)'
         /\ ForegroundOver(Port[y]) => ForegroundOver(Port[y])'
<1>1. Rivals(y) \subseteq Rivals(y)'  BY Onward DEF Rivals
<1>2. Unlocked(y) \subseteq Unlocked(y)'  BY <1>1, Onward DEF Unlocked
<1>3. ASSUME Taken(y)  PROVE Taken(y)'
  <2>1. PICK z \in Unlocked(y) :
               Bind[z] # Bind[y] \/ pc[z] \in Stopping \cup {"stopped", "killed"}
    BY <1>3 DEF Taken
  <2>2. z \in Proc /\ z \in Unlocked(y)'  BY <1>2, <2>1 DEF Unlocked, Rivals
  <2>3. Bind[z] # Bind[y] \/ pc'[z] \in Stopping \cup {"stopped", "killed"}  BY <2>1, <2>2, Onward
  <2> QED BY <2>2, <2>3 DEF Taken
<1>4. ForegroundOver(Port[y]) => ForegroundOver(Port[y])'  BY Onward DEF ForegroundOver
<1> QED BY <1>1, <1>2, <1>3, <1>4

\* The lock of the PID file changes hands only when it is free, or when the file
\* is removed.
LEMMA LockStep ==
  ASSUME TypeOK, LockHeld, NEW x \in Proc, ProcStep(x)
  PROVE  LockHeld'
<1> SUFFICES ASSUME NEW y \in Proc, pc'[y] \in Locking, y \notin setting'.foreground,
                    ~ ForegroundOver(Port[y])'
             PROVE  lock'[Port[y]] = y
  BY DEF LockHeld
<1>0. /\ setting' = setting /\ ~ ForegroundOver(Port[y]) /\ Port[y] \in PortNo
      /\ pc[y] \in Locking => lock[Port[y]] = y
      /\ y # "free"
      /\ lock \in [PortNo -> Proc \cup {"free"}]
      /\ pc \in [Proc -> {"off", "up"} \cup Starting \cup Stopping \cup Ended]
  BY Onward, Excuses, Places, StartupAssumption DEF LockHeld, TypeOK
<1> USE DEF Step, Fail, Release, Starting, Stopping, Locking, shared
<1>1. CASE Probe(x)  BY <1>0, <1>1 DEF Probe
<1>2. CASE Daemonize(x)  BY <1>0, <1>2, Places DEF Daemonize
<1>3. CASE LoadCookie(x)  BY <1>0, <1>3 DEF LoadCookie
<1>4. CASE GenerateCookie(x)  BY <1>0, <1>4 DEF GenerateCookie
<1>5. CASE CheckIdentity(x)  BY <1>0, <1>5 DEF CheckIdentity
<1>6. CASE GenerateIdentity(x)  BY <1>0, <1>6 DEF GenerateIdentity
<1>7. CASE ReadCert(x)  BY <1>0, <1>7 DEF ReadCert
<1>8. CASE BuildTls(x)  BY <1>0, <1>8 DEF BuildTls
<1>9. CASE BindTcp(x)  BY <1>0, <1>9 DEF BindTcp
<1>10. CASE RemoveSock(x)  BY <1>0, <1>10 DEF RemoveSock
<1>11. CASE BindSock(x)  BY <1>0, <1>11 DEF BindSock
<1>12. CASE WritePid(x)  BY <1>0, <1>12 DEF WritePid
<1>13. CASE Stop(x)  BY <1>0, <1>13 DEF Stop
<1>14. CASE DropListener(x)  BY <1>0, <1>14 DEF DropListener
<1>15. CASE RemoveFiles(x)
  <2>1. CASE pc[x] = "removeSockFile"  BY <1>0, <1>15, <2>1 DEF RemoveFiles
  <2>2. CASE pc[x] = "removePidFile"
    <3>1. pc'[x] = "exit" /\ x # y  BY <1>0, <1>15, <2>2 DEF RemoveFiles
    <3>2. CASE Port[x] = Port[y]
      <4>1. x \notin setting.foreground  BY <1>0, <3>1, <3>2 DEF ForegroundOver, Over
      <4>2. lock[Port[y]] = x  BY <1>0, <2>2, <3>2, <4>1 DEF LockHeld
      <4> QED BY <1>0, <1>15, <2>2, <3>1, <4>2 DEF RemoveFiles
    <3> QED BY <1>0, <1>15, <2>2, <3>1, <3>2 DEF RemoveFiles
  <2> QED BY <1>15, <2>1, <2>2 DEF RemoveFiles
<1>16. CASE Exit(x)  BY <1>0, <1>16 DEF Exit
<1>17. CASE Kill(x)  BY <1>0, <1>17 DEF Kill
<1> QED BY <1>1, <1>2, <1>3, <1>4, <1>5, <1>6, <1>7, <1>8, <1>9, <1>10, <1>11, <1>12,
           <1>13, <1>14, <1>15, <1>16, <1>17 DEF ProcStep

\* A listener is given to one process at a time, and closed by its owner only.
LEMMA TcpStep ==
  ASSUME TypeOK, TcpHeld, NEW x \in Proc, ProcStep(x)
  PROVE  TcpHeld'
<1> SUFFICES ASSUME NEW y \in Proc,
                    pc'[y] \in {"removeSock", "bindSock", "writePid", "up", "draining"}
             PROVE  tcp'[Listen(y)] = y
  BY DEF TcpHeld, Listen
<1>0. /\ Listen(y) \in ListenAddr /\ Listen(x) \in ListenAddr
      /\ pc[y] \in {"removeSock", "bindSock", "writePid", "up", "draining"} => tcp[Listen(y)] = y
      /\ y # "free"
      /\ tcp \in [ListenAddr -> Proc \cup {"free"}]
      /\ pc \in [Proc -> {"off", "up"} \cup Starting \cup Stopping \cup Ended]
  BY Places, StartupAssumption DEF TcpHeld, TypeOK
<1> USE DEF Step, Fail, Release, Starting, Stopping, shared
<1>1. CASE Probe(x)  BY <1>1, <1>0 DEF Probe
<1>2. CASE Daemonize(x)  BY <1>2, <1>0 DEF Daemonize
<1>3. CASE LoadCookie(x)  BY <1>3, <1>0 DEF LoadCookie
<1>4. CASE GenerateCookie(x)  BY <1>4, <1>0 DEF GenerateCookie
<1>5. CASE CheckIdentity(x)  BY <1>5, <1>0 DEF CheckIdentity
<1>6. CASE GenerateIdentity(x)  BY <1>6, <1>0 DEF GenerateIdentity
<1>7. CASE ReadCert(x)  BY <1>7, <1>0 DEF ReadCert
<1>8. CASE BuildTls(x)  BY <1>8, <1>0 DEF BuildTls
<1>9. CASE BindTcp(x)  BY <1>9, <1>0 DEF BindTcp
<1>10. CASE RemoveSock(x)  BY <1>10, <1>0 DEF RemoveSock
<1>11. CASE BindSock(x)  BY <1>11, <1>0 DEF BindSock
<1>12. CASE WritePid(x)  BY <1>12, <1>0 DEF WritePid
<1>13. CASE Stop(x)  BY <1>13, <1>0 DEF Stop
<1>14. CASE DropListener(x)  BY <1>14, <1>0 DEF DropListener
<1>15. CASE RemoveFiles(x)  BY <1>15, <1>0 DEF RemoveFiles
<1>16. CASE Exit(x)  BY <1>16, <1>0 DEF Exit
<1>17. CASE Kill(x)  BY <1>17, <1>0 DEF Kill
<1> QED BY <1>1, <1>2, <1>3, <1>4, <1>5, <1>6, <1>7, <1>8, <1>9, <1>10, <1>11, <1>12,
           <1>13, <1>14, <1>15, <1>16, <1>17 DEF ProcStep

\* Where a daemon in the foreground has ended, it is the excuse of everybody else.
LEMMA ForegroundEnded ==
  ASSUME NEW y \in Proc, y \notin setting.foreground, ForegroundOver(Port[y])
  PROVE  Taken(y) /\ Unlocked(y) # {}
<1>1. PICK z \in setting.foreground \cap Proc : Port[z] = Port[y] /\ pc[z] \in Over
  BY DEF ForegroundOver
<1>2. z \in Rivals(y)  BY <1>1 DEF Rivals, Over
<1>3. z \in Unlocked(y)  BY <1>1, <1>2 DEF Unlocked
<1>4. pc[z] \in Stopping \cup {"stopped", "killed"}  BY <1>1 DEF Over, Stopping
<1> QED BY <1>3, <1>4 DEF Taken

\* Two processes between daemonising and the removal of the PID file have an excuse.
LEMMA TwoLocking ==
  ASSUME LockHeld, NEW x \in Proc, NEW y \in Proc \ {x}, Port[x] = Port[y],
         pc[x] \in Locking, pc[y] \in Locking
  PROVE  /\ x \in Rivals(y) /\ Unlocked(y) # {}
         /\ Bind[x] # Bind[y] \/ pc[x] \in Stopping => Taken(y)
<1>1. x \in Rivals(y)  BY DEF Rivals, Locking, Starting
<1>2. CASE {x, y} \cap setting.foreground # {}
  <2>1. x \in Unlocked(y)  BY <1>1, <1>2 DEF Unlocked
  <2> QED BY <1>1, <2>1 DEF Taken
<1>3. CASE {x, y} \cap setting.foreground = {}
  <2>1. ForegroundOver(Port[y])  BY <1>3 DEF LockHeld
  <2> QED BY <1>1, <1>3, <2>1, ForegroundEnded
<1> QED BY <1>2, <1>3

\* And those with the listener use different addresses.
LEMMA TwoListening ==
  ASSUME LockHeld, TcpHeld, NEW x \in Proc, NEW y \in Proc \ {x}, Port[x] = Port[y],
         pc[x] \in {"removeSock", "bindSock", "writePid", "up"},
         pc[y] \in {"removeSock", "bindSock", "writePid", "up"}
  PROVE  x \in Rivals(y) /\ Bind[x] # Bind[y] /\ Unlocked(y) # {} /\ Taken(y)
<1>1. Bind[x] # Bind[y]  BY DEF TcpHeld, Listen
<1>2. pc[x] \in Locking /\ pc[y] \in Locking  BY DEF Locking, Starting
<1> QED BY <1>1, <1>2, TwoLocking

\* A socket file is removed by its owner, by a process on another address, or by
\* the end of a daemon.
LEMMA SockHeldStep ==
  ASSUME TypeOK, LockHeld, TcpHeld, SockHeld, NEW x \in Proc, ProcStep(x)
  PROVE  SockHeld'
<1> SUFFICES ASSUME NEW y \in Proc, pc'[y] \in {"writePid", "up"}, ~ Taken(y)'
             PROVE  sock'[Port[y]] = y
  BY DEF SockHeld
<1>0. /\ pc[y] \in {"writePid", "up"} => sock[Port[y]] = y
      /\ Port[x] \in PortNo /\ Port[y] \in PortNo
      /\ sock \in [PortNo -> Proc \cup {"absent"}]
      /\ pc \in [Proc -> {"off", "up"} \cup Starting \cup Stopping \cup Ended]
  BY Excuses, Places DEF SockHeld, TypeOK
<1>a. ASSUME x # y, Port[x] = Port[y], pc[y] \in {"writePid", "up"}
      PROVE  pc[x] \notin {"removeSock", "bindSock", "removeSockFile"}
  <2>1. ~ Taken(y)  BY Excuses
  <2>2. pc[y] \in Locking  BY <1>a DEF Locking, Starting
  <2>3. pc[x] \notin {"removeSock", "bindSock"}  BY <1>a, <2>1, TwoListening
  <2>4. pc[x] # "removeSockFile"  BY <1>a, <2>1, <2>2, TwoLocking DEF Locking, Stopping
  <2> QED BY <2>3, <2>4
<1> USE DEF Step, Fail, Release, Starting, Stopping, shared
<1>1. CASE Probe(x)  BY <1>1, <1>0 DEF Probe
<1>2. CASE Daemonize(x)  BY <1>2, <1>0 DEF Daemonize
<1>3. CASE LoadCookie(x)  BY <1>3, <1>0 DEF LoadCookie
<1>4. CASE GenerateCookie(x)  BY <1>4, <1>0 DEF GenerateCookie
<1>5. CASE CheckIdentity(x)  BY <1>5, <1>0 DEF CheckIdentity
<1>6. CASE GenerateIdentity(x)  BY <1>6, <1>0 DEF GenerateIdentity
<1>7. CASE ReadCert(x)  BY <1>7, <1>0 DEF ReadCert
<1>8. CASE BuildTls(x)  BY <1>8, <1>0 DEF BuildTls
<1>9. CASE BindTcp(x)  BY <1>9, <1>0 DEF BindTcp
<1>10. CASE RemoveSock(x)  BY <1>10, <1>0, <1>a DEF RemoveSock
<1>11. CASE BindSock(x)  BY <1>11, <1>0, <1>a DEF BindSock
<1>12. CASE WritePid(x)  BY <1>12, <1>0 DEF WritePid
<1>13. CASE Stop(x)  BY <1>13, <1>0 DEF Stop
<1>14. CASE DropListener(x)  BY <1>14, <1>0 DEF DropListener
<1>15. CASE RemoveFiles(x)  BY <1>15, <1>0, <1>a DEF RemoveFiles
<1>16. CASE Exit(x)  BY <1>16, <1>0 DEF Exit
<1>17. CASE Kill(x)  BY <1>17, <1>0 DEF Kill
<1> QED BY <1>1, <1>2, <1>3, <1>4, <1>5, <1>6, <1>7, <1>8, <1>9, <1>10, <1>11, <1>12,
           <1>13, <1>14, <1>15, <1>16, <1>17 DEF ProcStep

\* Between the removal of a socket file and the bind, only a process on another
\* address binds it.
LEMMA SockFreeStep ==
  ASSUME TypeOK, LockHeld, TcpHeld, SockFree, NEW x \in Proc, ProcStep(x)
  PROVE  SockFree'
<1> DEFINE Excused(y) == Unlocked(y) # {} /\ \E z \in Rivals(y) : Bind[z] # Bind[y]
<1> SUFFICES ASSUME NEW y \in Proc, pc'[y] = "bindSock", ~ Excused(y)'
             PROVE  sock'[Port[y]] = "absent"
  BY DEF SockFree
<1>b. ~ Excused(y)  BY Excuses
<1>0. /\ pc[y] = "bindSock" => sock[Port[y]] = "absent"
      /\ Port[x] \in PortNo /\ Port[y] \in PortNo
      /\ sock \in [PortNo -> Proc \cup {"absent"}]
      /\ pc \in [Proc -> {"off", "up"} \cup Starting \cup Stopping \cup Ended]
  BY <1>b, Places DEF SockFree, TypeOK
<1>a. ASSUME x # y, Port[x] = Port[y], pc[y] = "bindSock"
      PROVE  pc[x] # "bindSock"
  BY <1>a, <1>b, TwoListening
<1> HIDE DEF Excused
<1> USE DEF Step, Fail, Release, Starting, Stopping, shared
<1>1. CASE Probe(x)  BY <1>1, <1>0 DEF Probe
<1>2. CASE Daemonize(x)  BY <1>2, <1>0 DEF Daemonize
<1>3. CASE LoadCookie(x)  BY <1>3, <1>0 DEF LoadCookie
<1>4. CASE GenerateCookie(x)  BY <1>4, <1>0 DEF GenerateCookie
<1>5. CASE CheckIdentity(x)  BY <1>5, <1>0 DEF CheckIdentity
<1>6. CASE GenerateIdentity(x)  BY <1>6, <1>0 DEF GenerateIdentity
<1>7. CASE ReadCert(x)  BY <1>7, <1>0 DEF ReadCert
<1>8. CASE BuildTls(x)  BY <1>8, <1>0 DEF BuildTls
<1>9. CASE BindTcp(x)  BY <1>9, <1>0 DEF BindTcp
<1>10. CASE RemoveSock(x)  BY <1>10, <1>0 DEF RemoveSock
<1>11. CASE BindSock(x)  BY <1>11, <1>0, <1>a DEF BindSock
<1>12. CASE WritePid(x)  BY <1>12, <1>0 DEF WritePid
<1>13. CASE Stop(x)  BY <1>13, <1>0 DEF Stop
<1>14. CASE DropListener(x)  BY <1>14, <1>0 DEF DropListener
<1>15. CASE RemoveFiles(x)  BY <1>15, <1>0 DEF RemoveFiles
<1>16. CASE Exit(x)  BY <1>16, <1>0 DEF Exit
<1>17. CASE Kill(x)  BY <1>17, <1>0 DEF Kill
<1> QED BY <1>1, <1>2, <1>3, <1>4, <1>5, <1>6, <1>7, <1>8, <1>9, <1>10, <1>11, <1>12,
           <1>13, <1>14, <1>15, <1>16, <1>17 DEF ProcStep

\* A PID file is overwritten or removed by a process that holds its lock, or where
\* somebody runs in the foreground.
LEMMA PidStep ==
  ASSUME TypeOK, LockHeld, TcpHeld, PidHeld, NEW x \in Proc, ProcStep(x)
  PROVE  PidHeld'
<1> SUFFICES ASSUME NEW y \in Proc, pc'[y] = "up", y \notin setting'.foreground,
                    Unlocked(y)' = {}
             PROVE  pid'[Port[y]] = y
  BY DEF PidHeld
<1>b. setting' = setting /\ Unlocked(y) = {} /\ ~ ForegroundOver(Port[y])
  BY Onward, Excuses, ForegroundEnded
<1>0. /\ pc[y] = "up" => pid[Port[y]] = y
      /\ Port[x] \in PortNo /\ Port[y] \in PortNo
      /\ pid \in [PortNo -> Proc \cup {"absent"}]
      /\ pc \in [Proc -> {"off", "up"} \cup Starting \cup Stopping \cup Ended]
  BY <1>b, Places DEF PidHeld, TypeOK
<1>a. ASSUME x # y, Port[x] = Port[y], pc[y] = "up"
      PROVE  pc[x] \notin {"writePid", "removePidFile"} /\ lock[Port[x]] # "free"
  <2>1. pc[x] \notin {"writePid", "removePidFile"}
    BY <1>a, <1>b, TwoLocking DEF Locking, Starting
  <2>2. lock[Port[x]] = y  BY <1>a, <1>b DEF LockHeld, Locking
  <2> QED BY <2>1, <2>2, StartupAssumption
<1> USE DEF Step, Fail, Release, Starting, Stopping, shared
<1>1. CASE Probe(x)  BY <1>1, <1>0 DEF Probe
<1>2. CASE Daemonize(x)  BY <1>2, <1>0, <1>a DEF Daemonize
<1>3. CASE LoadCookie(x)  BY <1>3, <1>0 DEF LoadCookie
<1>4. CASE GenerateCookie(x)  BY <1>4, <1>0 DEF GenerateCookie
<1>5. CASE CheckIdentity(x)  BY <1>5, <1>0 DEF CheckIdentity
<1>6. CASE GenerateIdentity(x)  BY <1>6, <1>0 DEF GenerateIdentity
<1>7. CASE ReadCert(x)  BY <1>7, <1>0 DEF ReadCert
<1>8. CASE BuildTls(x)  BY <1>8, <1>0 DEF BuildTls
<1>9. CASE BindTcp(x)  BY <1>9, <1>0 DEF BindTcp
<1>10. CASE RemoveSock(x)  BY <1>10, <1>0 DEF RemoveSock
<1>11. CASE BindSock(x)  BY <1>11, <1>0 DEF BindSock
<1>12. CASE WritePid(x)  BY <1>12, <1>0, <1>a DEF WritePid
<1>13. CASE Stop(x)  BY <1>13, <1>0 DEF Stop
<1>14. CASE DropListener(x)  BY <1>14, <1>0 DEF DropListener
<1>15. CASE RemoveFiles(x)  BY <1>15, <1>0, <1>a DEF RemoveFiles
<1>16. CASE Exit(x)  BY <1>16, <1>0 DEF Exit
<1>17. CASE Kill(x)  BY <1>17, <1>0 DEF Kill
<1> QED BY <1>1, <1>2, <1>3, <1>4, <1>5, <1>6, <1>7, <1>8, <1>9, <1>10, <1>11, <1>12,
           <1>13, <1>14, <1>15, <1>16, <1>17 DEF ProcStep

\* The settings there are.
LEMMA Homes == ASSUME TypeOK  PROVE setting.home \in {"fresh", "ready"}
  BY StartupAssumption DEF TypeOK

\* A home that is ready stays as it is.
LEMMA ReadyStep ==
  ASSUME TypeOK, Ready, NEW x \in Proc, ProcStep(x)
  PROVE  Ready'
<1> SUFFICES ASSUME setting'.home = "ready"  PROVE Ready'
  BY DEF Ready
<1>0. /\ \A f \in Shared : file[f] = Earlier
      /\ \A y \in Proc : /\ pc[y] \notin Generating
                         /\ cookie[y] \in {"none", Earlier}
                         /\ pc[y] = "readKey" => cert[y] = Earlier
      /\ Earlier \notin {"absent", "empty"}
      /\ pc \in [Proc -> {"off", "up"} \cup Starting \cup Stopping \cup Ended]
      /\ cookie \in [Proc -> Writer \cup {"none"}]
      /\ cert \in [Proc -> Writer \cup {"none", "empty"}]
      /\ loads \in [Proc -> 0 .. 2]
  BY Onward, StartupAssumption DEF Ready, TypeOK
<1> USE DEF Ready, Generating, Shared, Step, Fail, Release, Starting, Stopping, shared, private
<1>1. CASE Probe(x)  BY <1>1, <1>0 DEF Probe
<1>2. CASE Daemonize(x)  BY <1>2, <1>0 DEF Daemonize
<1>3. CASE LoadCookie(x)  BY <1>3, <1>0 DEF LoadCookie
<1>4. CASE GenerateCookie(x)  BY <1>4, <1>0 DEF GenerateCookie
<1>5. CASE CheckIdentity(x)  BY <1>5, <1>0 DEF CheckIdentity
<1>6. CASE GenerateIdentity(x)  BY <1>6, <1>0 DEF GenerateIdentity
<1>7. CASE ReadCert(x)  BY <1>7, <1>0 DEF ReadCert
<1>8. CASE BuildTls(x)  BY <1>8, <1>0 DEF BuildTls
<1>9. CASE BindTcp(x)  BY <1>9, <1>0 DEF BindTcp
<1>10. CASE RemoveSock(x)  BY <1>10, <1>0 DEF RemoveSock
<1>11. CASE BindSock(x)  BY <1>11, <1>0 DEF BindSock
<1>12. CASE WritePid(x)  BY <1>12, <1>0 DEF WritePid
<1>13. CASE Stop(x)  BY <1>13, <1>0 DEF Stop
<1>14. CASE DropListener(x)  BY <1>14, <1>0 DEF DropListener
<1>15. CASE RemoveFiles(x)  BY <1>15, <1>0 DEF RemoveFiles
<1>16. CASE Exit(x)  BY <1>16, <1>0 DEF Exit
<1>17. CASE Kill(x)  BY <1>17, <1>0 DEF Kill
<1> QED BY <1>1, <1>2, <1>3, <1>4, <1>5, <1>6, <1>7, <1>8, <1>9, <1>10, <1>11, <1>12,
           <1>13, <1>14, <1>15, <1>16, <1>17 DEF ProcStep

\* A cookie is made by a process that then uses it, and read by others.
LEMMA FreshStep ==
  ASSUME TypeOK, Fresh, HasCookie, NEW x \in Proc, ProcStep(x)
  PROVE  Fresh'
<1> SUFFICES ASSUME setting'.home = "fresh"  PROVE Fresh'
  BY DEF Fresh
<1>0. /\ \A f \in Shared : file[f] # Earlier
      /\ \A y \in Proc : cookie[y] # Earlier
      /\ file["cookie"] \in Proc => cookie[file["cookie"]] = file["cookie"]
      /\ \A y \in Proc : cookie[y] \in Proc => cookie[cookie[y]] = cookie[y]
      /\ pc[x] \in {"cookie", "fillCookie"} => cookie[x] = "none"
      /\ {"absent", "empty", "none"} \cap (Proc \cup {Earlier}) = {}
      /\ Earlier \notin Proc
      /\ file \in [Shared -> Writer \cup {"absent", "empty"}]
      /\ cookie \in [Proc -> Writer \cup {"none"}]
  BY Onward, StartupAssumption DEF Fresh, HasCookie, TypeOK
<1> USE DEF Fresh, Shared, Writer, Step, Put, Fail, Release, shared, private
<1>1. CASE Probe(x)  BY <1>1, <1>0 DEF Probe
<1>2. CASE Daemonize(x)  BY <1>2, <1>0 DEF Daemonize
<1>3. CASE LoadCookie(x)  BY <1>3, <1>0 DEF LoadCookie
<1>4. CASE GenerateCookie(x)  BY <1>4, <1>0 DEF GenerateCookie
<1>5. CASE CheckIdentity(x)  BY <1>5, <1>0 DEF CheckIdentity
<1>6. CASE GenerateIdentity(x)  BY <1>6, <1>0 DEF GenerateIdentity
<1>7. CASE ReadCert(x)  BY <1>7, <1>0 DEF ReadCert
<1>8. CASE BuildTls(x)  BY <1>8, <1>0 DEF BuildTls
<1>9. CASE BindTcp(x)  BY <1>9, <1>0 DEF BindTcp
<1>10. CASE RemoveSock(x)  BY <1>10, <1>0 DEF RemoveSock
<1>11. CASE BindSock(x)  BY <1>11, <1>0 DEF BindSock
<1>12. CASE WritePid(x)  BY <1>12, <1>0 DEF WritePid
<1>13. CASE Stop(x)  BY <1>13, <1>0 DEF Stop
<1>14. CASE DropListener(x)  BY <1>14, <1>0 DEF DropListener
<1>15. CASE RemoveFiles(x)  BY <1>15, <1>0 DEF RemoveFiles
<1>16. CASE Exit(x)  BY <1>16, <1>0 DEF Exit
<1>17. CASE Kill(x)  BY <1>17, <1>0 DEF Kill
<1> QED BY <1>1, <1>2, <1>3, <1>4, <1>5, <1>6, <1>7, <1>8, <1>9, <1>10, <1>11, <1>12,
           <1>13, <1>14, <1>15, <1>16, <1>17 DEF ProcStep

\* Nobody passes without a cookie.
LEMMA CookieStep ==
  ASSUME TypeOK, HasCookie, NEW x \in Proc, ProcStep(x)
  PROVE  HasCookie'
<1>0. /\ pc \in [Proc -> {"off", "up"} \cup Starting \cup Stopping \cup Ended]
      /\ cookie \in [Proc -> Writer \cup {"none"}]
  BY DEF TypeOK
<1> USE DEF HasCookie, Writer, Starting, Stopping, Step, Fail, shared, private
<1>1. CASE Probe(x)  BY <1>1, <1>0 DEF Probe
<1>2. CASE Daemonize(x)  BY <1>2, <1>0 DEF Daemonize
<1>3. CASE LoadCookie(x)  BY <1>3, <1>0 DEF LoadCookie
<1>4. CASE GenerateCookie(x)  BY <1>4, <1>0 DEF GenerateCookie
<1>5. CASE CheckIdentity(x)  BY <1>5, <1>0 DEF CheckIdentity
<1>6. CASE GenerateIdentity(x)  BY <1>6, <1>0 DEF GenerateIdentity
<1>7. CASE ReadCert(x)  BY <1>7, <1>0 DEF ReadCert
<1>8. CASE BuildTls(x)  BY <1>8, <1>0 DEF BuildTls
<1>9. CASE BindTcp(x)  BY <1>9, <1>0 DEF BindTcp
<1>10. CASE RemoveSock(x)  BY <1>10, <1>0 DEF RemoveSock
<1>11. CASE BindSock(x)  BY <1>11, <1>0 DEF BindSock
<1>12. CASE WritePid(x)  BY <1>12, <1>0 DEF WritePid
<1>13. CASE Stop(x)  BY <1>13, <1>0 DEF Stop
<1>14. CASE DropListener(x)  BY <1>14, <1>0 DEF DropListener
<1>15. CASE RemoveFiles(x)  BY <1>15, <1>0 DEF RemoveFiles
<1>16. CASE Exit(x)  BY <1>16, <1>0 DEF Exit
<1>17. CASE Kill(x)  BY <1>17, <1>0 DEF Kill
<1> QED BY <1>1, <1>2, <1>3, <1>4, <1>5, <1>6, <1>7, <1>8, <1>9, <1>10, <1>11, <1>12,
           <1>13, <1>14, <1>15, <1>16, <1>17 DEF ProcStep

\* A process fails for one of the reasons that RestartSucceeds allows.
LEMMA RestartStep ==
  ASSUME IInv, NEW x \in Proc, ProcStep(x)
  PROVE  RestartSucceeds'
<1> DEFINE Excused(y) == Unlocked(y) # {} /\ \E z \in Rivals(y) : Bind[z] # Bind[y]
<1> DEFINE Changed == \E f \in Shared : file[f] # Earlier
<1> SUFFICES ASSUME NEW y \in Proc, pc'[y] = "failed"
             PROVE  \/ why'[y] = "busy"
                    \/ why'[y] \in {"cookie", "identity"} /\ Changed'
                    \/ why'[y] = "socket" /\ Excused(y)'
  BY DEF RestartSucceeds
<1>a. Excused(y) => Excused(y)'  BY Excuses DEF IInv
<1>0. pc[y] = "failed" => \/ why[y] = "busy"
                          \/ why[y] \in {"cookie", "identity"} /\ Changed
                          \/ why[y] = "socket" /\ Excused(y)
  BY DEF IInv, RestartSucceeds
<1>e. /\ pc \in [Proc -> {"off", "up"} \cup Starting \cup Stopping \cup Ended]
      /\ file \in [Shared -> Writer \cup {"absent", "empty"}]
      /\ why \in [Proc -> {"none", "busy", "cookie", "identity", "socket"}]
      /\ x # Earlier /\ Earlier # "empty" /\ Earlier \in Writer
  BY StartupAssumption DEF IInv, TypeOK, Writer
<1>b. Changed => Changed' \/ file = file'
  BY <1>e DEF ProcStep, GenerateCookie, Put, GenerateIdentity, Shared, Probe, Daemonize,
     LoadCookie, CheckIdentity, ReadCert, BuildTls, BindTcp, RemoveSock, BindSock, WritePid,
     Stop, DropListener, RemoveFiles, Exit, Kill, Fail, Release, shared
<1>c. ASSUME pc[x] = "bindSock", sock[Port[x]] # "absent"  PROVE Excused(x)
  BY <1>c DEF IInv, SockFree
<1>d. ASSUME pc[x] = "readKey", ~ (cert[x] \in Writer /\ file["key"] = cert[x])  PROVE Changed
  BY <1>d, <1>e, Homes DEF IInv, Ready, Fresh, Shared
<1> HIDE DEF Excused
<1> USE DEF Step, Fail, Release, Starting, Stopping, shared, private
<1>1. CASE Probe(x)  BY <1>1, <1>0, <1>e, <1>a, <1>b DEF Probe
<1>2. CASE Daemonize(x)  BY <1>2, <1>0, <1>e, <1>a, <1>b DEF Daemonize
<1>3. CASE LoadCookie(x)  BY <1>3, <1>0, <1>e, <1>a, <1>b DEF LoadCookie, Shared
<1>4. CASE GenerateCookie(x)  BY <1>4, <1>0, <1>e, <1>a, <1>b DEF GenerateCookie
<1>5. CASE CheckIdentity(x)  BY <1>5, <1>0, <1>e, <1>a, <1>b DEF CheckIdentity
<1>6. CASE GenerateIdentity(x)  BY <1>6, <1>0, <1>e, <1>a, <1>b DEF GenerateIdentity
<1>7. CASE ReadCert(x)  BY <1>7, <1>0, <1>e, <1>a, <1>b DEF ReadCert
<1>8. CASE BuildTls(x)  BY <1>8, <1>0, <1>e, <1>a, <1>d DEF BuildTls
<1>9. CASE BindTcp(x)  BY <1>9, <1>0, <1>e, <1>a, <1>b DEF BindTcp
<1>10. CASE RemoveSock(x)  BY <1>10, <1>0, <1>e, <1>a, <1>b DEF RemoveSock
<1>11. CASE BindSock(x)  BY <1>11, <1>0, <1>e, <1>a, <1>c DEF BindSock
<1>12. CASE WritePid(x)  BY <1>12, <1>0, <1>e, <1>a, <1>b DEF WritePid
<1>13. CASE Stop(x)  BY <1>13, <1>0, <1>e, <1>a, <1>b DEF Stop
<1>14. CASE DropListener(x)  BY <1>14, <1>0, <1>e, <1>a, <1>b DEF DropListener
<1>15. CASE RemoveFiles(x)  BY <1>15, <1>0, <1>e, <1>a, <1>b DEF RemoveFiles
<1>16. CASE Exit(x)  BY <1>16, <1>0, <1>e, <1>a, <1>b DEF Exit
<1>17. CASE Kill(x)  BY <1>17, <1>0, <1>e, <1>a, <1>b DEF Kill
<1> QED BY <1>1, <1>2, <1>3, <1>4, <1>5, <1>6, <1>7, <1>8, <1>9, <1>10, <1>11, <1>12,
           <1>13, <1>14, <1>15, <1>16, <1>17 DEF ProcStep

-------------------------------------------------------------------------------
(***************************************************************************)
(* The theorems                                                            *)
(***************************************************************************)

LEMMA InitInv == Init => IInv
<1> SUFFICES ASSUME Init  PROVE IInv
  OBVIOUS
<1> USE StartupAssumption DEF Init
<1>1. TypeOK  BY DEF TypeOK, Writer, Shared
<1>2. \A x \in Proc : pc[x] = "off" /\ loads[x] = 0  OBVIOUS
<1>4. Loading /\ CertThere /\ LockHeld /\ TcpHeld
  BY <1>2 DEF Loading, CertThere, LockHeld, Locking, Starting, TcpHeld
<1>5. SockHeld /\ SockFree /\ PidHeld /\ RestartSucceeds
  BY <1>2 DEF SockHeld, SockFree, PidHeld, RestartSucceeds
<1>3. Ready /\ Fresh /\ HasCookie
  BY DEF Ready, Generating, Fresh, HasCookie, Shared, Starting
<1> QED BY <1>1, <1>3, <1>4, <1>5 DEF IInv

LEMMA StepInv == IInv /\ [Next]_vars => IInv'
<1> SUFFICES ASSUME IInv, [Next]_vars  PROVE IInv'
  OBVIOUS
<1>1. ASSUME NEW x \in Proc, ProcStep(x)  PROVE IInv'
  BY <1>1, TypeStep, LockStep, TcpStep, SockHeldStep, SockFreeStep, PidStep, ReadyStep, FreshStep,
     CookieStep, RestartStep DEF IInv
<1>2. CASE UNCHANGED vars
  <2> USE <1>2 DEF vars, shared, private
  <2>1. TypeOK' /\ Loading' /\ CertThere' /\ TcpHeld' /\ Ready' /\ Fresh' /\ HasCookie'
    BY DEF IInv, TypeOK, Loading, CertThere, TcpHeld, Listen, Ready, Fresh, HasCookie
  <2>2. \A y \in Proc : /\ Rivals(y)' = Rivals(y) /\ Unlocked(y)' = Unlocked(y)
                        /\ Taken(y)' = Taken(y)
                        /\ ForegroundOver(Port[y])' = ForegroundOver(Port[y])
    BY DEF Rivals, Unlocked, Taken, ForegroundOver
  <2>3. LockHeld' /\ SockHeld'  BY <2>2 DEF IInv, LockHeld, SockHeld
  <2>4. SockFree' /\ PidHeld' /\ RestartSucceeds'
    BY <2>2 DEF IInv, SockFree, PidHeld, RestartSucceeds
  <2> QED BY <2>1, <2>3, <2>4 DEF IInv
<1> QED BY <1>1, <1>2 DEF Next, ProcStep

LEMMA SpecInv == Spec => []IInv
  BY InitInv, StepInv, PTL DEF Spec

\* Every start, stop, failure and kill of a daemon keeps every variable in its type.
THEOREM TypeCorrect == Spec => []TypeOK
<1>1. IInv => TypeOK  BY DEF IInv
<1> QED BY <1>1, SpecInv, PTL

\* However many starts for however many ports and addresses overlap, and whoever is
\* killed or stopped, a daemon that is up can be reached over the control socket of
\* its port, and its PID file names it (mod.rs:61 to 103, 213).
THEOREM ReachableTheorem == Spec => []Reachable
<1>1. IInv => Reachable  BY DEF IInv, SockHeld, PidHeld, Taken, Reachable
<1> QED BY <1>1, SpecInv, PTL

\* No crash at any point leaves files behind that keep a later start from coming up
\* (mod.rs:82), once the home has its cookie and its identity.
THEOREM RestartSucceedsTheorem == Spec => []RestartSucceeds
<1>1. IInv => RestartSucceeds  BY DEF IInv
<1> QED BY <1>1, SpecInv, PTL

\* Nobody comes up with half a cookie, and two daemons of one home differ in it only
\* when two processes made one each (mod.rs:324 to 350).
THEOREM WholeCookieTheorem == Spec => []WholeCookie
<1>1. ASSUME IInv, NEW x \in Proc, NEW y \in Proc, pc[x] = "up", pc[y] = "up"
      PROVE  cookie[x] \in Writer /\ (cookie[x] = cookie[y] \/ TwoGenerated)
  <2>1. cookie[x] \in Writer /\ cookie[y] \in Writer  BY <1>1 DEF IInv, HasCookie
  <2>2. CASE setting.home = "ready"
    BY <1>1, <2>1, <2>2, StartupAssumption DEF IInv, Ready, Writer
  <2>3. CASE setting.home = "fresh"
    <3>1. /\ cookie[x] \in Proc /\ cookie[cookie[x]] = cookie[x]
          /\ cookie[y] \in Proc /\ cookie[cookie[y]] = cookie[y]
      BY <1>1, <2>1, <2>3 DEF IInv, Fresh, Writer
    <3> QED BY <2>1, <3>1 DEF TwoGenerated
  <2> QED BY <1>1, <2>2, <2>3, Homes DEF IInv
<1>2. IInv => WholeCookie  BY <1>1 DEF WholeCookie
<1> QED BY <1>2, SpecInv, PTL
===============================================================================
