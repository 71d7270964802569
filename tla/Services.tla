------------------------------ MODULE Services ------------------------------
(***************************************************************************)
(* net/ssdp/ssdp.cpp, net/ssdp/web.cpp and the connections and commands of  *)
(* wifi/wifi_manager.cpp: three watchers of the event loop that open and   *)
(* close their descriptors when they are started, stopped, enabled and     *)
(* disabled, all on the loop's thread.  The system gives out the lowest    *)
(* number that is free, and other threads open and close descriptors, too, *)
(* so a number that is closed may be somebody else's a moment later.       *)
(*                                                                         *)
(* select() fails with EBADF when a watched number is not open, and        *)
(* EventLoop::loop() then returns false, which ends main().                *)
(***************************************************************************)
EXTENDS Naturals, Sequences, SequencesExt

CONSTANTS Numbers,   \* bound: the descriptor numbers there are
          None,      \* -1, and a wpa_ctrl pointer that is null
          MaxTries,  \* bound: tryCnt of connectToSupplicant()
          MaxOwed    \* bound: answers of the supplicant that are late

ASSUME ServicesAssumption ==
  Numbers \subseteq Nat \ {0} /\ None \notin Numbers /\ MaxTries \in Nat \ {0}
  /\ MaxOwed \in Nat

VARIABLES table,         \* per number, what is open under it
          watchers,      \* EventLoop's mFdWatchers
          mSock,         \* of SSDP
          webSock,       \* mSock of its WEB
          clntSock,      \* the connection WEB serves
          mCtrlConn, mMonitorConn,   \* the sockets of the two wpa_ctrl
          mTimer,        \* SSDP's timer is listed
          started,       \* SSDP::start() returned 0 and stop() has not begun
          enabled,       \* WifiManager::enable() returned 0
          tries,         \* attempts enable() has left
          owed,          \* the supplicant's answers to commands that timed out
                         \* on this connection: TRUE accepted, FALSE refused
          misled,        \* history: the last command returned 0, but the
                         \* supplicant refused it
          sent,          \* SSDP's last notification or reply
          at,            \* where the loop's thread stands
          stray,         \* history: a close() hit somebody else's descriptor
          bindFailed     \* history: the last WEB::start() could not bind or
                         \* listen

ssdp == <<mSock, mTimer, started, sent>>
web == <<webSock, clntSock, bindFailed>>
wifi == <<mCtrlConn, mMonitorConn, enabled, tries>>
commands == <<owed, misled>>
vars == <<table, watchers, ssdp, web, wifi, commands, at, stray>>

Holders == {"free", "ssdp", "web", "client", "ctrl", "monitor", "other"}

Labels == {"loop", "configure", "web", "bind", "alive",
           "unwatchweb", "closeweb", "unwatch", "byebye", "close",
           "serve", "ctrl", "monitor", "attach", "init"}

TypeOK ==
  /\ table \in [Numbers -> Holders]
  /\ watchers \in Seq({"ssdp", "web", "wifi"})
  /\ {mSock, webSock, clntSock, mCtrlConn, mMonitorConn}
       \subseteq Numbers \cup {None}
  /\ mTimer \in BOOLEAN /\ started \in BOOLEAN /\ enabled \in BOOLEAN
  /\ tries \in 0..MaxTries
  /\ owed \in Seq(BOOLEAN) /\ Len(owed) <= MaxOwed
  /\ misled \in BOOLEAN
  /\ sent \in {"nothing", "alive", "reply", "byebye"}
  /\ at \in Labels
  /\ stray \in BOOLEAN /\ bindFailed \in BOOLEAN

\* mSock is not initialised before the first start(); nothing reads it then.
Init ==
  /\ table = [n \in Numbers |-> "free"]
  /\ watchers = <<>>
  /\ mSock = None /\ webSock = None /\ clntSock = None
  /\ mCtrlConn = None /\ mMonitorConn = None
  /\ mTimer = FALSE /\ started = FALSE /\ enabled = FALSE
  /\ tries = 0
  /\ owed = <<>> /\ misled = FALSE
  /\ sent = "nothing"
  /\ at = "loop"
  /\ stray = FALSE /\ bindFailed = FALSE

\* The number the next open(), socket() or accept() returns.
Lowest(n) ==
  table[n] = "free" /\ \A m \in Numbers : m < n => table[m] # "free"

Opens(n, holder) == Lowest(n) /\ table' = [table EXCEPT ![n] = holder]

\* close(n) by its holder, as the holder believes.
Closes(n, holder) ==
  IF n = None
    THEN UNCHANGED <<table, stray>>
    ELSE /\ table' = [table EXCEPT ![n] = "free"]
         /\ stray' = (stray \/ table[n] \notin {"free", holder})

addFdWatcher(w) == watchers' = Append(watchers, w)

removeFdWatcher(w) == watchers' = RemoveFirst(watchers, w)

From(here, there) == at = here /\ at' = there

----------------------------------------------------------------------------
(* SSDP::start() and WEB::start(), called when SSDP is not started *)

SocketFails ==
  /\ From("loop", "loop")
  /\ ~started
  /\ mSock' = None
  /\ UNCHANGED <<table, watchers, mTimer, started, sent, web, wifi, commands, stray>>

SocketOpens ==
  /\ From("loop", "configure")
  /\ ~started
  /\ \E n \in Numbers : Opens(n, "ssdp") /\ mSock' = n
  /\ UNCHANGED <<watchers, mTimer, started, sent, web, wifi, commands, stray>>

\* An option, bind() or the multicast group: mSock keeps the closed number.
ConfigureFails ==
  /\ From("configure", "loop")
  /\ Closes(mSock, "ssdp")
  /\ UNCHANGED <<watchers, ssdp, web, wifi, commands>>

\* Mutant of Configured: the watcher is added when the socket is created.
ConfiguredOrNot ==
  /\ at = "configure"
  /\ addFdWatcher("ssdp")
  /\ \/ at' = "web" /\ UNCHANGED <<table, stray>>
     \/ at' = "loop" /\ Closes(mSock, "ssdp")
  /\ UNCHANGED <<ssdp, web, wifi, commands>>

Configured ==
  /\ From("configure", "web")
  /\ addFdWatcher("ssdp")
  /\ UNCHANGED <<table, ssdp, web, wifi, commands, stray>>

\* WEB::start() goes on with -1, which bind() refuses; its result is dropped.
WebSocketFails ==
  /\ From("web", "alive")
  /\ webSock' = None
  /\ bindFailed' = FALSE
  /\ UNCHANGED <<table, watchers, ssdp, clntSock, wifi, commands, stray>>

WebSocketOpens ==
  /\ From("web", "bind")
  /\ \E n \in Numbers : Opens(n, "web") /\ webSock' = n
  /\ bindFailed' = FALSE
  /\ UNCHANGED <<watchers, ssdp, clntSock, wifi, commands, stray>>

\* bind() or listen(): the socket is closed and its number kept.
WebBindFails ==
  /\ From("bind", "alive")
  /\ Closes(webSock, "web")
  /\ bindFailed' = TRUE
  /\ UNCHANGED <<watchers, ssdp, webSock, clntSock, wifi, commands>>

WebListens ==
  /\ From("bind", "alive")
  /\ addFdWatcher("web")
  /\ UNCHANGED <<table, ssdp, web, wifi, commands, stray>>

\* The first notification, and the timer that repeats it.
Announce ==
  /\ From("alive", "loop")
  /\ sent' = "alive"
  /\ mTimer' = TRUE
  /\ started' = TRUE
  /\ UNCHANGED <<table, watchers, mSock, web, wifi, commands, stray>>

----------------------------------------------------------------------------
(* SSDP::stop() and WEB::stop(), called when SSDP is started *)

StopTimer ==
  /\ From("loop", "unwatchweb")
  /\ started
  /\ mTimer' = FALSE
  /\ started' = FALSE
  /\ UNCHANGED <<table, watchers, mSock, sent, web, wifi, commands, stray>>

WebUnwatched ==
  /\ From("unwatchweb", "closeweb")
  /\ removeFdWatcher("web")
  /\ UNCHANGED <<table, ssdp, web, wifi, commands, stray>>

WebCloses ==
  /\ From("closeweb", "unwatch")
  /\ Closes(webSock, "web")
  /\ UNCHANGED <<watchers, ssdp, web, wifi, commands>>

SsdpUnwatched ==
  /\ From("unwatch", "byebye")
  /\ removeFdWatcher("ssdp")
  /\ UNCHANGED <<table, ssdp, web, wifi, commands, stray>>

SayGoodbye ==
  /\ From("byebye", "close")
  /\ sent' = "byebye"
  /\ UNCHANGED <<table, watchers, mSock, mTimer, started, web, wifi, commands, stray>>

\* Mutant of SsdpCloses: the web server's number once more.
SsdpClosesWeb ==
  /\ From("close", "loop")
  /\ Closes(webSock, "web")
  /\ UNCHANGED <<watchers, ssdp, web, wifi, commands>>

SsdpCloses ==
  /\ From("close", "loop")
  /\ Closes(mSock, "ssdp")
  /\ UNCHANGED <<watchers, ssdp, web, wifi, commands>>

----------------------------------------------------------------------------
(* Callbacks of the loop *)

\* SSDP::onTimerExpired()
TimerExpires ==
  /\ From("loop", "loop")
  /\ mTimer
  /\ sent' = "alive"
  /\ UNCHANGED <<table, watchers, mSock, mTimer, started, web, wifi, commands, stray>>

SupportedServiceTypes == {"ssdp:all", "upnp:rootdevice", "SERVICE_TYPE"}

\* parseSSDP(): a search that names no target asks for everything.
Target(st) == IF st = "none" THEN "ssdp:all" ELSE st

\* SSDP::onFdReadable(): only a search for what is supported is answered; for
\* other datagrams nothing happens.
AnswersSearch ==
  /\ From("loop", "loop")
  /\ "ssdp" \in ToSet(watchers)
  /\ \E st \in SupportedServiceTypes \cup {"none", "another"} :
       Target(st) \in SupportedServiceTypes
  /\ sent' = "reply"
  /\ UNCHANGED <<table, watchers, mSock, mTimer, started, web, wifi, commands,
                 stray>>

\* WEB::onFdReadable(): a client is accepted ...
Accepts ==
  /\ From("loop", "serve")
  /\ "web" \in ToSet(watchers)
  /\ \E n \in Numbers : Opens(n, "client") /\ clntSock' = n
  /\ UNCHANGED <<watchers, ssdp, webSock, bindFailed, wifi, commands, stray>>

\* ... served or, since recv() reads the listening socket, not, and closed.
ClosesClient ==
  /\ From("serve", "loop")
  /\ Closes(clntSock, "client")
  /\ clntSock' = None
  /\ UNCHANGED <<watchers, ssdp, webSock, bindFailed, wifi, commands>>

----------------------------------------------------------------------------
(* WifiManager::enable(), called when it is not enabled, and disable() *)

Enable ==
  /\ From("loop", "ctrl")
  /\ ~enabled
  /\ tries' = MaxTries
  /\ misled' = FALSE
  /\ UNCHANGED <<table, watchers, ssdp, web, mCtrlConn, mMonitorConn, enabled,
                 owed, stray>>

\* connectToSockPath() failed: sleep and try again, or give up.
NextTry ==
  /\ tries' = tries - 1
  /\ at' = IF tries > 1 THEN "ctrl" ELSE "loop"
  /\ UNCHANGED <<watchers, ssdp, web, enabled, misled>>

CtrlFails ==
  /\ at = "ctrl"
  /\ mCtrlConn' = None /\ owed' = <<>>
  /\ NextTry
  /\ UNCHANGED <<table, mMonitorConn, stray>>

CtrlOpens ==
  /\ From("ctrl", "monitor")
  /\ \E n \in Numbers : Opens(n, "ctrl") /\ mCtrlConn' = n
  /\ owed' = <<>>
  /\ UNCHANGED <<watchers, ssdp, web, mMonitorConn, enabled, tries, misled,
                 stray>>

\* The first connection stays open, and the next try forgets it.
MonitorFails ==
  /\ at = "monitor"
  /\ mMonitorConn' = None
  /\ NextTry
  /\ UNCHANGED <<table, mCtrlConn, owed, stray>>

MonitorOpens ==
  /\ From("monitor", "attach")
  /\ \E n \in Numbers : Opens(n, "monitor") /\ mMonitorConn' = n
  /\ UNCHANGED <<watchers, ssdp, web, mCtrlConn, enabled, tries, commands, stray>>

\* Both connections are closed, the monitor's first.
AttachFails ==
  /\ at = "attach"
  /\ table' = [table EXCEPT ![mMonitorConn] = "free", ![mCtrlConn] = "free"]
  /\ stray' = (stray \/ table[mMonitorConn] \notin {"free", "monitor"}
                     \/ table[mCtrlConn] \notin {"free", "ctrl"})
  /\ mCtrlConn' = None /\ mMonitorConn' = None /\ owed' = <<>>
  /\ NextTry

Attached ==
  /\ From("attach", "init")
  /\ addFdWatcher("wifi")
  /\ enabled' = TRUE
  /\ UNCHANGED <<table, ssdp, web, mCtrlConn, mMonitorConn, tries, commands,
                 stray>>

\* WifiManager::init(): whatever becomes of its commands is ignored; those that
\* time out leave the last so many answers unread.
Configures ==
  /\ From("init", "loop")
  /\ \E late \in 0..MaxOwed : owed' \in [1..late -> BOOLEAN]
  /\ misled' = FALSE
  /\ UNCHANGED <<table, watchers, ssdp, web, wifi, stray>>

\* disconnectToSupplicant() is empty: the connections stay open.
Disable ==
  /\ From("loop", "loop")
  /\ enabled
  /\ removeFdWatcher("wifi")
  /\ enabled' = FALSE
  /\ UNCHANGED <<table, ssdp, web, mCtrlConn, mMonitorConn, tries, commands,
                 stray>>

----------------------------------------------------------------------------
(* sendCommand(): p2pFind(), p2pConnect() and the other commands *)

CommandStep == UNCHANGED <<table, watchers, ssdp, web, wifi, at, stray>>

\* A command that the supplicant accepts or not: wpa_ctrl_request() returns the
\* first answer that is there, and the caller compares it with "OK".
Returns(accepted) ==
  LET answers == Append(owed, accepted)
  IN  /\ owed' = Tail(answers)
      /\ misled' = (Head(answers) /\ ~accepted)

CommandAnswered ==
  /\ at = "loop" /\ mCtrlConn # None
  /\ \E accepted \in BOOLEAN : Returns(accepted)
  /\ CommandStep

\* No answer for ten seconds, -2: it may come yet.
CommandTimesOut ==
  /\ at = "loop" /\ mCtrlConn # None
  /\ Len(owed) < MaxOwed
  /\ \E accepted \in BOOLEAN : owed' = Append(owed, accepted)
  /\ misled' = FALSE
  /\ CommandStep

\* Not connected, or the command cannot be sent.
CommandFails ==
  /\ at = "loop"
  /\ misled' = FALSE
  /\ UNCHANGED owed
  /\ CommandStep

\* setWfdInfo(): two commands, and only the second one's outcome is looked at.
\* Those that time out are CommandTimesOut's.
SetWfdInfo ==
  /\ at = "loop" /\ mCtrlConn # None
  /\ \E first, second \in BOOLEAN :
       LET answers == owed \o <<first, second>>
       IN  /\ owed' = SubSeq(answers, 3, Len(answers))
           /\ misled' = (answers[2] /\ ~second)
  /\ CommandStep

----------------------------------------------------------------------------
(* Other threads *)

OtherOpens ==
  /\ \E n \in Numbers : Opens(n, "other")
  /\ UNCHANGED <<watchers, ssdp, web, wifi, commands, at, stray>>

OtherCloses ==
  /\ \E n \in Numbers : /\ table[n] = "other"
                        /\ table' = [table EXCEPT ![n] = "free"]
  /\ UNCHANGED <<watchers, ssdp, web, wifi, commands, at, stray>>

Start ==
  \/ SocketFails \/ SocketOpens \/ ConfigureFails \/ Configured
  \/ WebSocketFails \/ WebSocketOpens \/ WebBindFails \/ WebListens
  \/ Announce

Stop ==
  \/ StopTimer \/ WebUnwatched \/ WebCloses \/ SsdpUnwatched \/ SayGoodbye
  \/ SsdpCloses

Wifi ==
  \/ Enable \/ CtrlFails \/ CtrlOpens \/ MonitorFails \/ MonitorOpens
  \/ AttachFails \/ Attached \/ Configures \/ Disable

Command ==
  \/ CommandAnswered \/ CommandTimesOut \/ CommandFails \/ SetWfdInfo

\* The model ends at the first close() that hits somebody else's descriptor:
\* what that thread does then is not known.
Next ==
  /\ ~stray
  /\ \/ Start \/ Stop \/ TimerExpires \/ AnswersSearch \/ Accepts \/ ClosesClient
     \/ Wifi \/ Command \/ OtherOpens \/ OtherCloses

Spec == Init /\ [][Next]_vars

----------------------------------------------------------------------------
(* Properties *)

\* getFD() of a watcher.
FD(w) == CASE w = "ssdp" -> mSock [] w = "web" -> webSock
           [] w = "wifi" -> mMonitorConn

Holder(w) == IF w = "wifi" THEN "monitor" ELSE w

\* Each watcher is watched once, and under a number that is open and its own:
\* select() is given no closed descriptor, and no callback another's data.
WatchedIsOwn ==
  /\ \A i, j \in 1..Len(watchers) : watchers[i] = watchers[j] => i = j
  /\ \A w \in ToSet(watchers) : FD(w) # None /\ table[FD(w)] = Holder(w)

\* Whatever start() and stop() ran into half-way, nothing of SSDP and its web
\* server is left behind when SSDP is not started: no open socket, no watcher
\* and no timer that would announce the device again, and the last thing SSDP
\* sends, or tries to send, is the farewell.
NothingLeftBehind ==
  at = "loop" /\ ~started =>
    /\ \A n \in Numbers : table[n] \notin {"ssdp", "web", "client"}
    /\ ToSet(watchers) \subseteq {"wifi"}
    /\ ~mTimer
    /\ sent \in {"nothing", "byebye"}

\* Commands go to a connection that is open, also after a disable() or an
\* enable() that failed, and a command that returned 0 was carried out, unless
\* one before it on the same connection timed out: from then on every command
\* gets an earlier one's answer, and its retry reports the first try's outcome.
CommandsAreHonest ==
  /\ mCtrlConn # None => table[mCtrlConn] = "ctrl"
  /\ misled => owed # <<>>

\* SSDP's socket is open from its creation to the end of stop(), the web
\* server's, too, unless WEB::start() got none or could not use it.
SsdpOpen ==
  started \/ at \in {"configure", "web", "bind", "alive", "unwatchweb", "closeweb",
                     "unwatch", "byebye", "close"}

WebServes ==
  /\ started \/ at \in {"alive", "unwatchweb", "closeweb"}
  /\ webSock # None /\ ~bindFailed

WebOpen == at = "bind" \/ WebServes

\* What is open under whose number.  Of the supplicant's connections some are
\* open that nobody remembers.
Holding ==
  /\ SsdpOpen => mSock # None
  /\ WebOpen => webSock # None
  /\ clntSock # None <=> at = "serve"
  /\ \A n \in Numbers : /\ table[n] = "ssdp" <=> SsdpOpen /\ n = mSock
                        /\ table[n] = "web" <=> WebOpen /\ n = webSock
                        /\ table[n] = "client" <=> n = clntSock
  /\ mCtrlConn # None => table[mCtrlConn] = "ctrl"
  /\ mMonitorConn # None => table[mMonitorConn] = "monitor"

\* Who is watched when.
Watching ==
  /\ "ssdp" \in ToSet(watchers) <=>
       started \/ at \in {"web", "bind", "alive", "unwatchweb", "closeweb", "unwatch"}
  /\ "web" \in ToSet(watchers) <=> WebServes /\ at # "closeweb"
  /\ "wifi" \in ToSet(watchers) <=> enabled

\* How far the operations have come, of which one runs at a time.
InStep ==
  /\ started => at \in {"loop", "serve", "ctrl", "monitor", "attach", "init"}
  /\ mTimer = started
  /\ started \/ at \in {"unwatchweb", "closeweb", "unwatch", "byebye"}
       \/ sent \in {"nothing", "byebye"}
  /\ enabled => at \notin {"ctrl", "monitor", "attach"} /\ mMonitorConn # None
  /\ at = "bind" => ~bindFailed
  /\ at \in {"monitor", "attach"} => mCtrlConn # None
  /\ at = "attach" => mMonitorConn # None
  /\ at \in {"ctrl", "monitor", "attach"} => tries > 0 /\ ~misled

\* The inductive invariant: the services hold what is theirs, until a close()
\* hits somebody else's descriptor, be it another thread's or their own.
ServicesInv ==
  /\ TypeOK
  /\ ~stray => /\ WatchedIsOwn /\ NothingLeftBehind /\ CommandsAreHonest
               /\ Holding /\ Watching /\ InStep

\* No step of start(), stop(), enable(), disable() or a callback closes a
\* descriptor that is not its own, whatever numbers other threads use
\* meanwhile and whichever call failed, but for one case: the stop() after a
\* start() whose web server could not bind or listen.
StrayOnlyAfterBindFailed == stray => bindFailed
=============================================================================
