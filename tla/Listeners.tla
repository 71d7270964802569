----------------------------- MODULE Listeners -----------------------------
(***************************************************************************)
(* The listener lists of NetlinkManager, USB_HotplugManager, WifiManager   *)
(* and InputManager and the loops that call their listeners, all on the    *)
(* event loop's thread.  Netlink and USB keep a vector and walk it by an   *)
(* index up to a size read before the first call; Wi-Fi and keys keep a    *)
(* list and walk it by an iterator; the keys' list has a recursive mutex,  *)
(* and a listener that returns true ends the walk.  A listener may add and *)
(* remove listeners while it is called.                                    *)
(***************************************************************************)
EXTENDS Naturals, Sequences, SequencesExt, TLC

CONSTANTS Listener,     \* the listeners
          None,         \* end() of a list
          MaxListed,    \* bound on the length of a list that is added to
          MaxMessages,  \* bound on the messages of one netlink datagram
          MaxOps        \* bound on the changes one callback makes

ASSUME ListenersAssumption == None \notin Listener
ASSUME BoundsAssumption == {MaxListed, MaxMessages, MaxOps} \subseteq Nat

Managers == {"netlink", "usb", "wifi", "input"}
Vectors == {"netlink", "usb"}

VARIABLES manager,     \* whose list it is
          mListeners,  \* the list, first to last
          at,          \* "idle", "parse" (between two messages of a datagram),
                       \* "walk" (between two calls) or "callback"
          messages,    \* netlink: messages of the datagram not parsed yet
          count,       \* vectors: the size read before the walk
          ii,          \* vectors: the index
          it,          \* lists: the element the iterator is at, or None
          ops,         \* what the callback may still change
          due,         \* the listeners this walk has to call, in order
          called,      \* the listeners it has called
          consumed,    \* onKeyReceived() returned true
          event        \* Wi-Fi: the event the listeners are called with

place == <<count, ii, it>>
vars == <<manager, mListeners, at, messages, place, ops, due, called, consumed,
          event>>

Elements(s) == {s[k] : k \in 1..Len(s)}

----------------------------------------------------------------------------
(* What WifiEvent makes of a message of the supplicant.  A message is the   *)
(* prefix that chooses its parser and its name; "other" is any name that    *)
(* the parser only logs, which leaves the event EVENT_TYPE_UNKNOWN.         *)

\* parseEventMsg() knows CONNECTED and DISCONNECTED, but only logs them.
EventMessages == {"SCAN-STARTED", "BSS-ADDED", "BSS-REMOVED", "SCAN-RESULTS",
                  "NETWORK-NOT-FOUND"}
EventLogged == {"CONNECTED", "DISCONNECTED", "other"}

\* parseRequestMsg() gives no type to any message.
RequestLogged == {"other"}

\* parseP2pMsg(): with each name the extra data of its event.
P2pExtra == ("DEVICE-FOUND" :> {"device"} @@ "DEVICE-LOST" :> {"device"}
  @@ "PROV-DISC-PBC-REQ" :> {"device"}
  @@ "INVITATION-ACCEPTED" :> {"string", "none"}   \* with "sa=" or without
  @@ "GO-NEG-REQUEST" :> {"config"} @@ "GO-NEG-SUCCESS" :> {"none"}
  @@ "GO-NEG-FAILURE" :> {"none"}
  @@ "GROUP-STARTED" :> {"group"} @@ "GROUP-REMOVED" :> {"none"}
  @@ "GROUP-FORMATION-SUCCESS" :> {"none"}
  @@ "GROUP-FORMATION-FAILURE" :> {"none"})

\* parseOtherMsg().
OtherMessages == {"Trying to associate with", "WPS-TIMEOUT"}

\* parseWpaEvent(): the messages, after the interface and the <level> ...
WifiMessages == ({"CTRL-EVENT-"} \X (EventMessages \cup EventLogged))
           \cup ({"CTRL-REQ-"} \X RequestLogged)
           \cup ({"P2P-"} \X (DOMAIN P2pExtra \cup {"other"}))
           \cup ({""} \X (OtherMessages \cup {"other"}))

\* ... the type of the event, which is the name here ...
EventType(m) ==
  IF m[2] \in (CASE m[1] = "CTRL-EVENT-" -> EventMessages
                 [] m[1] = "CTRL-REQ-" -> {}
                 [] m[1] = "P2P-" -> DOMAIN P2pExtra
                 [] m[1] = "" -> OtherMessages)
    THEN m[2] ELSE "UNKNOWN"

\* ... and its extra data, of which there may be none.
Extra(m) ==
  IF m[1] = "P2P-" /\ m[2] # "other" THEN P2pExtra[m[2]] ELSE {"none"}

NoEvent == <<"UNKNOWN", "none">>

Events == UNION {{EventType(m)} \X Extra(m) : m \in WifiMessages}

----------------------------------------------------------------------------

TypeOK ==
  /\ manager \in Managers
  /\ mListeners \in Seq(Listener) /\ due \in Seq(Listener)
  /\ called \in Seq(Listener)
  /\ at \in {"idle", "parse", "walk", "callback"}
  /\ messages \in 0..MaxMessages
  /\ count \in Nat /\ ii \in Nat /\ ops \in 0..MaxOps
  /\ it \in Listener \cup {None}
  /\ consumed \in BOOLEAN
  /\ event \in Events
  /\ event[1] # "UNKNOWN" <=> manager = "wifi" /\ at # "idle"
  /\ at = "parse" => manager = "netlink"

Init ==
  /\ manager \in Managers
  /\ mListeners = <<>>
  /\ at = "idle" /\ messages = 0
  /\ count = 0 /\ ii = 0 /\ it = None
  /\ ops = 0 /\ due = <<>> /\ called = <<>> /\ consumed = FALSE
  /\ event = NoEvent

----------------------------------------------------------------------------
(* The changes *)

\* A vector takes a listener again, at the back; a list refuses one it has
\* and takes others at the front.
Added(l) == IF manager \in Vectors THEN Append(mListeners, l)
            ELSE IF l \in Elements(mListeners) THEN mListeners
            ELSE <<l>> \o mListeners

\* The first occurrence goes.
Removed(l) == RemoveFirst(mListeners, l)

\* Of the listeners still to be called, the removed one is not due any more.
NotDue(l) ==
  LET done == SubSeq(due, 1, Len(called))
      rest == SubSeq(due, Len(called) + 1, Len(due))
  IN done \o RemoveFirst(rest, l)

\* Who may be removed by the listener l that is being called: a list's walk
\* needs l's own element for it++, a vector's walk every index below count.
MayRemove(l, x) ==
  x \in Elements(mListeners) => manager \notin Vectors /\ x # l

addListener(l) ==
  /\ Len(mListeners) < MaxListed
  /\ mListeners' = Added(l)
  /\ UNCHANGED <<manager, at, messages, place, due, called, consumed, event>>

removeListener(l) ==
  /\ mListeners' = Removed(l)
  /\ due' = NotDue(l)
  /\ UNCHANGED <<manager, at, messages, place, called, consumed, event>>

\* Between two walks, on the loop's thread; for keys on any thread, which
\* mKeyListenerLock keeps out of the walk.
Change ==
  /\ at = "idle"
  /\ UNCHANGED ops
  /\ \E l \in Listener : addListener(l) \/ removeListener(l)

Calling == IF manager \in Vectors THEN mListeners[ii] ELSE it

ChangeInCallback ==
  /\ at = "callback"
  /\ ops > 0
  /\ ops' = ops - 1
  /\ \E l \in Listener : \/ addListener(l)
                         \/ MayRemove(Calling, l) /\ removeListener(l)

----------------------------------------------------------------------------
(* The walk *)

Begin(size) ==
  /\ at' = "walk"
  /\ due' = mListeners
  /\ IF manager \in Vectors
       THEN count' = size /\ ii' = 1 /\ it' = it
       ELSE /\ it' = IF mListeners = <<>> THEN None ELSE Head(mListeners)
            /\ UNCHANGED <<count, ii>>
  /\ UNCHANGED <<manager, mListeners, ops, called, consumed>>

\* Mutant of Notify: one index too many.
NotifyOneMore == Begin(Len(mListeners) + 1)

\* The walk begins: what is read of the list before the first call.
Notify == Begin(Len(mListeners))

\* One uevent, one key, or one event of the supplicant.
Receive(from) ==
  /\ manager = from
  /\ at = "idle"
  /\ Notify
  /\ UNCHANGED messages

ReceiveUsb == Receive("usb") /\ UNCHANGED event

ReceiveKey == Receive("input") /\ UNCHANGED event

\* An event without a type is dropped before the listeners hear of it.
ReceiveWifi ==
  \E m \in WifiMessages :
    /\ EventType(m) # "UNKNOWN"
    /\ event' \in {EventType(m)} \X Extra(m)
    /\ Receive("wifi")

\* A netlink datagram, which may hold several messages.
ReceiveNetlink ==
  /\ manager = "netlink"
  /\ at = "idle"
  /\ at' = "parse"
  /\ messages' \in 1..MaxMessages
  /\ UNCHANGED <<manager, mListeners, place, ops, due, called, consumed, event>>

\* A route, link or address message that the listeners hear of ...
ParseMessage ==
  /\ at = "parse"
  /\ messages > 0
  /\ messages' = messages - 1
  /\ Notify
  /\ UNCHANGED event

\* ... or one they do not: another type, table or family, or no name.
IgnoreMessage ==
  /\ at = "parse"
  /\ messages > 0
  /\ messages' = messages - 1
  /\ UNCHANGED <<manager, mListeners, at, place, ops, due, called, consumed,
                 event>>

\* No message is left, or NLMSG_DONE.
EndOfDatagram ==
  /\ at = "parse"
  /\ at' = "idle"
  /\ messages' = 0
  /\ UNCHANGED <<manager, mListeners, place, ops, due, called, consumed, event>>

\* Mutant of AtEnd: the size is read again before every call.
AtEndNow == IF manager \in Vectors THEN ii > Len(mListeners) ELSE it = None

AtEnd == IF manager \in Vectors THEN ii > count ELSE it = None

Call ==
  /\ at = "walk"
  /\ ~AtEnd
  /\ ~consumed
  /\ at' = "callback"
  /\ ops' = MaxOps
  /\ called' = Append(called, Calling)
  /\ UNCHANGED <<manager, mListeners, messages, place, due, consumed, event>>

\* The element behind x in the list as it is now.
Behind(x) ==
  LET k == CHOOSE j \in 1..Len(mListeners) : mListeners[j] = x
  IN IF k < Len(mListeners) THEN mListeners[k + 1] ELSE None

\* ii++ or it++; a key listener may have consumed the key.
Return ==
  /\ at = "callback"
  /\ at' = "walk"
  /\ IF manager \in Vectors
       THEN ii' = ii + 1 /\ it' = it
       ELSE it' = Behind(it) /\ ii' = ii
  /\ ops' = 0
  /\ consumed' \in (IF manager = "input" THEN BOOLEAN ELSE {FALSE})
  /\ UNCHANGED <<manager, mListeners, messages, count, due, called, event>>

\* The end of the list, or break: nothing is left of the walk.
Finish ==
  /\ at = "walk"
  /\ AtEnd \/ consumed
  /\ at' = IF manager = "netlink" THEN "parse" ELSE "idle"
  /\ count' = 0 /\ ii' = 0 /\ it' = None
  /\ due' = <<>> /\ called' = <<>> /\ consumed' = FALSE
  /\ event' = NoEvent          \* ~WifiEvent()
  /\ UNCHANGED <<manager, mListeners, messages, ops>>

Next ==
  \/ ReceiveNetlink \/ ParseMessage \/ IgnoreMessage \/ EndOfDatagram
  \/ ReceiveUsb \/ ReceiveWifi \/ ReceiveKey
  \/ Call \/ Return \/ Finish
  \/ Change \/ ChangeInCallback

Spec == Init /\ [][Next]_vars

----------------------------------------------------------------------------
(* Properties *)

\* Whatever the listeners add and remove while they are called, a walk calls
\* those that were listed when it began and are not removed before their
\* turn, each once and in the list's order, and no others; only a key
\* listener that consumes its key ends the walk early.
CallsWhatIsDue ==
  /\ IsPrefix(called, due)
  /\ at = "walk" /\ AtEnd /\ ~consumed => called = due

\* The index or iterator the next call uses is inside the list, although the
\* size was read before the listeners changed it.
PlaceIsValid ==
  at = "callback" \/ (at = "walk" /\ ~AtEnd) =>
    IF manager \in Vectors THEN ii \in 1..Len(mListeners)
                           ELSE it \in Elements(mListeners)

Walking == at \in {"walk", "callback"}

\* The index of the last element the walk may call.
LastOne == IF manager \in Vectors THEN count ELSE Len(mListeners)

\* The walk is at index k, which for a list is where its iterator is now, and
\* may be behind the last element.
IsAt(k) == IF manager \in Vectors THEN k = ii
           ELSE it = IF k <= Len(mListeners) THEN mListeners[k] ELSE None

\* Who was called, and then who is at the walk's place or behind it, are
\* together those that are due, however the list has changed.
Aligned ==
  Walking =>
    /\ LastOne <= Len(mListeners)
    /\ \E k \in 1..(LastOne + 1) :
         /\ IsAt(k)
         /\ at = "callback" => k <= LastOne
         /\ called \o SubSeq(mListeners, IF at = "walk" THEN k ELSE k + 1, LastOne)
              = due

\* A list, but not a vector, has each listener once.
ListedOnce ==
  manager \notin Vectors =>
    \A i, j \in 1..Len(mListeners) : mListeners[i] = mListeners[j] => i = j

\* The inductive invariant: the types, that no call goes through a place that
\* is not there, and how the place and the lists keep together.
WalkInv ==
  /\ TypeOK
  /\ PlaceIsValid
  /\ Aligned
  /\ ListedOnce
  /\ ~Walking => due = <<>> /\ called = <<>>
  /\ consumed => at = "walk"
=============================================================================
