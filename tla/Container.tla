----------------------------- MODULE Container -----------------------------
(***************************************************************************)
(* ui/directfb/container.cpp and window.cpp: show(), hide(),               *)
(* requestFocus() and sendMessage() write a request to the pipe of         *)
(* gContainerEvent, piece by piece; the event loop's thread reads it piece *)
(* by piece and carries it out.                                            *)
(*                                                                         *)
(* One thread posts (the pieces of two would mix).  If that is the event   *)
(* loop's own thread, in a callback, the steps are among those of this     *)
(* module.  A request is the sequence of its pieces.  DirectFB is external: *)
(* creating a window may fail, showing one does not.                       *)
(***************************************************************************)
EXTENDS Naturals, Sequences, SequencesExt

CONSTANTS
  Containers, Messages, Widgets,
  None,          \* a message's param, and no container
  MaxPending,    \* bound: the requests not handled yet
  MaxPipe        \* how many pieces the pipe holds

ASSUME ContainerAssumption ==
  /\ None \notin Containers \cup Messages
  /\ MaxPending \in Nat \ {0} /\ MaxPipe \in Nat \ {0}

VARIABLES
  posting,    \* the pieces the poster has still to write
  pipe,       \* the pieces in mPipe
  reading,    \* the pieces onFdReadable() has read
  pending,    \* the requests posted and not handled
  pc,         \* where the loop's thread is
  current,    \* the container whose request it carries out
  alive,      \* the containers that exist
  mVisible, mFocused,
  mWindow,    \* "null", "good", "broken": CreateWindow() failed
              \* or "blank": it has no surface
  mWidgetList,
  surface,    \* what has been drawn on the new window, in its two buffers
  onScreen,   \* the containers whose mWindow has an opacity other than 0
  left,       \* those with a deleted Window whose DFB window still has
  heard       \* the last callback of each container's listener

io == <<posting, pipe, reading, pending>>
drawn == <<mWidgetList, surface>>
state == <<alive, mVisible, mFocused, mWindow, drawn, onScreen, left, heard>>
vars == <<io, pc, current, state>>

Requests == {<<"SHOW", c>> : c \in Containers}
       \cup {<<"HIDE", c>> : c \in Containers}
       \cup {<<"FOCUS", c>> : c \in Containers}
       \cup {<<"MESSAGE", c, m, None>> : c \in Containers, m \in Messages}

\* No window is being created; later on its pixels are the application's.
NoSurface == [back |-> {}, front |-> {}]

Init ==
  /\ posting = <<>> /\ pipe = <<>> /\ reading = <<>> /\ pending = <<>>
  /\ pc = "select" /\ current = None
  /\ alive = Containers
  /\ mVisible = [c \in Containers |-> FALSE]
  /\ mFocused = [c \in Containers |-> FALSE]
  /\ mWindow = [c \in Containers |-> "null"]
  /\ mWidgetList = [c \in Containers |-> <<>>]
  /\ surface = NoSurface
  /\ onScreen = {} /\ left = {}
  /\ heard = [c \in Containers |-> "onDestroy"]

Hear(callback) == heard' = [heard EXCEPT ![current] = callback]

----------------------------------------------------------------------------
(* The poster *)

\* post() and postMessage() are called on a container that exists ...
Post(r) ==
  /\ posting = <<>> /\ Len(pending) < MaxPending
  /\ r[2] \in alive
  /\ posting' = r
  /\ pending' = Append(pending, r)
  /\ UNCHANGED <<pipe, reading, pc, current, state>>

\* ... and write the pieces one by one.
WritePiece ==
  /\ posting # <<>> /\ Len(pipe) < MaxPipe
  /\ pipe' = Append(pipe, Head(posting))
  /\ posting' = Tail(posting)
  /\ UNCHANGED <<reading, pending, pc, current, state>>

----------------------------------------------------------------------------
(* onFdReadable() *)

\* Mutant of Needs: the message id and the param stay in the pipe.
NeedsTwo(event) == 2

\* How many pieces onFdReadable() reads for an event.
Needs(event) == IF event = "MESSAGE" THEN 4 ELSE 2

\* The first piece has made the pipe readable, the others are waited for.
ReadPiece ==
  /\ \/ pc = "select"
     \/ pc = "read" /\ Len(reading) < Needs(reading[1])
  /\ pipe # <<>>
  /\ reading' = Append(reading, Head(pipe))
  /\ pipe' = Tail(pipe)
  /\ pc' = "read"
  /\ UNCHANGED <<posting, pending, current, state>>

Complete(event) ==
  /\ pc = "read" /\ Len(reading) = Needs(event) /\ reading[1] = event
  /\ reading' = <<>>
  /\ pending' = Tail(pending)
  /\ UNCHANGED <<posting, pipe>>

\* Mutant of Skip: onFdReadable() returns false, and the watcher is removed.
SkipAndStop(event, visible) ==
  /\ Complete(event)
  /\ mVisible[reading[2]] = visible
  /\ pc' = "removed"
  /\ UNCHANGED <<current, state>>

\* A container that is visible already, or hidden already: nothing to do.
Skip(event, visible) ==
  /\ Complete(event)
  /\ mVisible[reading[2]] = visible
  /\ pc' = "select"
  /\ UNCHANGED <<current, state>>

\* Mutant of ShowBegins: a visible container is shown again.
ShowBeginsAlways ==
  /\ Complete("SHOW")
  /\ current' = reading[2]
  /\ pc' = IF mWindow[reading[2]] = "null" THEN "create" ELSE "onShow"
  /\ UNCHANGED state

\* _show(): the window is created lazily.
ShowBegins ==
  /\ Complete("SHOW")
  /\ ~mVisible[reading[2]]
  /\ current' = reading[2]
  /\ pc' = IF mWindow[reading[2]] = "null" THEN "create" ELSE "onShow"
  /\ UNCHANGED state

\* Window::drawText() and the others: nothing without a surface.
WindowDraws(window, picture, things) ==
  IF window = "good" THEN picture \cup things ELSE picture

\* Container::drawText() and the others: nothing without a Window.
Draws(c, picture, things) ==
  IF mWindow[c] = "null" THEN picture
  ELSE WindowDraws(mWindow[c], picture, things)

\* new Window(): init() calls onCreateWindow() if it gets that far.  mWindow is
\* still null then, and what the listener draws is lost.
CreateWindow(outcome) ==
  /\ pc = "create"
  /\ mWindow' = [mWindow EXCEPT ![current] = outcome]
  /\ surface' = [back |-> Draws(current, {"undefined"}, {"listener"}),
                 front |-> {"undefined"}]
  /\ IF outcome = "good" THEN Hear("onCreate") ELSE UNCHANGED heard
  /\ pc' = "onCreate"
  /\ UNCHANGED <<io, current, alive, mVisible, mFocused, mWidgetList, onScreen, left>>

\* Mutant of Created: onCreate() is not called a second time.
CreatedOnce ==
  /\ pc = "onCreate"
  /\ surface' = [surface EXCEPT !.back = IF mWindow[current] = "good" THEN {} ELSE @]
  /\ pc' = "paint"
  /\ UNCHANGED <<io, current, alive, mVisible, mFocused, mWindow, mWidgetList, onScreen,
                 left, heard>>

\* The surface is cleared, and _show() calls onCreate() as well.
Created ==
  /\ pc = "onCreate"
  /\ surface' = [surface EXCEPT
       !.back = Draws(current, IF mWindow[current] = "good" THEN {} ELSE @, {"listener"})]
  /\ Hear("onCreate")
  /\ pc' = "paint"
  /\ UNCHANGED <<io, current, alive, mVisible, mFocused, mWindow, mWidgetList, onScreen,
                 left>>

\* Each widget paints itself, in the order of the list.
PaintWidgets ==
  /\ pc = "paint"
  /\ surface' = [surface EXCEPT !.back = Draws(current, @, ToSet(mWidgetList[current]))]
  /\ pc' = "update"
  /\ UNCHANGED <<io, current, alive, mVisible, mFocused, mWindow, mWidgetList, onScreen,
                 left, heard>>

\* update(): Flip() brings the back buffer to the front; whether it swaps or
\* copies, nothing more is drawn on the back.
Update ==
  /\ pc = "update"
  /\ surface' = [back |-> {}, front |-> IF mWindow[current] = "good"
                                          THEN surface.back ELSE surface.front]
  /\ pc' = "onShow"
  /\ UNCHANGED <<io, current, alive, mVisible, mFocused, mWindow, mWidgetList, onScreen,
                 left, heard>>

NotifyShow ==
  /\ pc = "onShow"
  /\ Hear("onShow")
  /\ pc' = "show"
  /\ UNCHANGED <<io, current, alive, mVisible, mFocused, mWindow, drawn, onScreen, left>>

\* Window::show() does nothing without a DFB window.
ShowEnds ==
  /\ pc = "show"
  /\ onScreen' = IF mWindow[current] = "broken" THEN onScreen
                 ELSE onScreen \cup {current}
  /\ mVisible' = [mVisible EXCEPT ![current] = TRUE]
  /\ pc' = "select" /\ current' = None
  /\ surface' = NoSurface
  /\ UNCHANGED <<io, alive, mFocused, mWindow, mWidgetList, left, heard>>

HideBegins ==
  /\ Complete("HIDE")
  /\ mVisible[reading[2]]
  /\ current' = reading[2]
  /\ pc' = "onHide"
  /\ UNCHANGED state

NotifyHide ==
  /\ pc = "onHide"
  /\ Hear("onHide")
  /\ mVisible' = [mVisible EXCEPT ![current] = FALSE]
  /\ pc' = "hide"
  /\ UNCHANGED <<io, current, alive, mFocused, mWindow, drawn, onScreen, left>>

\* isVisible() is false: the Window is kept, for the next _show().
HideKeepsWindow ==
  /\ pc = "hide"
  /\ current \notin onScreen
  /\ pc' = "select" /\ current' = None
  /\ UNCHANGED <<io, state>>

\* ~Window() tells the listener, and leaves the DFB window as it is.
DeleteWindow(c, screen) ==
  /\ onScreen' = screen \ {c}
  /\ left' = IF c \in screen THEN left \cup {c} ELSE left
  /\ mWindow' = [mWindow EXCEPT ![c] = "null"]
  /\ heard' = [heard EXCEPT ![c] = "onDestroy"]

\* Window::hide(), then delete mWindow.
HideEnds ==
  /\ pc = "hide"
  /\ current \in onScreen
  /\ DeleteWindow(current, onScreen \ {current})
  /\ pc' = "select" /\ current' = None
  /\ UNCHANGED <<io, alive, mVisible, mFocused, drawn>>

\* setFocus(): by request, or called on the loop's thread.
HandleFocus ==
  /\ Complete("FOCUS")
  /\ mFocused' = [mFocused EXCEPT ![reading[2]] = TRUE]
  /\ pc' = "select"
  /\ UNCHANGED <<current, alive, mVisible, mWindow, drawn, onScreen, left, heard>>

SetFocus(c, focus) ==
  /\ pc = "select" /\ c \in alive /\ mFocused[c] # focus
  /\ mFocused' = [mFocused EXCEPT ![c] = focus]
  /\ UNCHANGED <<io, pc, current, alive, mVisible, mWindow, drawn, onScreen, left, heard>>

\* onMessageReceived() is the application's.
HandleMessage ==
  /\ Complete("MESSAGE")
  /\ pc' = "select"
  /\ UNCHANGED <<current, state>>

----------------------------------------------------------------------------
(* The application, on the loop's thread, between two requests *)

\* In the listener's onCreate(), too.
MayChangeWidgets == pc \in {"select", "onCreate", "paint"}

\* addWidget(), of a widget that is in no list; one that is in this one is left
\* alone.  The test reads *end(), the length the std::list keeps in its end
\* node, which is no widget.
AddWidget(c, w) ==
  /\ MayChangeWidgets /\ c \in alive
  /\ \A d \in Containers : w \notin ToSet(mWidgetList[d])
  /\ mWidgetList' = [mWidgetList EXCEPT ![c] = Append(@, w)]
  /\ UNCHANGED <<io, pc, current, alive, mVisible, mFocused, mWindow, surface, onScreen,
                 left, heard>>

\* removeWidget(): the iterator is used once more after erase(), which finds the
\* removed widget in memory that is free and not yet in use again.
RemoveWidget(c, w) ==
  /\ MayChangeWidgets /\ c \in alive
  /\ w \in ToSet(mWidgetList[c])
  /\ mWidgetList' = [mWidgetList EXCEPT ![c] = RemoveFirst(@, w)]
  /\ UNCHANGED <<io, pc, current, alive, mVisible, mFocused, mWindow, surface, onScreen,
                 left, heard>>

\* Containers come and go, hidden and without requests.

Construct(c) ==
  /\ pc = "select" /\ c \notin alive
  /\ alive' = alive \cup {c}
  /\ UNCHANGED <<io, pc, current, mVisible, mFocused, mWindow, drawn, onScreen, left, heard>>

Destroy(c) ==
  /\ pc = "select" /\ c \in alive
  /\ ~mVisible[c] /\ \A i \in 1..Len(pending) : pending[i][2] # c
  /\ alive' = alive \ {c}
  /\ mFocused' = [mFocused EXCEPT ![c] = FALSE]
  /\ mWidgetList' = [mWidgetList EXCEPT ![c] = <<>>]
  /\ IF mWindow[c] = "null" THEN UNCHANGED <<mWindow, onScreen, left, heard>>
                            ELSE DeleteWindow(c, onScreen)
  /\ UNCHANGED <<io, pc, current, mVisible, surface>>

----------------------------------------------------------------------------

Poster == WritePiece

Loop ==
  \/ ReadPiece
  \/ Skip("SHOW", TRUE) \/ Skip("HIDE", FALSE)
  \/ ShowBegins
  \/ \E outcome \in {"good", "broken", "blank"} : CreateWindow(outcome)
  \/ Created \/ PaintWidgets \/ Update \/ NotifyShow \/ ShowEnds
  \/ HideBegins \/ NotifyHide \/ HideKeepsWindow \/ HideEnds
  \/ HandleFocus \/ HandleMessage

Application ==
  \/ \E r \in Requests : Post(r)
  \/ \E c \in Containers : \/ Construct(c) \/ Destroy(c)
                           \/ \E focus \in BOOLEAN : SetFocus(c, focus)
                           \/ \E w \in Widgets : AddWidget(c, w) \/ RemoveWidget(c, w)

Next == Poster \/ Loop \/ Application

Spec == Init /\ [][Next]_vars

\* A post() that has begun ends, and the event loop runs; nobody has to post.
FairSpec == Spec /\ WF_vars(Poster) /\ WF_vars(Loop)

----------------------------------------------------------------------------
(* Properties *)

Pieces == {"SHOW", "HIDE", "FOCUS", "MESSAGE", None} \cup Containers \cup Messages

TypeOK ==
  /\ posting \in Seq(Pieces) /\ pipe \in Seq(Pieces) /\ reading \in Seq(Pieces)
  /\ pending \in Seq(Requests)
  /\ pc \in {"select", "read", "create", "onCreate", "paint", "update", "onShow",
             "show", "onHide", "hide"}
  /\ current \in Containers \cup {None}
  /\ alive \subseteq Containers /\ onScreen \subseteq Containers
  /\ mVisible \in [Containers -> BOOLEAN] /\ mFocused \in [Containers -> BOOLEAN]
  /\ mWindow \in [Containers -> {"null", "good", "broken", "blank"}]
  /\ mWidgetList \in [Containers -> Seq(Widgets)]
  /\ LET picture == SUBSET (Widgets \cup {"undefined", "listener"})
     IN surface \in [back : picture, front : picture]
  /\ heard \in [Containers -> {"onCreate", "onShow", "onHide", "onDestroy"}]

\* The pipe carries no frames of its own: what is read, in the pipe and still
\* to be written is at every moment the pieces of the pending requests, in the
\* order they were posted, so that no piece is ever taken for another one.
Framed == reading \o pipe \o posting = FlattenSeq(pending)

\* The loop's thread carries out one request at a time, of a container that
\* exists, and reads no piece of the next one.
OneAtATime ==
  /\ current = None <=> pc \in {"select", "read"}
  /\ current # None => current \in alive
  /\ reading # <<>> <=> pc = "read"
  /\ pc = "read" => Len(reading) <= Needs(reading[1])
  /\ \A i \in 1..Len(pending) : pending[i][2] \in alive

\* A container whose request is not being carried out: it is visible, or it has
\* no window, or it keeps a Window without a DFB window.
Settled(c) ==
  \/ /\ mVisible[c] /\ c \in alive /\ mWindow[c] # "null" /\ heard[c] = "onShow"
     /\ c \in onScreen <=> mWindow[c] # "broken"
  \/ /\ ~mVisible[c] /\ c \notin onScreen
     /\ \/ mWindow[c] = "null" /\ heard[c] = "onDestroy"
        \/ mWindow[c] = "broken" /\ heard[c] = "onHide" /\ c \in alive

\* What _show() and _hide() have done so far.
Showing(c) ==
  /\ ~mVisible[c] /\ c \notin onScreen
  /\ mWindow[c] = "null" <=> pc = "create"
  /\ \/ pc = "create" /\ heard[c] = "onDestroy"
     \/ pc = "onCreate" /\ heard[c] \in {"onDestroy", "onCreate"}
     \/ pc \in {"paint", "update"} /\ heard[c] = "onCreate"
     \/ pc = "onShow" /\ heard[c] \in {"onCreate", "onHide"}
     \/ pc = "show" /\ heard[c] = "onShow"

Hiding(c) ==
  /\ mWindow[c] # "null"
  /\ c \in onScreen <=> mWindow[c] # "broken"
  /\ \/ pc = "onHide" /\ mVisible[c] /\ heard[c] = "onShow"
     \/ pc = "hide" /\ ~mVisible[c] /\ heard[c] = "onHide"

\* What has been drawn on a new window so far.
Drawing ==
  mWindow[current] = "good" =>
    LET widgets == ToSet(mWidgetList[current]) IN
    /\ pc = "paint" => surface.back = {"listener"}
    /\ pc = "update" => surface.back = {"listener"} \cup widgets
    /\ pc \in {"onShow", "show"} => surface.front = {"listener"} \cup widgets

\* The inductive invariant: the requests arrive as they were posted, the loop
\* is in the middle of one at most, and all other containers are settled.
ContainerInv ==
  /\ TypeOK
  /\ Framed
  /\ OneAtATime
  /\ left = {}
  /\ \A c \in Containers \ {current} : Settled(c)
  /\ current # None => Drawing /\ (Showing(current) \/ Hiding(current))

Listener == INSTANCE AbstractContainer

\* Whatever is requested and whatever fails, a listener hears its callbacks in
\* an order that makes sense, and never twice in a row that its container is
\* shown, or hidden.
KeepsProtocol ==
  /\ Listener!ListenerSpec
  /\ [][NotifyShow \/ NotifyHide => heard' # heard]_vars

\* Between two requests the screen shows exactly the windows of the visible
\* containers, those whose creation failed excepted: nothing else is left on
\* it, although no DFB window is ever released.
ScreenInSync ==
  pc = "select" =>
    /\ left = {}
    /\ onScreen = {c \in alive : mVisible[c] /\ mWindow[c] # "broken"}

\* A window appears complete: with what its listener drew in onCreate(), which
\* is called twice because the first time draws nothing, with the widgets that
\* are listed by then, whoever added or removed them, and with nothing that
\* the memory of its surface held before.
AppearsPainted ==
  pc = "show" /\ mWindow[current] = "good" =>
    surface.front = {"listener"} \cup ToSet(mWidgetList[current])

\* A show() or hide() takes effect, whatever else is posted meanwhile.
RequestsTakeEffect ==
  \A c \in Containers :
    /\ (\E i \in 1..Len(pending) : pending[i] = <<"SHOW", c>>) ~> mVisible[c]
    /\ (\E i \in 1..Len(pending) : pending[i] = <<"HIDE", c>>) ~> ~mVisible[c]
=============================================================================
