-------------------------------- MODULE Desktop --------------------------------
(***************************************************************************)
(* The desktop launcher: how requests to start and stop the application    *)
(* travel from the network to the window, and the run status back.         *)
(*                                                                         *)
(* Updater is the thread of Client calling Update() without end.  It hands *)
(* what concerns the application to Window, the thread of the user         *)
(* interface, over a channel (FXMessageChannel): a bounded queue whose     *)
(* message() blocks while it is full.  Window answers by setting the run   *)
(* status, a value linked with the server's, and asks Client about the     *)
(* connection.  Preparer is the thread preparing the launcher.             *)
(*                                                                         *)
(* A thread's todo is the rest of the function it is in, a sequence of the *)
(* points where it can wait: a message to post, a mutex to lock, a thread  *)
(* to join.  A thread without anything to do is between two calls.         *)
(* External: the network with the linked value, the channel, the game.     *)
(***************************************************************************)
EXTENDS Naturals, Sequences, Functions

CONSTANTS
    Window, Updater, Preparer,   \* the threads
    Nobody,                      \* no thread
    Capacity,                    \* messages the channel can hold
    Faults,                      \* what may go wrong: subset of AllFaults
    MaxRequests,                 \* bound: requests of the server
    MaxConnects                  \* bound: uses of the connect button

AllFaults == {"prepare", "address", "refuse", "close", "start", "profile", "stop", "exit"}

ASSUME ThreadsAssumption ==
    Window # Updater /\ Window # Preparer /\ Updater # Preparer
    /\ Nobody \notin {Window, Updater, Preparer}
ASSUME FaultsAssumption == Faults \subseteq AllFaults
ASSUME BoundsAssumption ==
    Capacity \in Nat \ {0} /\ MaxRequests \in Nat /\ MaxConnects \in Nat

Threads == {Window, Updater, Preparer}

AppRequests == {"start", "stop", "kill"}
Requests == AppRequests \cup {"property"}
Messages == Requests \cup {"logs", "updateui"}
RunStatus == {"running", "stopped"}

VARIABLES
    todo,        \* of every thread, the rest of its function
    holder,      \* the owner of pMutexClient
    channel,     \* pMessageChannel
    buttons,     \* which of the two buttons is enabled, if any
    state,       \* Launcher::pState
    game,        \* the process of the game is alive
    conn,        \* the connection of the launcher
    wire,        \* requests under way to the launcher
    received,    \* pQueueReceived
    value,       \* pValueRunStatus
    changed,     \* the link has a value to send
    updates,     \* values under way to the server
    known,       \* the server's valueRunStatus
    last,        \* history: the last request that reached the launcher
    ran,         \* history: what RunGame() has run since the value was linked
    defied,      \* history: the last stop or kill handled threw, and the game runs on
    asked,       \* bounded by MaxRequests
    connects     \* bounded by MaxConnects

gameVars == <<state, game, ran, defied>>
linkVars == <<value, changed, updates, known>>
netVars == <<conn, wire, received, last, asked, connects>>
vars == <<todo, holder, channel, buttons, gameVars, linkVars, netVars>>

--------------------------------------------------------------------------------
\* Threads, mutexes and the channel.

Place(t) == IF todo[t] = <<>> THEN "idle" ELSE Head(todo[t])

Begins(t, items) == Place(t) = "idle" /\ todo' = [todo EXCEPT ![t] = items]

Does(t, item) == Place(t) = item /\ todo' = [todo EXCEPT ![t] = Tail(@)]

\* derlGlobal::mutexNetwork is held from one step to another only by a thread
\* in a callback of the connection.
NetworkFree == \A t \in {Updater, Window} : Place(t) # "callback"

Full == Len(channel) >= Capacity

\* FXMessageChannel::message(): waits for room.
Message(m) == ~Full /\ channel' = Append(channel, m)

\* A mutant: KillApp() served ahead of the queue.
PostKillFirst(t) ==
    \E m \in Messages :
        /\ Does(t, m)
        /\ ~Full /\ channel' = IF m = "kill" THEN <<m>> \o channel ELSE Append(channel, m)
        /\ UNCHANGED <<holder, buttons, gameVars, linkVars, netVars>>

\* AddLogs() outside of the main thread, StartApp(), StopApp(), KillApp(),
\* RequestProfileNames(), RequestDefaultProfileName(), and the request of the
\* preparing thread to update the user interface.
PostMessage(t) ==
    \E m \in Messages :
        /\ Does(t, m)
        /\ Message(m)
        /\ UNCHANGED <<holder, buttons, gameVars, linkVars, netVars>>

\* OnConnectionEstablished(), OnConnectionFailed(), OnConnectionClosed(), called
\* with the network mutex and pMutexClient locked.
RequestUpdateUIStates(t) ==
    /\ Does(t, "callback")
    /\ Message("updateui")
    /\ UNCHANGED <<holder, buttons, gameVars, linkVars, netVars>>

\* A mutant: RequestUpdateUIStates() holding on to pMutexClient.
UnlockLate(t) ==
    /\ Does(t, "unlock")
    /\ UNCHANGED <<holder, channel, buttons, gameVars, linkVars, netVars>>

Unlock(t) ==
    /\ Does(t, "unlock")
    /\ holder' = Nobody
    /\ UNCHANGED <<channel, buttons, gameVars, linkVars, netVars>>

\* Client::SendLog() and Client::SendSystemProperty(): what they queue for the
\* server is not followed here.
SendLog(t) ==
    /\ Does(t, "log")
    /\ holder = Nobody /\ NetworkFree
    /\ UNCHANGED <<holder, channel, buttons, gameVars, linkVars, netVars>>

--------------------------------------------------------------------------------
\* The updater.

\* What handling a request posts: a line of the log, then the request itself.
Handling(r) == IF r \in AppRequests THEN <<"logs", r>> ELSE <<r>>

\* pFrameUpdate(), up to the handling of the messages received.
FrameUpdate ==
    /\ holder = Nobody
    /\ Begins(Updater, <<"messages", "network">>)
    /\ holder' = Updater
    /\ UNCHANGED <<channel, buttons, gameVars, linkVars, netVars>>

\* A mutant: messages received are kept while not connected.
MoreIfConnected == conn = "up" /\ received # <<>>

\* The loop over the messages popped, connected or not.
More == received # <<>>

\* PopAll() and the loop: only this thread receives messages, so those still to be
\* handled are those still in the queue.
ProcessReceivedMessages ==
    /\ \/ /\ More
          /\ Place(Updater) = "messages"
          /\ todo' = [todo EXCEPT ![Updater] = Handling(Head(received)) \o @]
          /\ received' = Tail(received)
       \/ ~More /\ Does(Updater, "messages") /\ UNCHANGED received
    /\ UNCHANGED <<holder, channel, buttons, gameVars, linkVars, conn, wire, last, asked, connects>>

\* The end of a call of Update() without a callback.
NoCallback ==
    /\ todo' = [todo EXCEPT ![Updater] = <<>>]
    /\ holder' = Nobody

Callback ==
    /\ todo' = [todo EXCEPT ![Updater] = <<"callback", "unlock">>]
    /\ UNCHANGED holder

\* A mutant: OnConnectionFailed() not overridden.
FailedCallbackMissing ==
    /\ todo' = [todo EXCEPT ![Updater] = <<"unlock">>]
    /\ UNCHANGED holder

\* The callback of a connection that could not be established.
FailedCallback == Callback

\* Requests arrive in order, any number at once, and the value is sent if it has
\* changed.
Transfer ==
    /\ \E n \in 0 .. Len(wire) :
        LET aboutApp == {i \in 1 .. n : wire[i] \in AppRequests} IN
        /\ received' = received \o SubSeq(wire, 1, n)
        /\ wire' = SubSeq(wire, n + 1, Len(wire))
        /\ IF aboutApp = {} THEN last' = last
           ELSE \E i \in aboutApp : last' = wire[i] /\ \A j \in aboutApp : j <= i
    /\ updates' = IF changed THEN Append(updates, value) ELSE updates
    /\ changed' = FALSE
    /\ NoCallback
    /\ UNCHANGED <<value, known, conn, asked, connects, ran>>

\* pMessageReceivedConnect() on both sides, and CreateState(): the server links
\* a value of its own, which is "stopped".
Accepted ==
    /\ conn = "connecting"
    /\ conn' = "up"
    /\ value' = "stopped" /\ known' = "stopped"
    /\ ran' = IF state = "running" THEN "game"
              ELSE IF \E i \in DOMAIN todo[Window] : todo[Window][i] = "running" THEN "nothing"
              ELSE "none"
    /\ Callback
    /\ UNCHANGED <<changed, updates, wire, received, last, asked, connects>>

Refused ==
    /\ "refuse" \in Faults
    /\ conn = "connecting"
    /\ conn' = "down"
    /\ FailedCallback
    /\ UNCHANGED <<linkVars, wire, received, last, asked, connects, ran>>

\* The end of a connection: what is under way is lost, what was received is not.
Dropped ==
    /\ conn' = "down"
    /\ wire' = <<>>
    /\ changed' = FALSE /\ updates' = <<>>
    /\ UNCHANGED <<value, known, received, last, asked, connects, ran>>

Closed ==
    /\ "close" \in Faults
    /\ conn = "up"
    /\ Dropped
    /\ Callback

\* denConnection::Update(), with the network mutex locked.
Network ==
    /\ Place(Updater) = "network"
    /\ Transfer \/ Accepted \/ Refused \/ Closed
    /\ UNCHANGED <<channel, buttons, state, game, defied>>

--------------------------------------------------------------------------------
\* The thread preparing the launcher.

Prepare ==
    /\ Does(Preparer, "prepare")
    /\ state' \in {"ready"} \cup (IF "prepare" \in Faults THEN {"prepareFailed"} ELSE {})
    /\ UNCHANGED <<holder, channel, buttons, game, ran, defied, linkVars, netVars>>

\* Launcher::GetState(), which joins the thread.
GetState == state # "preparing" => todo[Preparer] = <<>>

--------------------------------------------------------------------------------
\* The window: buttons.

BtnConnect ==
    /\ buttons = "connect" /\ connects < MaxConnects
    /\ Begins(Window, <<"connect", "ui">>)
    /\ connects' = connects + 1
    /\ UNCHANGED <<holder, channel, buttons, gameVars, linkVars, conn, wire, received, last, asked>>

ConnectToHost ==
    /\ Does(Window, "connect")
    /\ holder = Nobody /\ NetworkFree
    /\ conn' \in IF conn = "down"
                 THEN {"connecting"} \cup (IF "address" \in Faults THEN {"down"} ELSE {})
                 ELSE {conn}
    /\ UNCHANGED <<holder, channel, buttons, gameVars, linkVars, wire, received, last, asked, connects>>

BtnDisconnect ==
    /\ buttons = "disconnect"
    /\ Begins(Window, <<"disconnect", "ui">>)
    /\ UNCHANGED <<holder, channel, buttons, gameVars, linkVars, netVars>>

DisconnectFromHost ==
    /\ Place(Window) = "disconnect"
    /\ holder = Nobody /\ NetworkFree
    /\ \/ /\ conn = "down"
          /\ todo' = [todo EXCEPT ![Window] = Tail(@)]
          /\ UNCHANGED <<holder, linkVars, netVars, ran>>
       \/ /\ conn # "down"
          /\ todo' = [todo EXCEPT ![Window] = <<"callback", "unlock">> \o Tail(@)]
          /\ holder' = Window
          /\ Dropped
    /\ UNCHANGED <<channel, buttons, state, game, defied>>

\* A mutant: UpdateUIStates() without the cases of a launcher not prepared.
EnabledButtonAlways == IF conn = "down" THEN "connect" ELSE "disconnect"

\* What UpdateUIStates() enables.
EnabledButton ==
    IF state \in {"preparing", "prepareFailed"} THEN "none"
    ELSE IF conn = "down" THEN "connect"
    ELSE "disconnect"

UpdateUIStates ==
    /\ Does(Window, "ui")
    /\ GetState
    /\ state \in {"ready", "running"} => holder = Nobody
    /\ buttons' = EnabledButton
    /\ UNCHANGED <<holder, channel, gameVars, linkVars, netVars>>

--------------------------------------------------------------------------------
\* The window: messages of the channel.

Takes(m, items) ==
    /\ channel # <<>> /\ Head(channel) = m
    /\ channel' = Tail(channel)
    /\ Begins(Window, items)
    /\ UNCHANGED <<holder, buttons, linkVars, netVars>>

MsgLogsAdded == Takes("logs", <<>>) /\ UNCHANGED gameVars
MsgUpdateUIStates == Takes("updateui", <<"ui">>) /\ UNCHANGED gameVars
MsgSysProp == Takes("property", <<"log">>) /\ UNCHANGED gameVars

\* A mutant: the status is set after the try block.
StartFailedRunning == <<"running", "ui">>

\* What follows a RunGame() that throws.
StartFailed == <<"ui">>

\* RunGame() starts the game, or throws, or returns without a game, the profile
\* not being valid.
GameStarts ==
    /\ state = "ready"
    /\ state' = "running" /\ game' = TRUE /\ ran' = "game" /\ defied' = FALSE
StartThrows ==
    /\ state # "ready" \/ "start" \in Faults
    /\ defied' = FALSE
    /\ UNCHANGED <<state, game, ran>>
NothingStarts ==
    /\ state = "ready" /\ "profile" \in Faults
    /\ ran' = IF ran = "game" THEN ran ELSE "nothing"
    /\ UNCHANGED <<state, game, defied>>

MsgStartApp ==
    \/ GameStarts /\ Takes("start", <<"log", "running", "ui">>)
    \/ StartThrows /\ Takes("start", StartFailed)
    \/ NothingStarts /\ Takes("start", <<"running", "ui">>)

\* StopGame(), KillGame() and Pulse(): the game is over.
GameEnds == state' = "ready" /\ game' = FALSE /\ defied' = FALSE /\ UNCHANGED ran

\* The game throws in StopGame() or KillGame(): the launcher goes on with it, and the
\* handler has no more to do than to update the user interface.
StopThrows ==
    /\ state = "running" /\ "stop" \in Faults
    /\ defied' = TRUE
    /\ UNCHANGED <<state, game, ran>>

MsgStopApp ==
    \/ state = "running" /\ Takes("stop", <<"log", "ui">>) /\ GameEnds
    \/ StopThrows /\ Takes("stop", <<"ui">>)
    \/ state # "running" /\ Takes("stop", <<"ui">>) /\ UNCHANGED gameVars

MsgKillApp ==
    \/ state = "running" /\ Takes("kill", <<"log", "stopped", "ui">>) /\ GameEnds
    \/ StopThrows /\ Takes("kill", <<"ui">>)
    \/ state # "running" /\ UNCHANGED gameVars
       /\ Takes("kill", IF state = "ready" THEN <<"stopped", "ui">> ELSE <<"ui">>)

--------------------------------------------------------------------------------
\* The window: the timer.

\* Launcher::Pulse(): a game that runs has its log read, one that ended is
\* forgotten.
Pulse(items) ==
    \/ state = "running" /\ game /\ items = <<"log", "running">> /\ UNCHANGED gameVars
    \/ state = "running" /\ ~game /\ items = <<"log", "stopped">> /\ GameEnds
    \/ state # "running" /\ items = <<"stopped">> /\ UNCHANGED gameVars

TimerPulse ==
    /\ \E items \in {<<"log", "running">>, <<"log", "stopped">>, <<"stopped">>} :
          Begins(Window, items) /\ Pulse(items)
    /\ UNCHANGED <<holder, channel, buttons, linkVars, netVars>>

\* A mutant: SetRunStatus() not comparing with what the link has.
SetValueUnmarked(status) == value' = status /\ UNCHANGED changed

\* denValueInt: the link has something to send when the value is another one.
SetValue(status) ==
    /\ value' = status
    /\ changed' = (changed \/ (conn = "up" /\ status # value))

SetRunStatus ==
    /\ \E status \in RunStatus : Does(Window, status) /\ SetValue(status)
    /\ GetState /\ NetworkFree
    /\ UNCHANGED <<holder, channel, buttons, gameVars, updates, known, netVars>>

--------------------------------------------------------------------------------
\* The server and the game.

Ask ==
    /\ conn = "up" /\ asked < MaxRequests
    /\ \E r \in Requests : wire' = Append(wire, r)
    /\ asked' = asked + 1
    /\ UNCHANGED <<todo, holder, channel, buttons, gameVars, linkVars, conn, received, last, connects>>

RemoteValueChanged ==
    /\ updates # <<>>
    /\ known' = Head(updates)
    /\ updates' = Tail(updates)
    /\ UNCHANGED <<todo, holder, channel, buttons, gameVars, value, changed, netVars>>

GameExits ==
    /\ "exit" \in Faults
    /\ game
    /\ game' = FALSE
    /\ UNCHANGED <<todo, holder, channel, buttons, state, ran, defied, linkVars, netVars>>

--------------------------------------------------------------------------------
\* The threads of Window, Launcher and Client have been started; the user
\* interface has been updated once.
Init ==
    /\ todo = [t \in Threads |->
                  IF t = Preparer THEN <<"logs", "log", "prepare", "updateui">> ELSE <<>>]
    /\ holder = Nobody
    /\ channel = <<>>
    /\ buttons = "none"
    /\ state = "preparing" /\ game = FALSE /\ ran = "none" /\ defied = FALSE
    /\ conn = "down" /\ wire = <<>> /\ received = <<>>
    /\ value = "stopped" /\ changed = FALSE /\ updates = <<>> /\ known = "stopped"
    /\ last = "none"
    /\ asked = 0 /\ connects = 0

UpdaterStep ==
    FrameUpdate \/ ProcessReceivedMessages \/ PostMessage(Updater) \/ Network
    \/ RequestUpdateUIStates(Updater) \/ Unlock(Updater)

PreparerStep == PostMessage(Preparer) \/ SendLog(Preparer) \/ Prepare

TakeMessage ==
    MsgLogsAdded \/ MsgUpdateUIStates \/ MsgSysProp \/ MsgStartApp \/ MsgStopApp \/ MsgKillApp

\* The rest of a function of the window.
WindowGoesOn ==
    \/ ConnectToHost \/ DisconnectFromHost \/ UpdateUIStates \/ SetRunStatus
    \/ SendLog(Window) \/ RequestUpdateUIStates(Window) \/ Unlock(Window)

Next ==
    \/ UpdaterStep \/ PreparerStep
    \/ TakeMessage \/ TimerPulse \/ WindowGoesOn \/ BtnConnect \/ BtnDisconnect
    \/ Ask \/ RemoteValueChanged \/ GameExits

Spec == Init /\ [][Next]_vars

\* The main loop of the window serves the timer and the channel in turn; a thread
\* waiting for a mutex that is free again and again gets it in the end.  The
\* network delivers.  Nobody has to press a button.
FairSpec ==
    /\ Spec
    /\ WF_vars(UpdaterStep) /\ SF_vars(PreparerStep)
    /\ SF_vars(TakeMessage) /\ SF_vars(TimerPulse) /\ SF_vars(WindowGoesOn)
    /\ WF_vars(RemoteValueChanged)

--------------------------------------------------------------------------------
\* Properties.

Items == Messages \cup RunStatus
         \cup {"callback", "unlock", "log", "messages", "network", "prepare", "connect", "disconnect", "ui"}

\* Types; pMutexClient belongs to who is in a section under it; without a
\* connection nothing is under way.
TypeOK ==
    /\ todo \in [Threads -> Seq(Items)]
    /\ holder \in {Nobody, Window, Updater}
    /\ holder = Updater <=> todo[Updater] # <<>>
    /\ holder = Window <=> \E i \in DOMAIN todo[Window] : todo[Window][i] = "unlock"
    /\ channel \in Seq(Messages) /\ Len(channel) <= Capacity
    /\ buttons \in {"none", "connect", "disconnect"}
    /\ state \in {"preparing", "prepareFailed", "ready", "running"}
    /\ game \in BOOLEAN /\ ran \in {"none", "nothing", "game"}
    /\ defied \in BOOLEAN
    /\ game \/ defied => state = "running"
    /\ conn \in {"down", "connecting", "up"}
    /\ wire \in Seq(Requests) /\ received \in Seq(Requests)
    /\ value \in RunStatus /\ known \in RunStatus
    /\ updates \in Seq(RunStatus) /\ changed \in BOOLEAN
    /\ conn # "up" => wire = <<>> /\ updates = <<>> /\ ~changed
    /\ last \in AppRequests \cup {"none"}
    /\ asked \in 0 .. MaxRequests /\ connects \in 0 .. MaxConnects

\* A start that a stop or a kill overtook does not come back: once all that
\* reached the launcher is handled and the last word was to stop, no application
\* runs (StartApp(), StopApp(), KillApp() through the channel).  Unless that very stop
\* or kill threw: then the game, as far as the launcher knows, runs on.
OnTheWay == Range(received) \cup (AppRequests \cap (Range(todo[Updater]) \cup Range(channel)))

LastRequestHeeded == OnTheWay = {} /\ last \in {"stop", "kill"} => state # "running" \/ defied

\* The server is told "running" only when, since the launcher connected, RunGame()
\* returned and its handler was not over, or a game started earlier still ran:
\* never because of a start that failed or of what an earlier connection was told
\* (onMsgStartApp(), onTimerPulse(), the link).
NoPhantomRun == conn = "up" /\ known = "running" => ran # "none"

\* The same, and a game really ran: not so when the profile is not valid.
GameRan == conn = "up" /\ known = "running" => ran = "game"

\* When no update of the user interface is due, the button enabled is the one
\* that fits: connect when disconnected, disconnect otherwise, none before the
\* launcher is prepared (RequestUpdateUIStates() after each change).
UpdateDue ==
    \/ todo[Window] # <<>> \/ todo[Preparer] # <<>>
    \/ Place(Updater) = "callback"
    \/ "updateui" \in Range(channel)

ButtonsFit == ~UpdateDue => buttons = EnabledButton

\* No request to run the application arrives before the launcher is prepared:
\* the button to connect is not enabled before (Launcher.cpp, RunGame()).
PreparedWhenAsked == Range(wire) \cup OnTheWay # {} => state \in {"ready", "running"}

\* The server's run status becomes the launcher's state, when the connection
\* stays and the state does not change any more (onTimerPulse(), SetRunStatus()).
StatusCatchesUp ==
    \A b \in BOOLEAN :
        <>[](conn = "up" /\ (state = "running") = b) => <>[]((known = "running") = b)

\* With a channel that never fills, a request that reached the launcher is handled:
\* neither thread waits for ever for a mutex the other holds or for the end of the
\* preparing one (pMutexClient, mutexNetwork).  On a full channel they may wait for each
\* other, see NobodyStuck.
RequestsHandled == []<>(OnTheWay = {})

\* The window, which alone empties the channel, never waits for room in it,
\* neither itself nor by waiting for a thread that does.
Posting(t) == Place(t) \in Messages \cup {"callback"}

WindowWaitsFor(t) ==
    \/ t = holder /\ Place(Window) \in {"log", "connect", "disconnect"}
    \/ t = holder /\ Place(Window) = "ui" /\ state \in {"ready", "running"}
    \/ t = Preparer /\ ~GetState /\ Place(Window) \in {"running", "stopped", "ui"}
    \/ ~NetworkFree /\ Place(t) = "callback" /\ Place(Window) \in {"log", "running", "stopped"}

NobodyStuck ==
    Full => /\ ~Posting(Window)
            /\ \A t \in {Updater, Preparer} : ~(Posting(t) /\ WindowWaitsFor(t))

================================================================================
