------------------------------ MODULE DesktopProofs -----------------------------
(***************************************************************************)
(* Theorems about Desktop, for every capacity of the channel, every set of *)
(* faults and any number of requests and uses of the connect button.       *)
(***************************************************************************)
EXTENDS Desktop, SequenceFacts

-------------------------------------------------------------------------------
(* The rests of functions the threads can be in *)

WindowTodos ==
    {<<>>, <<"ui">>, <<"connect", "ui">>, <<"disconnect", "ui">>,
     <<"callback", "unlock", "ui">>, <<"unlock", "ui">>,
     <<"log">>, <<"log", "ui">>,
     <<"log", "running", "ui">>, <<"running", "ui">>, <<"log", "running">>, <<"running">>,
     <<"log", "stopped", "ui">>, <<"stopped", "ui">>, <<"log", "stopped">>, <<"stopped">>}

\* Those that end by updating the user interface, and those about to say "running".
UiTodos ==
    {<<"ui">>, <<"connect", "ui">>, <<"disconnect", "ui">>,
     <<"callback", "unlock", "ui">>, <<"unlock", "ui">>, <<"log", "ui">>,
     <<"log", "running", "ui">>, <<"running", "ui">>,
     <<"log", "stopped", "ui">>, <<"stopped", "ui">>}

RunningTodos ==
    {<<"log", "running", "ui">>, <<"running", "ui">>, <<"log", "running">>, <<"running">>}

LockedTodos == {<<"callback", "unlock", "ui">>, <<"unlock", "ui">>}

UpdaterTodos ==
    {<<>>, <<"messages", "network">>, <<"network">>, <<"callback", "unlock">>, <<"unlock">>,
     <<"property", "messages", "network">>}
      \cup {<<"logs", r, "messages", "network">> : r \in AppRequests}
      \cup {<<r, "messages", "network">> : r \in AppRequests}

PreparerTodos ==
    {<<>>, <<"logs", "log", "prepare", "updateui">>, <<"log", "prepare", "updateui">>,
     <<"prepare", "updateui">>, <<"updateui">>}

Todos == WindowTodos \cup UpdaterTodos \cup PreparerTodos

Shapes ==
    /\ todo \in [Threads -> Todos]
    /\ todo[Window] \in WindowTodos
    /\ todo[Updater] \in UpdaterTodos
    /\ todo[Preparer] \in PreparerTodos

LEMMA ShapesTyped == \A q \in Todos : q \in Seq(Items)
<1>1. /\ "ui" \in Items /\ "connect" \in Items /\ "disconnect" \in Items
      /\ "callback" \in Items /\ "unlock" \in Items /\ "log" \in Items
      /\ "running" \in Items /\ "stopped" \in Items /\ "messages" \in Items
      /\ "network" \in Items /\ "property" \in Items /\ "logs" \in Items
      /\ "prepare" \in Items /\ "updateui" \in Items
      /\ \A r \in AppRequests : r \in Items
  BY DEF Items, Messages, Requests, AppRequests, RunStatus
<1>2. \A q \in WindowTodos : q \in Seq(Items)
  <2>1. /\ <<>> \in Seq(Items) /\ <<"ui">> \in Seq(Items)
        /\ <<"connect", "ui">> \in Seq(Items) /\ <<"disconnect", "ui">> \in Seq(Items)
        /\ <<"callback", "unlock", "ui">> \in Seq(Items) /\ <<"unlock", "ui">> \in Seq(Items)
        /\ <<"log">> \in Seq(Items) /\ <<"log", "ui">> \in Seq(Items)
        /\ <<"log", "running", "ui">> \in Seq(Items) /\ <<"running", "ui">> \in Seq(Items)
        /\ <<"log", "running">> \in Seq(Items) /\ <<"running">> \in Seq(Items)
        /\ <<"log", "stopped", "ui">> \in Seq(Items) /\ <<"stopped", "ui">> \in Seq(Items)
        /\ <<"log", "stopped">> \in Seq(Items) /\ <<"stopped">> \in Seq(Items)
    BY <1>1
  <2> QED
    BY <2>1 DEF WindowTodos
<1>3. \A q \in UpdaterTodos : q \in Seq(Items)
  <2>1. /\ <<>> \in Seq(Items) /\ <<"messages", "network">> \in Seq(Items)
        /\ <<"network">> \in Seq(Items) /\ <<"callback", "unlock">> \in Seq(Items)
        /\ <<"unlock">> \in Seq(Items)
        /\ <<"property", "messages", "network">> \in Seq(Items)
        /\ \A r \in AppRequests : <<"logs", r, "messages", "network">> \in Seq(Items)
        /\ \A r \in AppRequests : <<r, "messages", "network">> \in Seq(Items)
    BY <1>1
  <2> QED
    BY <2>1 DEF UpdaterTodos
<1>4. \A q \in PreparerTodos : q \in Seq(Items)
  <2>1. /\ <<>> \in Seq(Items) /\ <<"logs", "log", "prepare", "updateui">> \in Seq(Items)
        /\ <<"log", "prepare", "updateui">> \in Seq(Items)
        /\ <<"prepare", "updateui">> \in Seq(Items) /\ <<"updateui">> \in Seq(Items)
    BY <1>1
  <2> QED
    BY <2>1 DEF PreparerTodos
<1> QED
  BY <1>2, <1>3, <1>4 DEF Todos

LEMMA WindowItems ==
    /\ \A q \in WindowTodos : (\E i \in DOMAIN q : q[i] = "unlock") <=> q \in LockedTodos
    /\ \A q \in RunningTodos : \E i \in DOMAIN q : q[i] = "running"
<1>1. \A q \in WindowTodos : (\E i \in DOMAIN q : q[i] = "unlock") <=> q \in LockedTodos
  BY DEF WindowTodos, LockedTodos
<1>2. \A q \in RunningTodos : \E i \in DOMAIN q : q[i] = "running"
  BY DEF RunningTodos
<1> QED
  BY <1>1, <1>2

LEMMA LiteralConcat ==
    \A a, b, c, d : /\ <<a, b>> \o <<c, d>> = <<a, b, c, d>>
                    /\ <<a>> \o <<c, d>> = <<a, c, d>>
                    /\ <<a, b>> \o <<c>> = <<a, b, c>>
<1> SUFFICES ASSUME NEW a, NEW b, NEW c, NEW d
             PROVE  /\ <<a, b>> \o <<c, d>> = <<a, b, c, d>>
                    /\ <<a>> \o <<c, d>> = <<a, c, d>>
                    /\ <<a, b>> \o <<c>> = <<a, b, c>>
  OBVIOUS
<1> DEFINE S == {a, b, c, d}
<1>1. /\ <<a, b>> \in Seq(S) /\ Len(<<a, b>>) = 2
      /\ <<a>> \in Seq(S) /\ Len(<<a>>) = 1
      /\ <<c, d>> \in Seq(S) /\ Len(<<c, d>>) = 2
      /\ <<c>> \in Seq(S) /\ Len(<<c>>) = 1
  OBVIOUS
<1> HIDE DEF S
<1>2. <<a, b>> \o <<c, d>> = <<a, b, c, d>>
  <2> DEFINE q == <<a, b>> \o <<c, d>>
  <2>1. /\ q \in Seq(S) /\ Len(q) = 4
        /\ q[1] = a /\ q[2] = b /\ q[3] = c /\ q[4] = d
    BY <1>1, ConcatProperties
  <2> HIDE DEF q
  <2>2. q = <<a, b, c, d>>
    BY <2>1
  <2> QED
    BY <2>2 DEF q
<1>3. <<a>> \o <<c, d>> = <<a, c, d>>
  <2> DEFINE q == <<a>> \o <<c, d>>
  <2>1. /\ q \in Seq(S) /\ Len(q) = 3
        /\ q[1] = a /\ q[2] = c /\ q[3] = d
    BY <1>1, ConcatProperties
  <2> HIDE DEF q
  <2>2. q = <<a, c, d>>
    BY <2>1
  <2> QED
    BY <2>2 DEF q
<1>4. <<a, b>> \o <<c>> = <<a, b, c>>
  <2> DEFINE q == <<a, b>> \o <<c>>
  <2>1. /\ q \in Seq(S) /\ Len(q) = 3
        /\ q[1] = a /\ q[2] = b /\ q[3] = c
    BY <1>1, ConcatProperties
  <2> HIDE DEF q
  <2>2. q = <<a, b, c>>
    BY <2>1
  <2> QED
    BY <2>2 DEF q
<1> QED
  BY <1>2, <1>3, <1>4

-------------------------------------------------------------------------------
(* The requests about the application in a sequence *)

NoApp(q) == \A i \in DOMAIN q : q[i] \notin AppRequests

\* The last one is r.
EndsWith(q, r) ==
    \E i \in DOMAIN q : q[i] = r /\ \A j \in DOMAIN q : q[j] \in AppRequests => j <= i

LEMMA AppOfTail ==
    ASSUME NEW q \in Seq(Items), q # <<>>
    PROVE  /\ Head(q) \in Items /\ Tail(q) \in Seq(Items)
           /\ Len(Tail(q)) = Len(q) - 1
           /\ Range(q) = {Head(q)} \cup Range(Tail(q))
           /\ NoApp(q) <=> Head(q) \notin AppRequests /\ NoApp(Tail(q))
           /\ \A r : EndsWith(q, r) /\ ~NoApp(Tail(q)) => EndsWith(Tail(q), r)
           /\ \A r : EndsWith(q, r) /\ NoApp(Tail(q)) /\ r \in AppRequests => r = Head(q)
<1> DEFINE u == Tail(q)
<1>1. /\ Len(q) \in Nat /\ Len(q) > 0 /\ DOMAIN q = 1 .. Len(q)
      /\ Head(q) = q[1] /\ Head(q) \in Items
      /\ u \in Seq(Items) /\ Len(u) = Len(q) - 1 /\ DOMAIN u = 1 .. Len(q) - 1
      /\ \A i \in 1 .. Len(q) - 1 : u[i] = q[i + 1]
  BY HeadTailProperties, LenProperties, EmptySeq
<1> HIDE DEF u
<1>2. /\ \A i \in DOMAIN q : i = 1 \/ (i - 1 \in DOMAIN u /\ q[i] = u[i - 1])
      /\ \A i \in DOMAIN u : i + 1 \in DOMAIN q /\ q[i + 1] = u[i]
      /\ 1 \in DOMAIN q
  BY <1>1
<1>3. Range(q) = {Head(q)} \cup Range(u)
  <2>1. \A x \in Range(q) : x = Head(q) \/ x \in Range(u)
    BY <1>1, <1>2 DEF Range
  <2>2. Head(q) \in Range(q)
    BY <1>1 DEF Range
  <2>3. \A x \in Range(u) : x \in Range(q)
    BY <1>2 DEF Range
  <2> QED
    BY <2>1, <2>2, <2>3
<1>4. NoApp(q) <=> Head(q) \notin AppRequests /\ NoApp(u)
  BY <1>1, <1>2 DEF NoApp
<1>5. ASSUME NEW r, EndsWith(q, r), ~NoApp(u)
      PROVE  EndsWith(u, r)
  <2>1. PICK i \in DOMAIN q : q[i] = r /\ \A j \in DOMAIN q : q[j] \in AppRequests => j <= i
    BY <1>5 DEF EndsWith
  <2>2. PICK k \in DOMAIN u : u[k] \in AppRequests
    BY <1>5 DEF NoApp
  <2>3. k + 1 <= i /\ i - 1 \in DOMAIN u /\ u[i - 1] = r
    BY <1>1, <1>2, <2>1, <2>2
  <2>4. \A j \in DOMAIN u : u[j] \in AppRequests => j <= i - 1
    BY <1>1, <1>2, <2>1
  <2> QED
    BY <2>3, <2>4 DEF EndsWith
<1>6. ASSUME NEW r, EndsWith(q, r), NoApp(u), r \in AppRequests
      PROVE  r = Head(q)
  BY <1>1, <1>2, <1>6 DEF EndsWith, NoApp
<1> QED
  BY <1>1, <1>3, <1>4, <1>5, <1>6 DEF u

LEMMA AppOfAppend ==
    ASSUME NEW q \in Seq(Items), NEW e \in Items
    PROVE  /\ Append(q, e) \in Seq(Items) /\ Len(Append(q, e)) = Len(q) + 1
           /\ Range(Append(q, e)) = Range(q) \cup {e}
           /\ NoApp(Append(q, e)) <=> NoApp(q) /\ e \notin AppRequests
           /\ e \in AppRequests => EndsWith(Append(q, e), e)
           /\ e \notin AppRequests =>
                 \A r : EndsWith(q, r) => EndsWith(Append(q, e), r)
<1> DEFINE u == Append(q, e)
<1>1. /\ u \in Seq(Items) /\ Len(u) = Len(q) + 1 /\ Len(q) \in Nat
      /\ DOMAIN q = 1 .. Len(q) /\ DOMAIN u = 1 .. Len(q) + 1
      /\ u[Len(q) + 1] = e /\ \A i \in 1 .. Len(q) : u[i] = q[i]
  BY AppendProperties, LenProperties
<1>2. Range(u) = Range(q) \cup {e}
  BY RangeOfAppend
<1> HIDE DEF u
<1>3. \A i \in DOMAIN u : i = Len(q) + 1 \/ (i \in DOMAIN q /\ u[i] = q[i])
  BY <1>1
<1>4. NoApp(u) <=> NoApp(q) /\ e \notin AppRequests
  BY <1>1, <1>3 DEF NoApp
<1>5. e \in AppRequests => EndsWith(u, e)
  BY <1>1 DEF EndsWith
<1>6. ASSUME NEW r, EndsWith(q, r), e \notin AppRequests
      PROVE  EndsWith(u, r)
  BY <1>1, <1>3, <1>6 DEF EndsWith
<1> QED
  BY <1>1, <1>2, <1>4, <1>5, <1>6 DEF u

-------------------------------------------------------------------------------
(* How the rests of functions shrink *)

WindowItemsUsed ==
    {"ui", "connect", "disconnect", "callback", "unlock", "log", "running", "stopped"}

WindowMove(q) ==
    /\ Head(q) \in WindowItemsUsed
    /\ Tail(q) \in WindowTodos /\ Tail(q) # <<"connect", "ui">>
    /\ Head(q) \in {"connect", "disconnect"} => Tail(q) = <<"ui">>
    /\ Head(q) = "connect" => q = <<"connect", "ui">>
    /\ Head(q) # "ui" => (Tail(q) \in UiTodos <=> q \in UiTodos)
    /\ Tail(q) \in RunningTodos => q \in RunningTodos
    /\ Head(q) = "running" => q \in RunningTodos
    /\ Head(q) # "unlock" => (Tail(q) \in LockedTodos <=> q \in LockedTodos)
    /\ Head(q) = "unlock" => q \in LockedTodos /\ Tail(q) \notin LockedTodos

LEMMA WindowMoves == \A q \in WindowTodos \ {<<>>} : WindowMove(q)
<1> SUFFICES ASSUME NEW q \in WindowTodos, q # <<>>
             PROVE  WindowMove(q)
  OBVIOUS
<1>0. /\ <<"ui">> # <<"connect", "ui">> /\ <<>> # <<"connect", "ui">>
  OBVIOUS
<1> USE DEF WindowMove, WindowItemsUsed, WindowTodos, UiTodos, RunningTodos, LockedTodos
<1>1. CASE q = <<"ui">>
  BY <1>1
<1>2. CASE q = <<"connect", "ui">>
  BY <1>2
<1>3. CASE q = <<"disconnect", "ui">>
  BY <1>3
<1>4. CASE q = <<"callback", "unlock", "ui">>
  BY <1>4
<1>5. CASE q = <<"unlock", "ui">>
  BY <1>5
<1>6. CASE q = <<"log">>
  BY <1>6
<1>7. CASE q = <<"log", "ui">>
  BY <1>7
<1>8. CASE q = <<"log", "running", "ui">>
  BY <1>8
<1>9. CASE q = <<"running", "ui">>
  BY <1>9
<1>10. CASE q = <<"log", "running">>
  BY <1>10
<1>11. CASE q = <<"running">>
  BY <1>11
<1>12. CASE q = <<"log", "stopped", "ui">>
  BY <1>12
<1>13. CASE q = <<"stopped", "ui">>
  BY <1>13
<1>14. CASE q = <<"log", "stopped">>
  BY <1>14
<1>15. CASE q = <<"stopped">>
  BY <1>15
<1> QED
  BY <1>1, <1>2, <1>3, <1>4, <1>5, <1>6, <1>7, <1>8, <1>9, <1>10, <1>11, <1>12, <1>13,
     <1>14, <1>15

UpdaterMove(q) ==
    /\ Head(q) \in Messages \cup {"messages", "network", "callback", "unlock"}
    /\ Tail(q) \in UpdaterTodos
    /\ Head(q) # "unlock" => Tail(q) # <<>> \/ Head(q) = "network"
    /\ Head(q) \in Messages => Head(Tail(q)) # "callback"
    /\ Head(q) = "messages" => q = <<"messages", "network">> /\ Tail(q) = <<"network">>
    /\ Head(q) = "network" => q = <<"network">>
    /\ Head(q) = "callback" => q = <<"callback", "unlock">> /\ Tail(q) = <<"unlock">>
    /\ Head(q) = "unlock" => q = <<"unlock">> /\ Tail(q) = <<>>
    /\ Head(q) \in AppRequests => NoApp(Tail(q))

LEMMA UpdaterMoves == \A q \in UpdaterTodos \ {<<>>} : UpdaterMove(q)
<1> SUFFICES ASSUME NEW q \in UpdaterTodos, q # <<>>
             PROVE  UpdaterMove(q)
  OBVIOUS
<1> USE DEF UpdaterMove, UpdaterTodos, Messages, Requests, AppRequests, NoApp
<1>1. CASE q = <<"messages", "network">>
  BY <1>1
<1>2. CASE q = <<"network">>
  BY <1>2
<1>3. CASE q = <<"callback", "unlock">>
  BY <1>3
<1>4. CASE q = <<"unlock">>
  BY <1>4
<1>5. CASE q = <<"property", "messages", "network">>
  BY <1>5
<1>6. ASSUME NEW r \in AppRequests, q = <<"logs", r, "messages", "network">>
      PROVE  UpdaterMove(q)
  BY <1>6
<1>7. ASSUME NEW r \in AppRequests, q = <<r, "messages", "network">>
      PROVE  UpdaterMove(q)
  BY <1>7
<1> QED
  BY <1>1, <1>2, <1>3, <1>4, <1>5, <1>6, <1>7

PreparerMove(q) ==
    /\ Head(q) \in {"logs", "log", "prepare", "updateui"}
    /\ Tail(q) \in PreparerTodos
    /\ Tail(q) = <<>> <=> Head(q) = "updateui"
    /\ Tail(q) \in {<<>>, <<"updateui">>} <=> Head(q) \in {"prepare", "updateui"}

LEMMA PreparerMoves == \A q \in PreparerTodos \ {<<>>} : PreparerMove(q)
<1> SUFFICES ASSUME NEW q \in PreparerTodos, q # <<>>
             PROVE  PreparerMove(q)
  OBVIOUS
<1> USE DEF PreparerMove, PreparerTodos
<1>1. CASE q = <<"logs", "log", "prepare", "updateui">>
  BY <1>1
<1>2. CASE q = <<"log", "prepare", "updateui">>
  BY <1>2
<1>3. CASE q = <<"prepare", "updateui">>
  BY <1>3
<1>4. CASE q = <<"updateui">>
  BY <1>4
<1> QED
  BY <1>1, <1>2, <1>3, <1>4

-------------------------------------------------------------------------------
(* The inductive invariant *)

LockOK ==
    /\ holder \in {Nobody, Window, Updater}
    /\ holder = Updater <=> todo[Updater] # <<>>
    /\ holder = Window <=> todo[Window] \in LockedTodos

ChannelOK == channel \in Seq(Messages) /\ Len(channel) <= Capacity

GameOK ==
    /\ buttons \in {"none", "connect", "disconnect"}
    /\ state \in {"preparing", "prepareFailed", "ready", "running"}
    /\ game \in BOOLEAN /\ ran \in {"none", "nothing", "game"}
    /\ defied \in BOOLEAN
    /\ game \/ defied => state = "running"

NetOK ==
    /\ conn \in {"down", "connecting", "up"}
    /\ wire \in Seq(Requests) /\ received \in Seq(Requests)
    /\ value \in RunStatus /\ known \in RunStatus
    /\ updates \in Seq(RunStatus) /\ changed \in BOOLEAN
    /\ conn # "up" => wire = <<>> /\ updates = <<>> /\ ~changed
    /\ last \in AppRequests \cup {"none"}
    /\ asked \in 0 .. MaxRequests /\ connects \in 0 .. MaxConnects

Typed == Shapes /\ LockOK /\ ChannelOK /\ GameOK /\ NetOK

\* Nobody connects, asks or is asked before the launcher is prepared.
PreparedInv ==
    /\ todo[Preparer] \notin {<<>>, <<"updateui">>} => state = "preparing"
    /\ \/ conn # "down" \/ buttons # "none" \/ todo[Window] = <<"connect", "ui">>
       \/ received # <<>> \/ ~NoApp(todo[Updater]) \/ ~NoApp(channel)
       => state \in {"ready", "running"}

\* Who changes what the button depends on has an update of it left to do, or to ask for.
ButtonsInv ==
    \/ todo[Window] \in UiTodos \/ todo[Preparer] # <<>>
    \/ Place(Updater) = "callback"
    \/ "updateui" \in Range(channel)
    \/ buttons = EnabledButton

\* All the ways by which "running" gets to the server.
PhantomInv ==
    /\ conn = "up"
    /\ \/ known = "running" \/ value = "running" \/ "running" \in Range(updates)
       \/ todo[Window] \in RunningTodos \/ state = "running"
    => ran # "none"

\* The last request that reached the launcher is the last one on the way to the window.
HeededInv ==
    /\ ~NoApp(received) => EndsWith(received, last)
    /\ NoApp(received) /\ ~NoApp(todo[Updater]) => EndsWith(todo[Updater], last)
    /\ NoApp(received) /\ NoApp(todo[Updater]) /\ ~NoApp(channel) => EndsWith(channel, last)
    /\ NoApp(received) /\ NoApp(todo[Updater]) /\ NoApp(channel) /\ last \in {"stop", "kill"}
       => state # "running" \/ defied

Inv == Typed /\ PreparedInv /\ ButtonsInv /\ PhantomInv /\ HeededInv

LEMMA InvImplies ==
    Inv => /\ TypeOK /\ LastRequestHeeded /\ NoPhantomRun /\ ButtonsFit /\ PreparedWhenAsked
<1> SUFFICES ASSUME Inv
             PROVE  /\ TypeOK /\ LastRequestHeeded /\ NoPhantomRun /\ ButtonsFit
                    /\ PreparedWhenAsked
  OBVIOUS
<1>1. TypeOK
  <2>1. todo \in [Threads -> Seq(Items)]
    BY ShapesTyped DEF Inv, Typed, Shapes
  <2>2. holder = Window <=> \E i \in DOMAIN todo[Window] : todo[Window][i] = "unlock"
    BY WindowItems DEF Inv, Typed, Shapes, LockOK
  <2> QED
    BY <2>1, <2>2 DEF Inv, Typed, LockOK, ChannelOK, GameOK, NetOK, TypeOK
<1>2. LastRequestHeeded
  <2>1. ASSUME OnTheWay = {}
        PROVE  NoApp(received) /\ NoApp(todo[Updater]) /\ NoApp(channel)
    BY <2>1 DEF OnTheWay, NoApp, Range
  <2> QED
    BY <2>1 DEF LastRequestHeeded, Inv, HeededInv
<1>3. NoPhantomRun
  BY DEF Inv, PhantomInv, NoPhantomRun
<1>4. ButtonsFit
  <2>1. <<>> \notin UiTodos
    BY DEF UiTodos
  <2> QED
    BY <2>1 DEF Inv, ButtonsInv, ButtonsFit, UpdateDue
<1>5. PreparedWhenAsked
  <2> SUFFICES ASSUME Range(wire) \cup OnTheWay # {}
               PROVE  state \in {"ready", "running"}
    BY DEF PreparedWhenAsked
  <2>1. CASE Range(wire) # {}
    <3>1. wire # <<>>
      BY <2>1 DEF Range
    <3> QED
      BY <3>1 DEF Inv, Typed, NetOK, PreparedInv
  <2>2. CASE OnTheWay # {}
    <3>1. Range(received) # {} => received # <<>>
      BY DEF Range
    <3>2. \/ received # <<>> \/ ~NoApp(todo[Updater]) \/ ~NoApp(channel)
      BY <2>2, <3>1 DEF OnTheWay, NoApp, Range
    <3> QED
      BY <3>2 DEF Inv, PreparedInv
  <2> QED
    BY <2>1, <2>2
<1> QED
  BY <1>1, <1>2, <1>3, <1>4, <1>5

LEMMA InitInv == Init => Inv
<1> SUFFICES ASSUME Init
             PROVE  Inv
  OBVIOUS
<1>1. /\ todo[Window] = <<>> /\ todo[Updater] = <<>>
      /\ todo[Preparer] = <<"logs", "log", "prepare", "updateui">>
      /\ DOMAIN todo = Threads
  BY ThreadsAssumption DEF Init, Threads
<1>2. Shapes
  <2>1. /\ <<>> \in Todos /\ todo[Preparer] \in Todos
        /\ todo[Window] \in WindowTodos /\ todo[Updater] \in UpdaterTodos
        /\ todo[Preparer] \in PreparerTodos
    BY <1>1 DEF Todos, WindowTodos, UpdaterTodos, PreparerTodos
  <2>2. todo = [t \in Threads |-> IF t = Preparer THEN todo[Preparer] ELSE <<>>]
    BY <1>1 DEF Init
  <2>3. todo \in [Threads -> Todos]
    BY <2>1, <2>2
  <2> QED
    BY <2>1, <2>3 DEF Shapes
<1>3. LockOK
  <2>1. <<>> \notin LockedTodos
    BY DEF LockedTodos
  <2> QED
    BY <1>1, <2>1, ThreadsAssumption DEF Init, LockOK
<1>4. ChannelOK /\ GameOK
  <2>1. <<>> \in Seq(Messages) /\ Len(<<>>) = 0
    BY EmptySeq
  <2>2. ChannelOK
    BY <2>1, BoundsAssumption DEF Init, ChannelOK
  <2>3. game \in BOOLEAN /\ ~game /\ defied \in BOOLEAN /\ ~defied
    BY Zenon DEF Init
  <2> QED
    BY <2>2, <2>3 DEF Init, GameOK
<1>5. NetOK
  <2>1. <<>> \in Seq(Requests) /\ <<>> \in Seq(RunStatus)
    BY EmptySeq
  <2>2. changed \in BOOLEAN /\ ~changed
    BY Zenon DEF Init
  <2>3. 0 \in 0 .. MaxRequests /\ 0 \in 0 .. MaxConnects
    BY BoundsAssumption
  <2> QED
    BY <2>1, <2>2, <2>3 DEF Init, NetOK, RunStatus
<1>6. NoApp(<<>>)
  BY DEF NoApp
<1>7. PreparedInv
  <2>1. <<>> # <<"connect", "ui">>
    OBVIOUS
  <2> QED
    BY <1>1, <1>6, <2>1 DEF Init, PreparedInv
<1>8. ButtonsInv
  BY <1>1 DEF Init, ButtonsInv, EnabledButton
<1>9. PhantomInv
  BY DEF Init, PhantomInv
<1>10. HeededInv
  BY <1>1, <1>6 DEF Init, HeededInv
<1> QED
  BY <1>2, <1>3, <1>4, <1>5, <1>7, <1>8, <1>9, <1>10 DEF Inv, Typed

-------------------------------------------------------------------------------
(* One thread takes a step *)

Others(t) == \A u \in Threads \ {t} : todo'[u] = todo[u]

LEMMA ThreadSet ==
    ASSUME Shapes, NEW t \in Threads
    PROVE  \A q : todo' = [todo EXCEPT ![t] = q] =>
                     /\ todo'[t] = q /\ Others(t)
                     /\ q \in Todos => todo' \in [Threads -> Todos]
BY DEF Shapes, Others

LEMMA WindowSet ==
    ASSUME Shapes
    PROVE  \A q \in WindowTodos : todo' = [todo EXCEPT ![Window] = q] =>
              Shapes' /\ todo'[Window] = q /\ Others(Window)
<1>1. Window \in Threads /\ Updater \in Threads \ {Window} /\ Preparer \in Threads \ {Window}
  BY ThreadsAssumption DEF Threads
<1> QED
  BY <1>1, ThreadSet DEF Shapes, Others, Todos

LEMMA UpdaterSet ==
    ASSUME Shapes
    PROVE  \A q \in UpdaterTodos : todo' = [todo EXCEPT ![Updater] = q] =>
              Shapes' /\ todo'[Updater] = q /\ Others(Updater)
<1>1. Updater \in Threads /\ Window \in Threads \ {Updater} /\ Preparer \in Threads \ {Updater}
  BY ThreadsAssumption DEF Threads
<1> QED
  BY <1>1, ThreadSet DEF Shapes, Others, Todos

LEMMA WindowDoes ==
    ASSUME Shapes, NEW item, item # "idle", Does(Window, item)
    PROVE  /\ todo[Window] # <<>> /\ Head(todo[Window]) = item /\ WindowMove(todo[Window])
           /\ Shapes' /\ todo'[Window] = Tail(todo[Window]) /\ Others(Window)
<1>1. todo[Window] # <<>> /\ Head(todo[Window]) = item
  BY DEF Does, Place
<1>2. WindowMove(todo[Window]) /\ Tail(todo[Window]) \in WindowTodos
  BY <1>1, WindowMoves DEF Shapes, WindowMove
<1> QED
  BY <1>1, <1>2, WindowSet DEF Does

LEMMA UpdaterDoes ==
    ASSUME Shapes, NEW item, item # "idle", Does(Updater, item)
    PROVE  /\ todo[Updater] # <<>> /\ Head(todo[Updater]) = item
           /\ UpdaterMove(todo[Updater])
           /\ Shapes' /\ todo'[Updater] = Tail(todo[Updater]) /\ Others(Updater)
<1>1. todo[Updater] # <<>> /\ Head(todo[Updater]) = item
  BY DEF Does, Place
<1>2. UpdaterMove(todo[Updater]) /\ Tail(todo[Updater]) \in UpdaterTodos
  BY <1>1, UpdaterMoves DEF Shapes, UpdaterMove
<1> QED
  BY <1>1, <1>2, UpdaterSet DEF Does

LEMMA PreparerDoes ==
    ASSUME Shapes, NEW item, item # "idle", Does(Preparer, item)
    PROVE  /\ todo[Preparer] # <<>> /\ Head(todo[Preparer]) = item
           /\ PreparerMove(todo[Preparer])
           /\ Shapes' /\ todo'[Preparer] = Tail(todo[Preparer]) /\ Others(Preparer)
<1>1. todo[Preparer] # <<>> /\ Head(todo[Preparer]) = item
  BY DEF Does, Place
<1>2. PreparerMove(todo[Preparer]) /\ Tail(todo[Preparer]) \in PreparerTodos
  BY <1>1, PreparerMoves DEF Shapes, PreparerMove
<1>3. /\ Preparer \in Threads /\ Window \in Threads \ {Preparer}
      /\ Updater \in Threads \ {Preparer}
  BY ThreadsAssumption DEF Threads
<1> QED
  BY <1>1, <1>2, <1>3, ThreadSet DEF Does, Shapes, Others, Todos

LEMMA WindowBegins ==
    ASSUME Shapes, NEW items \in WindowTodos, Begins(Window, items)
    PROVE  /\ todo[Window] = <<>>
           /\ Shapes' /\ todo'[Window] = items /\ Others(Window)
<1>1. todo[Window] = <<>>
  BY WindowMoves DEF Begins, Place, Shapes, WindowMove, WindowItemsUsed
<1> QED
  BY <1>1, WindowSet DEF Begins

-------------------------------------------------------------------------------
(* The window goes on *)

LEMMA PlaceOfOthers ==
    ASSUME Others(Window)
    PROVE  /\ todo'[Updater] = todo[Updater] /\ todo'[Preparer] = todo[Preparer]
           /\ Place(Updater)' = Place(Updater)
BY ThreadsAssumption DEF Others, Threads, Place

\* The requests on the way stay as they are, and no game starts.
LEMMA RequestsKept ==
    ASSUME Inv, UNCHANGED <<received, last, channel>>, todo'[Updater] = todo[Updater],
           state' = "running" => state = "running" /\ UNCHANGED defied
    PROVE  HeededInv'
BY DEF Inv, HeededInv

LEMMA SendLogWindowInv ==
    ASSUME Inv, SendLog(Window)
    PROVE  Inv'
<1>1. Does(Window, "log") /\ UNCHANGED <<holder, channel, buttons, gameVars, linkVars, netVars>>
  BY DEF SendLog
<1>2. UNCHANGED <<holder, channel, buttons, state, game, ran, defied, value, changed, updates, known,
                  conn, wire, received, last, asked, connects>>
  BY <1>1 DEF gameVars, linkVars, netVars
<1>3. /\ todo[Window] # <<>> /\ Head(todo[Window]) = "log" /\ WindowMove(todo[Window])
      /\ Shapes' /\ todo'[Window] = Tail(todo[Window]) /\ Others(Window)
  BY <1>1, WindowDoes DEF Inv, Typed
<1>4. /\ todo'[Updater] = todo[Updater] /\ todo'[Preparer] = todo[Preparer]
      /\ Place(Updater)' = Place(Updater)
  BY <1>3, PlaceOfOthers
<1>5. Typed'
  BY <1>2, <1>3, <1>4 DEF Inv, Typed, LockOK, ChannelOK, GameOK, NetOK, WindowMove
<1>6. PreparedInv'
  BY <1>2, <1>3, <1>4 DEF Inv, PreparedInv, WindowMove
<1>7. ButtonsInv'
  BY <1>2, <1>3, <1>4 DEF Inv, ButtonsInv, EnabledButton, WindowMove
<1>8. PhantomInv'
  BY <1>2, <1>3, <1>4 DEF Inv, PhantomInv, WindowMove
<1> QED
  BY <1>2, <1>4, <1>5, <1>6, <1>7, <1>8, RequestsKept DEF Inv

LEMMA ConnectToHostInv ==
    ASSUME Inv, ConnectToHost
    PROVE  Inv'
<1>1. /\ Does(Window, "connect")
      /\ UNCHANGED <<holder, channel, buttons, state, game, ran, defied, value, changed, updates, known,
                     wire, received, last, asked, connects>>
      /\ conn' = conn \/ (conn = "down" /\ conn' \in {"connecting", "down"})
  BY DEF ConnectToHost, gameVars, linkVars
<1>2. /\ todo[Window] # <<>> /\ Head(todo[Window]) = "connect" /\ WindowMove(todo[Window])
      /\ Shapes' /\ todo'[Window] = Tail(todo[Window]) /\ Others(Window)
  BY <1>1, WindowDoes DEF Inv, Typed
<1>3. /\ todo'[Updater] = todo[Updater] /\ todo'[Preparer] = todo[Preparer]
      /\ Place(Updater)' = Place(Updater)
  BY <1>2, PlaceOfOthers
<1>4. Typed'
  BY <1>1, <1>2, <1>3 DEF Inv, Typed, LockOK, ChannelOK, GameOK, NetOK, WindowMove
<1>5. PreparedInv'
  BY <1>1, <1>2, <1>3 DEF Inv, PreparedInv, WindowMove
<1>6. ButtonsInv'
  BY <1>1, <1>2, <1>3 DEF Inv, ButtonsInv, EnabledButton, WindowMove, UiTodos
<1>7. PhantomInv'
  BY <1>1, <1>2, <1>3 DEF Inv, PhantomInv, WindowMove
<1> QED
  BY <1>1, <1>3, <1>4, <1>5, <1>6, <1>7, RequestsKept DEF Inv

LEMMA UpdateUIStatesInv ==
    ASSUME Inv, UpdateUIStates
    PROVE  Inv'
<1>1. /\ Does(Window, "ui")
      /\ UNCHANGED <<holder, channel, state, game, ran, defied, value, changed, updates, known,
                     conn, wire, received, last, asked, connects>>
      /\ buttons' = EnabledButton
  BY DEF UpdateUIStates, gameVars, linkVars, netVars
<1>2. /\ todo[Window] # <<>> /\ Head(todo[Window]) = "ui" /\ WindowMove(todo[Window])
      /\ Shapes' /\ todo'[Window] = Tail(todo[Window]) /\ Others(Window)
  BY <1>1, WindowDoes DEF Inv, Typed
<1>3. /\ todo'[Updater] = todo[Updater] /\ todo'[Preparer] = todo[Preparer]
  BY <1>2, PlaceOfOthers
<1>4. /\ buttons' \in {"none", "connect", "disconnect"}
      /\ buttons' # "none" => state \notin {"preparing", "prepareFailed"}
      /\ EnabledButton' = EnabledButton
  <2>1. EnabledButton' = EnabledButton
    BY <1>1 DEF EnabledButton
  <2>2. /\ EnabledButton \in {"none", "connect", "disconnect"}
        /\ state \in {"preparing", "prepareFailed"} => EnabledButton = "none"
    BY DEF EnabledButton
  <2> QED
    BY <1>1, <2>1, <2>2
<1>5. Typed'
  BY <1>1, <1>2, <1>3, <1>4 DEF Inv, Typed, LockOK, ChannelOK, GameOK, NetOK, WindowMove
<1>6. PreparedInv'
  BY <1>1, <1>2, <1>3, <1>4 DEF Inv, PreparedInv, Typed, GameOK, WindowMove
<1>7. ButtonsInv'
  BY <1>1, <1>4 DEF ButtonsInv
<1>8. PhantomInv'
  BY <1>1, <1>2, <1>3 DEF Inv, PhantomInv, WindowMove
<1> QED
  BY <1>1, <1>3, <1>5, <1>6, <1>7, <1>8, RequestsKept DEF Inv

LEMMA SetRunStatusInv ==
    ASSUME Inv, SetRunStatus
    PROVE  Inv'
<1>1. PICK status \in RunStatus :
         /\ Does(Window, status)
         /\ value' = status
         /\ changed' = (changed \/ (conn = "up" /\ status # value))
         /\ UNCHANGED <<holder, channel, buttons, state, game, ran, defied, updates, known,
                        conn, wire, received, last, asked, connects>>
  BY Zenon DEF SetRunStatus, SetValue, gameVars, netVars
<1>2. /\ todo[Window] # <<>> /\ Head(todo[Window]) = status /\ WindowMove(todo[Window])
      /\ Shapes' /\ todo'[Window] = Tail(todo[Window]) /\ Others(Window)
  BY <1>1, WindowDoes DEF Inv, Typed, RunStatus
<1>3. /\ todo'[Updater] = todo[Updater] /\ todo'[Preparer] = todo[Preparer]
      /\ Place(Updater)' = Place(Updater)
  BY <1>2, PlaceOfOthers
<1>4. changed' \in BOOLEAN /\ (conn # "up" => ~changed')
  <2>1. changed' \in BOOLEAN
    BY <1>1, Zenon
  <2>2. conn # "up" => ~changed
    BY DEF Inv, Typed, NetOK
  <2> QED
    BY <1>1, <2>1, <2>2, Zenon
<1>5. NetOK'
  BY <1>1, <1>4 DEF Inv, Typed, NetOK
<1>6. Typed'
  BY <1>1, <1>2, <1>3, <1>5 DEF Inv, Typed, LockOK, ChannelOK, GameOK, WindowMove, RunStatus
<1>7. PreparedInv'
  BY <1>1, <1>2, <1>3 DEF Inv, PreparedInv, WindowMove
<1>8. ButtonsInv'
  BY <1>1, <1>2, <1>3 DEF Inv, ButtonsInv, EnabledButton, WindowMove, RunStatus
<1>9. PhantomInv'
  BY <1>1, <1>2, <1>3 DEF Inv, PhantomInv, WindowMove
<1> QED
  BY <1>1, <1>3, <1>6, <1>7, <1>8, <1>9, RequestsKept DEF Inv

LEMMA UnlockWindowInv ==
    ASSUME Inv, Unlock(Window)
    PROVE  Inv'
<1>1. /\ Does(Window, "unlock")
      /\ holder' = Nobody
      /\ UNCHANGED <<channel, buttons, state, game, ran, defied, value, changed, updates, known,
                     conn, wire, received, last, asked, connects>>
  BY DEF Unlock, gameVars, linkVars, netVars
<1>2. /\ todo[Window] # <<>> /\ Head(todo[Window]) = "unlock" /\ WindowMove(todo[Window])
      /\ Shapes' /\ todo'[Window] = Tail(todo[Window]) /\ Others(Window)
  BY <1>1, WindowDoes DEF Inv, Typed
<1>3. /\ todo'[Updater] = todo[Updater] /\ todo'[Preparer] = todo[Preparer]
      /\ Place(Updater)' = Place(Updater)
  BY <1>2, PlaceOfOthers
<1>4. LockOK'
  BY <1>1, <1>2, <1>3, ThreadsAssumption DEF Inv, Typed, LockOK, WindowMove
<1>5. Typed'
  BY <1>1, <1>2, <1>4 DEF Inv, Typed, ChannelOK, GameOK, NetOK
<1>6. PreparedInv'
  BY <1>1, <1>2, <1>3 DEF Inv, PreparedInv, WindowMove
<1>7. ButtonsInv'
  BY <1>1, <1>2, <1>3 DEF Inv, ButtonsInv, EnabledButton, WindowMove
<1>8. PhantomInv'
  BY <1>1, <1>2, <1>3 DEF Inv, PhantomInv, WindowMove
<1> QED
  BY <1>1, <1>3, <1>5, <1>6, <1>7, <1>8, RequestsKept DEF Inv

LEMMA MessagePosted ==
    ASSUME Inv, NEW m \in Messages, Message(m)
    PROVE  /\ ChannelOK'
           /\ Range(channel') = Range(channel) \cup {m}
           /\ NoApp(channel') <=> NoApp(channel) /\ m \notin AppRequests
           /\ m \in AppRequests => EndsWith(channel', m)
           /\ m \notin AppRequests => \A r : EndsWith(channel, r) => EndsWith(channel', r)
<1>1. m \in Items /\ Messages \subseteq Items
  BY DEF Items
<1>2. /\ channel \in Seq(Messages) /\ channel \in Seq(Items)
      /\ Len(channel) \in Nat
      /\ Len(channel) < Capacity /\ channel' = Append(channel, m)
  <2>1. channel \in Seq(Messages) /\ channel \in Seq(Items)
    BY <1>1, SeqMonotonic DEF Inv, Typed, ChannelOK
  <2>2. Len(channel) \in Nat
    BY <2>1, LenProperties
  <2> QED
    BY <2>1, <2>2, BoundsAssumption DEF Message, Full
<1>3. channel' \in Seq(Messages)
  BY <1>2, AppendProperties
<1>4. /\ Len(channel') = Len(channel) + 1
      /\ Range(channel') = Range(channel) \cup {m}
      /\ NoApp(channel') <=> NoApp(channel) /\ m \notin AppRequests
      /\ m \in AppRequests => EndsWith(channel', m)
      /\ m \notin AppRequests => \A r : EndsWith(channel, r) => EndsWith(channel', r)
  BY <1>1, <1>2, AppOfAppend
<1> QED
  BY <1>2, <1>3, <1>4, BoundsAssumption DEF ChannelOK

LEMMA AppendUpdate ==
    ASSUME Inv, Message("updateui")
    PROVE  /\ ChannelOK' /\ "updateui" \in Range(channel')
           /\ NoApp(channel') <=> NoApp(channel)
           /\ \A r : EndsWith(channel, r) => EndsWith(channel', r)
<1>1. "updateui" \in Messages /\ "updateui" \notin AppRequests
  BY DEF Messages, Requests, AppRequests
<1> QED
  BY <1>1, MessagePosted

LEMMA RequestUpdateUIStatesInv ==
    ASSUME Inv, RequestUpdateUIStates(Window) \/ RequestUpdateUIStates(Updater)
    PROVE  Inv'
<1>1. /\ Message("updateui")
      /\ UNCHANGED <<holder, buttons, state, game, ran, defied, value, changed, updates, known,
                     conn, wire, received, last, asked, connects>>
  BY DEF RequestUpdateUIStates, gameVars, linkVars, netVars
<1>2. /\ ChannelOK' /\ "updateui" \in Range(channel')
      /\ NoApp(channel') <=> NoApp(channel)
      /\ \A r : EndsWith(channel, r) => EndsWith(channel', r)
  BY <1>1, AppendUpdate
<1>3. ButtonsInv'
  BY <1>2 DEF ButtonsInv
<1>4. CASE RequestUpdateUIStates(Window)
  <2>1. /\ todo[Window] # <<>> /\ Head(todo[Window]) = "callback" /\ WindowMove(todo[Window])
        /\ Shapes' /\ todo'[Window] = Tail(todo[Window]) /\ Others(Window)
    BY <1>4, WindowDoes DEF Inv, Typed, RequestUpdateUIStates
  <2>2. /\ todo'[Updater] = todo[Updater] /\ todo'[Preparer] = todo[Preparer]
    BY <2>1, PlaceOfOthers
  <2>3. Typed'
    BY <1>1, <1>2, <2>1, <2>2 DEF Inv, Typed, LockOK, GameOK, NetOK, WindowMove
  <2>4. PreparedInv'
    BY <1>1, <1>2, <2>1, <2>2 DEF Inv, PreparedInv, WindowMove
  <2>5. PhantomInv'
    BY <1>1, <1>2, <2>1, <2>2 DEF Inv, PhantomInv, WindowMove
  <2>6. HeededInv'
    BY <1>1, <1>2, <2>2 DEF Inv, HeededInv
  <2> QED
    BY <1>3, <2>3, <2>4, <2>5, <2>6 DEF Inv
<1>5. CASE RequestUpdateUIStates(Updater)
  <2>1. /\ todo[Updater] # <<>> /\ Head(todo[Updater]) = "callback"
        /\ UpdaterMove(todo[Updater])
        /\ Shapes' /\ todo'[Updater] = Tail(todo[Updater]) /\ Others(Updater)
    BY <1>5, UpdaterDoes DEF Inv, Typed, RequestUpdateUIStates
  <2>2. /\ todo'[Window] = todo[Window] /\ todo'[Preparer] = todo[Preparer]
    BY <2>1, ThreadsAssumption DEF Others, Threads
  <2>3. /\ todo'[Updater] # <<>> /\ NoApp(todo'[Updater])
    <3>1. todo'[Updater] = <<"unlock">>
      BY <2>1 DEF UpdaterMove
    <3> QED
      BY <3>1 DEF NoApp, AppRequests
  <2>4. NoApp(todo[Updater])
    <3>1. todo[Updater] = <<"callback", "unlock">>
      BY <2>1 DEF UpdaterMove
    <3> QED
      BY <3>1 DEF NoApp, AppRequests
  <2>5. Typed'
    BY <1>1, <1>2, <2>1, <2>2, <2>3 DEF Inv, Typed, LockOK, GameOK, NetOK
  <2>6. PreparedInv'
    BY <1>1, <1>2, <2>2, <2>3, <2>4 DEF Inv, PreparedInv
  <2>7. PhantomInv'
    BY <1>1, <1>2, <2>2 DEF Inv, PhantomInv
  <2>8. HeededInv'
    BY <1>1, <1>2, <2>3, <2>4 DEF Inv, HeededInv
  <2> QED
    BY <1>3, <2>5, <2>6, <2>7, <2>8 DEF Inv
<1> QED
  BY <1>4, <1>5

LEMMA DisconnectFromHostInv ==
    ASSUME Inv, DisconnectFromHost
    PROVE  Inv'
<1>1. /\ todo[Window] # <<>> /\ Head(todo[Window]) = "disconnect" /\ WindowMove(todo[Window])
  <2>1. todo[Window] # <<>> /\ Head(todo[Window]) = "disconnect"
    BY DEF DisconnectFromHost, Place
  <2> QED
    BY <2>1, WindowMoves DEF Inv, Typed, Shapes
<1>2. /\ Tail(todo[Window]) = <<"ui">> /\ todo[Window] \notin LockedTodos
  BY <1>1 DEF WindowMove, LockedTodos
<1>3. UNCHANGED <<channel, buttons, state, game, defied>>
  BY DEF DisconnectFromHost
<1>4. PICK q \in {<<"ui">>, <<"callback", "unlock", "ui">>} :
         /\ todo' = [todo EXCEPT ![Window] = q]
         /\ \/ /\ q = <<"ui">>
               /\ UNCHANGED <<holder, linkVars, netVars, ran>>
            \/ /\ q = <<"callback", "unlock", "ui">>
               /\ holder = Nobody /\ holder' = Window
               /\ Dropped
  <2>1. <<"callback", "unlock">> \o <<"ui">> = <<"callback", "unlock", "ui">>
    BY LiteralConcat
  <2>2. \/ /\ todo' = [todo EXCEPT ![Window] = Tail(todo[Window])]
           /\ UNCHANGED <<holder, linkVars, netVars, ran>>
        \/ /\ todo' = [todo EXCEPT ![Window] = <<"callback", "unlock">> \o Tail(todo[Window])]
           /\ holder = Nobody /\ holder' = Window
           /\ Dropped
    BY DEF DisconnectFromHost
  <2> QED
    BY <1>2, <2>1, <2>2, Zenon
<1>5. /\ q \in WindowTodos /\ q \in UiTodos /\ q \notin RunningTodos
      /\ q # <<"connect", "ui">>
      /\ q \in LockedTodos <=> q = <<"callback", "unlock", "ui">>
      /\ <<"ui">> # <<"callback", "unlock", "ui">>
  BY <1>4 DEF WindowTodos, UiTodos, RunningTodos, LockedTodos
<1>6. Shapes' /\ todo'[Window] = q /\ Others(Window)
  BY <1>4, <1>5, WindowSet, Zenon DEF Inv, Typed
<1>7. /\ todo'[Updater] = todo[Updater] /\ todo'[Preparer] = todo[Preparer]
  BY <1>6, PlaceOfOthers
<1>8. ButtonsInv'
  BY <1>5, <1>6 DEF ButtonsInv
<1>9. CASE UNCHANGED <<holder, linkVars, netVars, ran>>
  <2>1. UNCHANGED <<holder, ran, value, changed, updates, known,
                    conn, wire, received, last, asked, connects>>
    BY <1>9 DEF linkVars, netVars
  <2>2. q \notin LockedTodos
    BY <1>4, <1>5, <1>2, <1>9, <2>1, ThreadsAssumption
  <2>3. Typed'
    BY <1>1, <1>2, <1>3, <1>6, <1>7, <2>1, <2>2
       DEF Inv, Typed, LockOK, ChannelOK, GameOK, NetOK
  <2>4. PreparedInv'
    BY <1>3, <1>5, <1>6, <1>7, <2>1 DEF Inv, PreparedInv
  <2>5. PhantomInv'
    BY <1>3, <1>5, <1>6, <1>7, <2>1 DEF Inv, PhantomInv
  <2> QED
    BY <1>3, <1>7, <1>8, <2>1, <2>3, <2>4, <2>5, RequestsKept DEF Inv
<1>10. CASE /\ q = <<"callback", "unlock", "ui">>
            /\ holder = Nobody /\ holder' = Window
            /\ Dropped
  <2>1. /\ conn' = "down" /\ wire' = <<>> /\ updates' = <<>>
        /\ UNCHANGED <<value, known, received, last, asked, connects, ran>>
    BY <1>10 DEF Dropped
  <2>2. changed' \in BOOLEAN /\ ~changed'
    BY <1>10, Zenon DEF Dropped
  <2>3. <<>> \in Seq(Requests) /\ <<>> \in Seq(RunStatus)
    BY EmptySeq
  <2>4. NetOK'
    BY <2>1, <2>2, <2>3 DEF Inv, Typed, NetOK
  <2>5. LockOK'
    BY <1>5, <1>6, <1>7, <1>10, ThreadsAssumption DEF Inv, Typed, LockOK
  <2>6. Typed'
    BY <1>3, <1>6, <2>1, <2>4, <2>5 DEF Inv, Typed, ChannelOK, GameOK
  <2>7. PreparedInv'
    BY <1>3, <1>5, <1>6, <1>7, <2>1 DEF Inv, PreparedInv
  <2>8. PhantomInv'
    BY <2>1 DEF PhantomInv
  <2> QED
    BY <1>3, <1>7, <1>8, <2>1, <2>6, <2>7, <2>8, RequestsKept DEF Inv
<1> QED
  BY <1>4, <1>9, <1>10

-------------------------------------------------------------------------------
(* The window begins a function *)

LEMMA BtnConnectInv ==
    ASSUME Inv, BtnConnect
    PROVE  Inv'
<1>1. /\ buttons = "connect" /\ connects < MaxConnects /\ connects' = connects + 1
      /\ UNCHANGED <<holder, channel, buttons, state, game, ran, defied, value, changed, updates, known,
                     conn, wire, received, last, asked>>
  BY DEF BtnConnect, gameVars, linkVars
<1>2. /\ <<"connect", "ui">> \in WindowTodos /\ <<"connect", "ui">> \in UiTodos
      /\ <<"connect", "ui">> \notin RunningTodos /\ <<"connect", "ui">> \notin LockedTodos
      /\ <<>> \notin LockedTodos
  BY DEF WindowTodos, UiTodos, RunningTodos, LockedTodos
<1>3. /\ todo[Window] = <<>>
      /\ Shapes' /\ todo'[Window] = <<"connect", "ui">> /\ Others(Window)
  BY <1>2, WindowBegins DEF Inv, Typed, BtnConnect
<1>4. /\ todo'[Updater] = todo[Updater] /\ todo'[Preparer] = todo[Preparer]
  BY <1>3, PlaceOfOthers
<1>5. NetOK'
  BY <1>1, BoundsAssumption DEF Inv, Typed, NetOK
<1>6. Typed'
  BY <1>1, <1>2, <1>3, <1>4, <1>5 DEF Inv, Typed, LockOK, ChannelOK, GameOK
<1>7. PreparedInv'
  BY <1>1, <1>3, <1>4 DEF Inv, PreparedInv
<1>8. ButtonsInv'
  BY <1>2, <1>3 DEF ButtonsInv
<1>9. PhantomInv'
  BY <1>1, <1>2, <1>3 DEF Inv, PhantomInv
<1> QED
  BY <1>1, <1>4, <1>6, <1>7, <1>8, <1>9, RequestsKept DEF Inv

LEMMA BtnDisconnectInv ==
    ASSUME Inv, BtnDisconnect
    PROVE  Inv'
<1>1. UNCHANGED <<holder, channel, buttons, state, game, ran, defied, value, changed, updates, known,
                  conn, wire, received, last, asked, connects>>
  BY DEF BtnDisconnect, gameVars, linkVars, netVars
<1>2. /\ <<"disconnect", "ui">> \in WindowTodos /\ <<"disconnect", "ui">> \in UiTodos
      /\ <<"disconnect", "ui">> \notin RunningTodos /\ <<"disconnect", "ui">> \notin LockedTodos
      /\ <<"disconnect", "ui">> # <<"connect", "ui">>
      /\ <<>> \notin LockedTodos
  BY DEF WindowTodos, UiTodos, RunningTodos, LockedTodos
<1>3. /\ todo[Window] = <<>>
      /\ Shapes' /\ todo'[Window] = <<"disconnect", "ui">> /\ Others(Window)
  BY <1>2, WindowBegins DEF Inv, Typed, BtnDisconnect
<1>4. /\ todo'[Updater] = todo[Updater] /\ todo'[Preparer] = todo[Preparer]
  BY <1>3, PlaceOfOthers
<1>5. Typed'
  BY <1>1, <1>2, <1>3, <1>4 DEF Inv, Typed, LockOK, ChannelOK, GameOK, NetOK
<1>6. PreparedInv'
  BY <1>1, <1>2, <1>3, <1>4 DEF Inv, PreparedInv
<1>7. ButtonsInv'
  BY <1>2, <1>3 DEF ButtonsInv
<1>8. PhantomInv'
  BY <1>1, <1>2, <1>3 DEF Inv, PhantomInv
<1> QED
  BY <1>1, <1>4, <1>5, <1>6, <1>7, <1>8, RequestsKept DEF Inv

\* What the functions begun by a message or by the timer leave to do.
Begun ==
    {<<>>, <<"ui">>, <<"log">>, <<"log", "ui">>,
     <<"log", "running", "ui">>, <<"running", "ui">>, <<"log", "running">>,
     <<"log", "stopped", "ui">>, <<"stopped", "ui">>, <<"log", "stopped">>, <<"stopped">>}

LEMMA BegunProperties ==
    \A q \in Begun : /\ q \in WindowTodos /\ q \notin LockedTodos
                     /\ q # <<"connect", "ui">>
BY DEF Begun, WindowTodos, LockedTodos

\* No game starts, and if one ends nothing else changes.
GameKept == UNCHANGED gameVars \/ (state = "running" /\ GameEnds)

LEMMA TimerPulseInv ==
    ASSUME Inv, TimerPulse
    PROVE  Inv'
<1>1. UNCHANGED <<holder, channel, buttons, value, changed, updates, known,
                  conn, wire, received, last, asked, connects>>
  BY DEF TimerPulse, linkVars, netVars
<1>2. PICK items \in {<<"log", "running">>, <<"log", "stopped">>, <<"stopped">>} :
         Begins(Window, items) /\ Pulse(items)
  BY DEF TimerPulse
<1>3. /\ items \in Begun /\ items \notin UiTodos
      /\ items \in RunningTodos => items = <<"log", "running">>
      /\ <<"log", "stopped">> # <<"log", "running">> /\ <<"stopped">> # <<"log", "running">>
      /\ <<>> \notin LockedTodos /\ <<>> \notin UiTodos
  BY <1>2 DEF Begun, UiTodos, RunningTodos, LockedTodos
<1>4. /\ todo[Window] = <<>>
      /\ Shapes' /\ todo'[Window] = items /\ Others(Window)
  BY <1>2, <1>3, BegunProperties, WindowBegins DEF Inv, Typed
<1>5. /\ todo'[Updater] = todo[Updater] /\ todo'[Preparer] = todo[Preparer]
      /\ Place(Updater)' = Place(Updater)
  BY <1>4, PlaceOfOthers
<1>6. /\ GameKept
      /\ items = <<"log", "running">> => state = "running" /\ UNCHANGED gameVars
  BY <1>2, <1>3, Zenon DEF Pulse, GameKept
<1>7. /\ GameOK' /\ UNCHANGED ran
      /\ \/ UNCHANGED <<state, defied>>
         \/ state = "running" /\ state' = "ready"
  <2>1. CASE UNCHANGED gameVars
    BY <1>1, <2>1 DEF Inv, Typed, GameOK, gameVars
  <2>2. CASE state = "running" /\ GameEnds
    <3>1. game' \in BOOLEAN /\ ~game' /\ defied' \in BOOLEAN /\ ~defied'
      BY <2>2, Zenon DEF GameEnds
    <3> QED
      BY <1>1, <2>2, <3>1 DEF Inv, Typed, GameOK, GameEnds
  <2> QED
    BY <1>6, <2>1, <2>2 DEF GameKept
<1>8. LockOK'
  BY <1>1, <1>3, <1>4, <1>5, BegunProperties DEF Inv, Typed, LockOK
<1>9. Typed'
  BY <1>1, <1>4, <1>7, <1>8 DEF Inv, Typed, ChannelOK, NetOK
<1>10. PreparedInv'
  BY <1>1, <1>3, <1>4, <1>5, <1>7, BegunProperties DEF Inv, PreparedInv
<1>11. ButtonsInv'
  BY <1>1, <1>3, <1>4, <1>5, <1>7 DEF Inv, ButtonsInv, EnabledButton
<1>12. PhantomInv'
  <2>1. items \in RunningTodos => state = "running"
    BY <1>3, <1>6
  <2> QED
    BY <1>1, <1>4, <1>7, <2>1 DEF Inv, PhantomInv
<1> QED
  BY <1>1, <1>5, <1>7, <1>9, <1>10, <1>11, <1>12, RequestsKept DEF Inv

\* A message of the channel is handled: what the handlers have in common.
LEMMA TakesInv ==
    ASSUME Inv, NEW m \in Messages, NEW items \in Begun, Takes(m, items),
           m = "updateui" => items \in UiTodos,
           GameOK',
           state' = state \/ {state, state'} \subseteq {"ready", "running"},
           ran # "none" => ran' # "none",
           items \in RunningTodos => ran' # "none",
           state' = "running" => ran' # "none" \/ state = "running",
           state' = "running" => state = "running" \/ m = "start",
           m \in {"stop", "kill"} => state' # "running" \/ defied',
           m \notin AppRequests => UNCHANGED defied
    PROVE  Inv'
<1>1. /\ channel # <<>> /\ Head(channel) = m /\ channel' = Tail(channel)
      /\ UNCHANGED <<holder, buttons, value, changed, updates, known,
                     conn, wire, received, last, asked, connects>>
  BY DEF Takes, linkVars, netVars
<1>2. /\ todo[Window] = <<>>
      /\ Shapes' /\ todo'[Window] = items /\ Others(Window)
  BY BegunProperties, WindowBegins DEF Inv, Typed, Takes
<1>3. /\ todo'[Updater] = todo[Updater] /\ todo'[Preparer] = todo[Preparer]
      /\ Place(Updater)' = Place(Updater)
  BY <1>2, PlaceOfOthers
<1>4. <<>> \notin LockedTodos /\ <<>> \notin UiTodos
  BY DEF UiTodos, LockedTodos
<1>5. /\ ChannelOK'
      /\ Range(channel) = {m} \cup Range(channel')
      /\ NoApp(channel) <=> m \notin AppRequests /\ NoApp(channel')
      /\ \A r : EndsWith(channel, r) /\ ~NoApp(channel') => EndsWith(channel', r)
      /\ \A r : EndsWith(channel, r) /\ NoApp(channel') /\ r \in AppRequests => r = m
  <2>1. Messages \subseteq Items
    BY DEF Items
  <2>2. channel \in Seq(Messages) /\ channel \in Seq(Items)
    BY <2>1, SeqMonotonic DEF Inv, Typed, ChannelOK
  <2>3. channel' \in Seq(Messages)
    BY <1>1, <2>2, HeadTailProperties
  <2>4. /\ Len(channel') = Len(channel) - 1 /\ Len(channel) \in Nat
        /\ Len(channel) <= Capacity
    BY <1>1, <2>2, AppOfTail, LenProperties DEF Inv, Typed, ChannelOK
  <2>5. ChannelOK'
    BY <2>3, <2>4, BoundsAssumption DEF ChannelOK
  <2> QED
    BY <1>1, <2>2, <2>5, AppOfTail
<1>6. LockOK'
  BY <1>1, <1>2, <1>3, <1>4, BegunProperties DEF Inv, Typed, LockOK
<1>7. Typed'
  BY <1>1, <1>2, <1>5, <1>6 DEF Inv, Typed, NetOK
<1>8. PreparedInv'
  <2>1. state \in {"ready", "running"} => state' \in {"ready", "running"}
    OBVIOUS
  <2>2. state = "preparing" => state' = "preparing"
    OBVIOUS
  <2> QED
    BY <1>1, <1>2, <1>3, <1>5, <2>1, <2>2, BegunProperties DEF Inv, PreparedInv
<1>9. ButtonsInv'
  <2>1. EnabledButton' = EnabledButton
    BY <1>1 DEF EnabledButton
  <2> QED
    BY <1>1, <1>2, <1>3, <1>4, <1>5, <2>1 DEF Inv, ButtonsInv
<1>10. PhantomInv'
  BY <1>1, <1>2 DEF Inv, PhantomInv
<1>11. HeededInv'
  <2> SUFFICES ASSUME NoApp(received), NoApp(todo[Updater])
               PROVE  /\ ~NoApp(channel') => EndsWith(channel', last)
                      /\ NoApp(channel') /\ last \in {"stop", "kill"}
                            => state' # "running" \/ defied'
    BY <1>1, <1>3 DEF Inv, HeededInv
  <2>1. /\ ~NoApp(channel) => EndsWith(channel, last)
        /\ NoApp(channel) /\ last \in {"stop", "kill"} => state # "running" \/ defied
    BY DEF Inv, HeededInv
  <2>2. ASSUME NoApp(channel'), last \in {"stop", "kill"}
        PROVE  state' # "running" \/ defied'
    <3>1. CASE m \in AppRequests
      BY <1>5, <2>1, <2>2, <3>1 DEF AppRequests
    <3>2. CASE m \notin AppRequests
      BY <1>5, <2>1, <2>2, <3>2 DEF AppRequests
    <3> QED
      BY <3>1, <3>2
  <2> QED
    BY <1>5, <2>1, <2>2
<1> QED
  BY <1>7, <1>8, <1>9, <1>10, <1>11 DEF Inv

LEMMA TakeMessageInv ==
    ASSUME Inv, TakeMessage
    PROVE  Inv'
<1>1. /\ "logs" \in Messages /\ "updateui" \in Messages /\ "property" \in Messages
      /\ "start" \in Messages /\ "stop" \in Messages /\ "kill" \in Messages
      /\ "start" \in AppRequests /\ "stop" \in AppRequests /\ "kill" \in AppRequests
  BY DEF Messages, Requests, AppRequests
<1>2. /\ <<>> \in Begun /\ <<"ui">> \in Begun /\ <<"log">> \in Begun
      /\ <<"log", "running", "ui">> \in Begun /\ <<"running", "ui">> \in Begun
      /\ <<"log", "ui">> \in Begun /\ <<"log", "stopped", "ui">> \in Begun
      /\ <<"stopped", "ui">> \in Begun
  BY DEF Begun
<1>3. /\ <<"ui">> \in UiTodos
      /\ <<>> \notin RunningTodos /\ <<"ui">> \notin RunningTodos
      /\ <<"log">> \notin RunningTodos /\ <<"log", "ui">> \notin RunningTodos
      /\ <<"log", "stopped", "ui">> \notin RunningTodos
      /\ <<"stopped", "ui">> \notin RunningTodos
  BY DEF UiTodos, RunningTodos
<1>4. ASSUME NEW m \in Messages \ {"start"}, NEW items \in Begun,
             items \notin RunningTodos, m = "updateui" => items = <<"ui">>,
             m \in {"stop", "kill"} => state # "running",
             Takes(m, items), UNCHANGED gameVars
      PROVE  Inv'
  <2>1. UNCHANGED <<state, ran, defied>> /\ GameOK'
    BY <1>4 DEF gameVars, Inv, Typed, GameOK, Takes
  <2> QED
    BY <1>3, <1>4, <2>1, TakesInv
<1>5. CASE MsgLogsAdded
  BY <1>1, <1>2, <1>3, <1>4, <1>5 DEF MsgLogsAdded
<1>6. CASE MsgUpdateUIStates
  BY <1>1, <1>2, <1>3, <1>4, <1>6 DEF MsgUpdateUIStates
<1>7. CASE MsgSysProp
  BY <1>1, <1>2, <1>3, <1>4, <1>7 DEF MsgSysProp
<1>8. ASSUME NEW m \in {"stop", "kill"}, NEW items \in Begun,
             items \notin RunningTodos, state = "running", Takes(m, items), GameEnds
      PROVE  Inv'
  <2>1. game' \in BOOLEAN /\ ~game' /\ defied' \in BOOLEAN /\ ~defied'
    BY <1>8, Zenon DEF GameEnds
  <2>2. state' = "ready" /\ ran' = ran /\ GameOK'
    BY <1>8, <2>1 DEF GameEnds, Inv, Typed, GameOK, Takes
  <2> QED
    BY <1>1, <1>8, <2>2, TakesInv
<1>9. ASSUME NEW m \in {"stop", "kill"}, Takes(m, <<"ui">>), StopThrows
      PROVE  Inv'
  <2>1. defied' \in BOOLEAN /\ defied'
    BY <1>9, Zenon DEF StopThrows
  <2>2. state = "running" /\ UNCHANGED <<state, ran>> /\ GameOK'
    BY <1>9, <2>1 DEF StopThrows, Inv, Typed, GameOK, Takes
  <2> QED
    BY <1>1, <1>2, <1>3, <1>9, <2>1, <2>2, TakesInv
<1>10. CASE MsgStopApp
  BY <1>1, <1>2, <1>3, <1>4, <1>8, <1>9, <1>10 DEF MsgStopApp
<1>11. CASE MsgKillApp
  BY <1>1, <1>2, <1>3, <1>4, <1>8, <1>9, <1>11 DEF MsgKillApp
<1>12. CASE MsgStartApp
  <2>1. CASE GameStarts /\ Takes("start", <<"log", "running", "ui">>)
    <3>1. game' \in BOOLEAN /\ defied' \in BOOLEAN /\ ~defied'
      BY <2>1, Zenon DEF GameStarts
    <3>2. state = "ready" /\ state' = "running" /\ ran' = "game" /\ GameOK'
      BY <2>1, <3>1 DEF GameStarts, Inv, Typed, GameOK, Takes
    <3> QED
      BY <1>1, <1>2, <2>1, <3>2, TakesInv
  <2>2. CASE StartThrows /\ Takes("start", StartFailed)
    <3>1. defied' \in BOOLEAN /\ ~defied'
      BY <2>2, Zenon DEF StartThrows
    <3>2. UNCHANGED <<state, ran>> /\ GameOK'
      BY <2>2, <3>1 DEF StartThrows, Inv, Typed, GameOK, Takes
    <3> QED
      BY <1>1, <1>2, <1>3, <2>2, <3>2, TakesInv DEF StartFailed
  <2>3. CASE NothingStarts /\ Takes("start", <<"running", "ui">>)
    <3>1. UNCHANGED <<state, defied>> /\ ran' # "none" /\ GameOK'
      BY <2>3 DEF NothingStarts, Inv, Typed, GameOK, Takes
    <3> QED
      BY <1>1, <1>2, <2>3, <3>1, TakesInv
  <2> QED
    BY <1>12, <2>1, <2>2, <2>3 DEF MsgStartApp
<1> QED
  BY <1>5, <1>6, <1>7, <1>10, <1>11, <1>12 DEF TakeMessage

-------------------------------------------------------------------------------
(* The updater *)

\* Another thread than the window moves on: what the window is about to do is kept.
LEMMA PlaceOfWindow ==
    /\ Others(Updater) => todo'[Window] = todo[Window] /\ todo'[Preparer] = todo[Preparer]
    /\ Others(Preparer) =>
          /\ todo'[Window] = todo[Window] /\ todo'[Updater] = todo[Updater]
          /\ Place(Updater)' = Place(Updater)
BY ThreadsAssumption DEF Others, Threads, Place

LEMMA PostMessageUpdaterInv ==
    ASSUME Inv, PostMessage(Updater)
    PROVE  Inv'
<1>1. PICK m \in Messages :
         /\ Does(Updater, m) /\ Message(m)
         /\ UNCHANGED <<holder, buttons, state, game, ran, defied, value, changed, updates, known,
                        conn, wire, received, last, asked, connects>>
  BY DEF PostMessage, gameVars, linkVars, netVars
<1>2. m \notin {"idle", "callback", "unlock", "network", "messages"}
  BY DEF Messages, Requests, AppRequests
<1>3. /\ todo[Updater] # <<>> /\ Head(todo[Updater]) = m
      /\ UpdaterMove(todo[Updater])
      /\ Shapes' /\ todo'[Updater] = Tail(todo[Updater]) /\ Others(Updater)
  BY <1>1, <1>2, UpdaterDoes DEF Inv, Typed
<1>4. /\ todo'[Window] = todo[Window] /\ todo'[Preparer] = todo[Preparer]
  BY <1>3, PlaceOfWindow
<1>5. /\ todo'[Updater] # <<>> /\ Place(Updater)' # "callback" /\ Place(Updater) # "callback"
      /\ m \in AppRequests => NoApp(todo'[Updater])
  BY <1>2, <1>3 DEF UpdaterMove, Place
<1>6. /\ NoApp(todo[Updater]) <=> m \notin AppRequests /\ NoApp(todo'[Updater])
      /\ \A r : EndsWith(todo[Updater], r) /\ ~NoApp(todo'[Updater])
                   => EndsWith(todo'[Updater], r)
      /\ \A r : EndsWith(todo[Updater], r) /\ NoApp(todo'[Updater]) /\ r \in AppRequests
                   => r = m
  <2>1. todo[Updater] \in Seq(Items)
    BY ShapesTyped DEF Inv, Typed, Shapes, Todos
  <2> QED
    BY <1>3, <2>1, AppOfTail
<1>7. /\ ChannelOK'
      /\ Range(channel') = Range(channel) \cup {m}
      /\ NoApp(channel') <=> NoApp(channel) /\ m \notin AppRequests
      /\ m \in AppRequests => EndsWith(channel', m)
      /\ m \notin AppRequests => \A r : EndsWith(channel, r) => EndsWith(channel', r)
  BY <1>1, MessagePosted
<1>8. LockOK'
  BY <1>1, <1>3, <1>4, <1>5 DEF Inv, Typed, LockOK
<1>9. Typed'
  BY <1>1, <1>3, <1>7, <1>8 DEF Inv, Typed, GameOK, NetOK
<1>10. PreparedInv'
  BY <1>1, <1>4, <1>6, <1>7 DEF Inv, PreparedInv
<1>11. ButtonsInv'
  BY <1>1, <1>4, <1>5, <1>7 DEF Inv, ButtonsInv, EnabledButton
<1>12. PhantomInv'
  BY <1>1, <1>4 DEF Inv, PhantomInv
<1>13. HeededInv'
  <2>1. CASE m \in AppRequests
    <3> SUFFICES ASSUME NoApp(received)
                 PROVE  EndsWith(channel', last)
      BY <1>1, <1>5, <1>7, <2>1 DEF Inv, HeededInv
    <3>1. EndsWith(todo[Updater], last) /\ NoApp(todo'[Updater])
      BY <1>5, <1>6, <2>1 DEF Inv, HeededInv
    <3>2. last \in AppRequests
      <4>1. \A r : EndsWith(todo[Updater], r) => \E i \in DOMAIN todo[Updater] : r = todo[Updater][i]
        BY DEF EndsWith
      <4>2. "none" \notin Range(todo[Updater])
        <5>1. todo[Updater] \in Seq(Items) /\ "none" \notin Items
          BY ShapesTyped DEF Inv, Typed, Shapes, Todos, Items, Messages, Requests,
             AppRequests, RunStatus
        <5> QED
          BY <5>1, RangeOfSeq
      <4>3. last # "none"
        BY <3>1, <4>1, <4>2 DEF Range
      <4> QED
        BY <4>3 DEF Inv, Typed, NetOK
    <3> QED
      BY <1>6, <1>7, <2>1, <3>1, <3>2
  <2>2. CASE m \notin AppRequests
    BY <1>1, <1>6, <1>7, <2>2 DEF Inv, HeededInv
  <2> QED
    BY <2>1, <2>2
<1> QED
  BY <1>9, <1>10, <1>11, <1>12, <1>13 DEF Inv

LEMMA FrameUpdateInv ==
    ASSUME Inv, FrameUpdate
    PROVE  Inv'
<1>1. /\ holder = Nobody /\ holder' = Updater
      /\ UNCHANGED <<channel, buttons, state, game, ran, defied, value, changed, updates, known,
                     conn, wire, received, last, asked, connects>>
  BY DEF FrameUpdate, gameVars, linkVars, netVars
<1>2. todo[Updater] = <<>>
  BY <1>1, ThreadsAssumption DEF Inv, Typed, LockOK
<1>3. /\ <<"messages", "network">> \in UpdaterTodos
      /\ <<"messages", "network">> # <<>> /\ Head(<<"messages", "network">>) = "messages"
      /\ NoApp(<<"messages", "network">>) /\ NoApp(<<>>)
  BY DEF UpdaterTodos, NoApp, AppRequests
<1>4. Shapes' /\ todo'[Updater] = <<"messages", "network">> /\ Others(Updater)
  BY <1>3, UpdaterSet, Zenon DEF Inv, Typed, FrameUpdate, Begins
<1>5. /\ todo'[Window] = todo[Window] /\ todo'[Preparer] = todo[Preparer]
  BY <1>4, PlaceOfWindow
<1>6. LockOK'
  BY <1>1, <1>3, <1>4, <1>5, ThreadsAssumption DEF Inv, Typed, LockOK
<1>7. Typed'
  BY <1>1, <1>4, <1>6 DEF Inv, Typed, ChannelOK, GameOK, NetOK
<1>8. PreparedInv'
  BY <1>1, <1>2, <1>3, <1>4, <1>5 DEF Inv, PreparedInv
<1>9. ButtonsInv'
  BY <1>1, <1>2, <1>3, <1>4, <1>5 DEF Inv, ButtonsInv, EnabledButton, Place
<1>10. PhantomInv'
  BY <1>1, <1>5 DEF Inv, PhantomInv
<1>11. HeededInv'
  BY <1>1, <1>2, <1>3, <1>4 DEF Inv, HeededInv
<1> QED
  BY <1>7, <1>8, <1>9, <1>10, <1>11 DEF Inv

LEMMA UnlockUpdaterInv ==
    ASSUME Inv, Unlock(Updater)
    PROVE  Inv'
<1>1. /\ Does(Updater, "unlock")
      /\ holder' = Nobody
      /\ UNCHANGED <<channel, buttons, state, game, ran, defied, value, changed, updates, known,
                     conn, wire, received, last, asked, connects>>
  BY DEF Unlock, gameVars, linkVars, netVars
<1>2. /\ todo[Updater] = <<"unlock">> /\ Head(todo[Updater]) = "unlock"
      /\ Shapes' /\ todo'[Updater] = <<>> /\ Others(Updater)
  BY <1>1, UpdaterDoes DEF Inv, Typed, UpdaterMove
<1>3. /\ todo'[Window] = todo[Window] /\ todo'[Preparer] = todo[Preparer]
  BY <1>2, PlaceOfWindow
<1>4. NoApp(<<"unlock">>) /\ NoApp(<<>>) /\ <<"unlock">> # <<>>
  BY DEF NoApp, AppRequests
<1>5. LockOK'
  BY <1>1, <1>2, <1>3, <1>4, ThreadsAssumption DEF Inv, Typed, LockOK
<1>6. Typed'
  BY <1>1, <1>2, <1>5 DEF Inv, Typed, ChannelOK, GameOK, NetOK
<1>7. PreparedInv'
  BY <1>1, <1>2, <1>3, <1>4 DEF Inv, PreparedInv
<1>8. ButtonsInv'
  BY <1>1, <1>2, <1>3, <1>4 DEF Inv, ButtonsInv, EnabledButton, Place
<1>9. PhantomInv'
  BY <1>1, <1>3 DEF Inv, PhantomInv
<1>10. HeededInv'
  BY <1>1, <1>2, <1>4 DEF Inv, HeededInv
<1> QED
  BY <1>6, <1>7, <1>8, <1>9, <1>10 DEF Inv

\* The messages popped are handled one after the other.
LEMMA ProcessReceivedMessagesInv ==
    ASSUME Inv, ProcessReceivedMessages
    PROVE  Inv'
<1>1. UNCHANGED <<holder, channel, buttons, state, game, ran, defied, value, changed, updates, known,
                  conn, wire, last, asked, connects>>
  BY DEF ProcessReceivedMessages, gameVars, linkVars
<1>2. /\ todo[Updater] = <<"messages", "network">> /\ Tail(todo[Updater]) = <<"network">>
      /\ Place(Updater) # "callback"
  <2>1. todo[Updater] # <<>> /\ Head(todo[Updater]) = "messages"
    BY DEF ProcessReceivedMessages, Does, Place
  <2> QED
    BY <2>1, UpdaterMoves DEF Inv, Typed, Shapes, UpdaterMove, Place
<1>3. <<"messages", "network">> # <<>> /\ NoApp(<<"messages", "network">>)
  BY DEF NoApp, AppRequests
<1>4. ASSUME NEW q \in UpdaterTodos, q # <<>>, Head(q) # "callback",
             todo' = [todo EXCEPT ![Updater] = q],
             received' \in Seq(Requests),
             received' # <<>> \/ ~NoApp(q) => received # <<>>,
             \/ NoApp(q) /\ (NoApp(received') <=> NoApp(received))
                /\ \A r : EndsWith(received, r) /\ ~NoApp(received') => EndsWith(received', r)
             \/ ~NoApp(received) /\ ~NoApp(q)
                /\ (~NoApp(received') /\ EndsWith(received, last) => EndsWith(received', last))
                /\ (NoApp(received') /\ EndsWith(received, last) => EndsWith(q, last))
      PROVE  Inv'
  <2>1. Shapes' /\ todo'[Updater] = q /\ Others(Updater)
    BY <1>4, UpdaterSet DEF Inv, Typed
  <2>2. /\ todo'[Window] = todo[Window] /\ todo'[Preparer] = todo[Preparer]
    BY <2>1, PlaceOfWindow
  <2>3. Typed'
    BY <1>1, <1>2, <1>3, <1>4, <2>1, <2>2 DEF Inv, Typed, LockOK, ChannelOK, GameOK, NetOK
  <2>4. PreparedInv'
    BY <1>1, <1>4, <2>1, <2>2 DEF Inv, PreparedInv
  <2>5. ButtonsInv'
    BY <1>1, <1>2, <1>4, <2>1, <2>2 DEF Inv, ButtonsInv, EnabledButton, Place
  <2>6. PhantomInv'
    BY <1>1, <2>2 DEF Inv, PhantomInv
  <2>7. HeededInv'
    BY <1>1, <1>2, <1>3, <1>4, <2>1 DEF Inv, HeededInv
  <2> QED
    BY <2>3, <2>4, <2>5, <2>6, <2>7 DEF Inv
<1>5. CASE ~More /\ Does(Updater, "messages") /\ UNCHANGED received
  <2>1. todo' = [todo EXCEPT ![Updater] = <<"network">>]
    BY <1>2, <1>5 DEF Does
  <2>2. /\ <<"network">> \in UpdaterTodos /\ <<"network">> # <<>>
        /\ Head(<<"network">>) # "callback" /\ NoApp(<<"network">>)
    BY DEF UpdaterTodos, NoApp, AppRequests
  <2>3. received' \in Seq(Requests) /\ received' = received
    BY <1>5 DEF Inv, Typed, NetOK
  <2> QED
    BY <1>4, <2>1, <2>2, <2>3
<1>6. CASE More /\ received' = Tail(received)
           /\ todo' = [todo EXCEPT ![Updater] = Handling(Head(received)) \o @]
  <2> DEFINE h == Head(received)
  <2>0. received # <<>> /\ received \in Seq(Requests) /\ Requests \subseteq Items
    BY <1>6 DEF More, Inv, Typed, NetOK, Items, Messages
  <2>1. /\ received' \in Seq(Requests) /\ h \in Requests
        /\ NoApp(received) <=> h \notin AppRequests /\ NoApp(received')
        /\ \A r : EndsWith(received, r) /\ ~NoApp(received') => EndsWith(received', r)
        /\ \A r : EndsWith(received, r) /\ NoApp(received') /\ r \in AppRequests => r = h
    <3>1. received \in Seq(Items)
      BY <2>0, SeqMonotonic
    <3>2. received' \in Seq(Requests) /\ h \in Requests
      BY <1>6, <2>0, HeadTailProperties
    <3> QED
      BY <1>6, <2>0, <3>1, <3>2, AppOfTail
  <2> HIDE DEF h
  <2>2. todo' = [todo EXCEPT ![Updater] = Handling(h) \o <<"messages", "network">>]
    BY <1>2, <1>6 DEF h
  <2>3. CASE h = "property"
    <3>1. todo' = [todo EXCEPT ![Updater] = <<"property", "messages", "network">>]
      <4>1. Handling(h) = <<"property">>
        BY <2>3 DEF Handling, AppRequests
      <4>2. Handling(h) \o <<"messages", "network">> = <<"property", "messages", "network">>
        BY <4>1, LiteralConcat
      <4> QED
        BY <2>2, <4>2
    <3>2. /\ <<"property", "messages", "network">> \in UpdaterTodos
          /\ <<"property", "messages", "network">> # <<>>
          /\ Head(<<"property", "messages", "network">>) # "callback"
          /\ NoApp(<<"property", "messages", "network">>)
      BY DEF UpdaterTodos, NoApp, AppRequests
    <3>3. h \notin AppRequests
      BY <2>3 DEF AppRequests
    <3> QED
      BY <1>4, <2>0, <2>1, <3>1, <3>2, <3>3
  <2>4. CASE h \in AppRequests
    <3> DEFINE q == <<"logs", h, "messages", "network">>
    <3>1. todo' = [todo EXCEPT ![Updater] = q]
      <4>1. Handling(h) = <<"logs", h>>
        BY <2>4 DEF Handling
      <4>2. Handling(h) \o <<"messages", "network">> = <<"logs", h, "messages", "network">>
        BY <4>1, LiteralConcat
      <4> QED
        BY <2>2, <4>2
    <3>2. /\ q \in UpdaterTodos /\ q # <<>> /\ Head(q) # "callback"
          /\ ~NoApp(q) /\ EndsWith(q, h)
      BY <2>4 DEF UpdaterTodos, NoApp, AppRequests, EndsWith
    <3> HIDE DEF q
    <3>3. last = "none" \/ last \in AppRequests
      BY DEF Inv, Typed, NetOK
    <3>4. EndsWith(received, last) => last # "none"
      <4>1. "none" \notin Range(received)
        BY <2>0, RangeOfSeq DEF Requests, AppRequests
      <4> QED
        BY <4>1 DEF EndsWith, Range
    <3> QED
      BY <1>4, <2>0, <2>1, <2>4, <3>1, <3>2, <3>3, <3>4
  <2> QED
    BY <2>1, <2>3, <2>4 DEF Requests
<1> QED
  BY <1>5, <1>6 DEF ProcessReceivedMessages

LEMMA AppOfArrived ==
    ASSUME NEW q \in Seq(Requests), NEW w \in Seq(Requests), NEW n \in 0 .. Len(w)
    PROVE  LET u == q \o SubSeq(w, 1, n)
               A == {i \in 1 .. n : w[i] \in AppRequests}
           IN  /\ u \in Seq(Requests) /\ SubSeq(w, n + 1, Len(w)) \in Seq(Requests)
               /\ u # <<>> => q # <<>> \/ w # <<>>
               /\ A = {} => /\ NoApp(u) <=> NoApp(q)
                            /\ \A r : EndsWith(q, r) => EndsWith(u, r)
               /\ \A i \in A : (\A j \in A : j <= i) =>
                     /\ w[i] \in AppRequests /\ ~NoApp(u) /\ EndsWith(u, w[i])
<1> DEFINE v == SubSeq(w, 1, n)
           u == q \o v
           A == {i \in 1 .. n : w[i] \in AppRequests}
<1>1. Len(w) \in Nat /\ Len(q) \in Nat /\ DOMAIN q = 1 .. Len(q) /\ DOMAIN w = 1 .. Len(w)
  BY LenProperties
<1>2. SubSeq(w, n + 1, Len(w)) \in Seq(Requests)
  BY <1>1, ElementOfSeq, SubSeqProperties
<1>3. /\ v \in Seq(Requests) /\ Len(v) = n
      /\ \A i \in 1 .. n : v[i] = w[i]
  BY <1>1, ElementOfSeq, SubSeqProperties
<1> HIDE DEF v
<1>4. /\ u \in Seq(Requests) /\ Len(u) = Len(q) + n
      /\ \A i \in 1 .. Len(q) : u[i] = q[i]
      /\ \A i \in 1 .. n : u[Len(q) + i] = w[i]
  <2>1. /\ u \in Seq(Requests) /\ Len(u) = Len(q) + Len(v)
        /\ \A i \in 1 .. Len(q) + Len(v) :
              u[i] = IF i <= Len(q) THEN q[i] ELSE v[i - Len(q)]
    BY <1>3, ConcatProperties, Zenon
  <2> HIDE DEF u
  <2>2. \A i \in 1 .. Len(q) : u[i] = q[i]
    BY <1>1, <1>3, <2>1
  <2>3. ASSUME NEW i \in 1 .. n
        PROVE  u[Len(q) + i] = w[i]
    <3>1. Len(q) + i \in 1 .. Len(q) + Len(v) /\ ~(Len(q) + i <= Len(q))
          /\ (Len(q) + i) - Len(q) = i
      BY <1>1, <1>3
    <3> QED
      BY <1>3, <2>1, <3>1
  <2> QED
    BY <1>3, <2>1, <2>2, <2>3
<1>5. DOMAIN u = 1 .. Len(q) + n
  BY <1>1, <1>4, LenProperties
<1> HIDE DEF u
<1>6. /\ \A i \in DOMAIN u : \/ i \in DOMAIN q /\ u[i] = q[i]
                             \/ i - Len(q) \in 1 .. n /\ u[i] = w[i - Len(q)]
      /\ \A i \in DOMAIN q : i \in DOMAIN u /\ u[i] = q[i]
      /\ \A i \in 1 .. n : Len(q) + i \in DOMAIN u /\ u[Len(q) + i] = w[i]
  <2>1. ASSUME NEW i \in DOMAIN u
        PROVE  \/ i \in DOMAIN q /\ u[i] = q[i]
               \/ i - Len(q) \in 1 .. n /\ u[i] = w[i - Len(q)]
    <3>1. CASE i <= Len(q)
      BY <1>1, <1>4, <1>5, <3>1
    <3>2. CASE i > Len(q)
      <4>1. i - Len(q) \in 1 .. n /\ Len(q) + (i - Len(q)) = i
        BY <1>1, <1>5, <3>2
      <4> QED
        BY <1>4, <4>1
    <3> QED
      BY <1>1, <1>5, <3>1, <3>2
  <2> QED
    BY <1>1, <1>4, <1>5, <2>1
<1>7. u # <<>> => q # <<>> \/ w # <<>>
  <2> SUFFICES ASSUME q = <<>>, w = <<>>
               PROVE  u = <<>>
    OBVIOUS
  <2>1. Len(q) = 0 /\ Len(w) = 0
    BY EmptySeq
  <2>2. Len(u) = 0
    BY <1>4, <2>1
  <2> QED
    BY <1>4, <2>2, EmptySeq
<1>8. ASSUME A = {}
      PROVE  /\ NoApp(u) <=> NoApp(q)
             /\ \A r : EndsWith(q, r) => EndsWith(u, r)
  <2>1. \A i \in 1 .. n : w[i] \notin AppRequests
    BY <1>8
  <2>2. NoApp(u) <=> NoApp(q)
    BY <1>6, <2>1 DEF NoApp
  <2>3. ASSUME NEW r, EndsWith(q, r)
        PROVE  EndsWith(u, r)
    <3>1. PICK i \in DOMAIN q :
             q[i] = r /\ \A j \in DOMAIN q : q[j] \in AppRequests => j <= i
      BY <2>3 DEF EndsWith
    <3>2. \A j \in DOMAIN u : u[j] \in AppRequests => j \in DOMAIN q /\ q[j] \in AppRequests
      BY <1>6, <2>1
    <3> QED
      BY <1>6, <3>1, <3>2 DEF EndsWith
  <2> QED
    BY <2>2, <2>3
<1>9. ASSUME NEW i \in A, \A j \in A : j <= i
      PROVE  w[i] \in AppRequests /\ ~NoApp(u) /\ EndsWith(u, w[i])
  <2>1. w[i] \in AppRequests /\ i \in 1 .. n
    OBVIOUS
  <2>2. Len(q) + i \in DOMAIN u /\ u[Len(q) + i] = w[i]
    BY <1>6, <2>1
  <2>3. ASSUME NEW j \in DOMAIN u, u[j] \in AppRequests
        PROVE  j <= Len(q) + i
    <3>1. CASE j \in DOMAIN q
      BY <1>1, <2>1, <3>1
    <3>2. CASE j - Len(q) \in 1 .. n /\ u[j] = w[j - Len(q)]
      <4>1. j - Len(q) <= i
        BY <1>9, <2>3, <3>2
      <4> QED
        BY <1>1, <1>5, <2>1, <4>1
    <3> QED
      BY <1>6, <3>1, <3>2
  <2> QED
    BY <2>1, <2>2, <2>3 DEF EndsWith, NoApp
<1> QED
  BY <1>2, <1>4, <1>7, <1>8, <1>9 DEF u, v

\* The updater is left with what follows the update of the connection.
LEMMA NetworkBegins ==
    ASSUME Inv, Network
    PROVE  /\ todo[Updater] = <<"network">> /\ holder = Updater
           /\ todo[Updater] # <<>> /\ NoApp(todo[Updater]) /\ Place(Updater) # "callback"
<1>1. todo[Updater] # <<>> /\ Head(todo[Updater]) = "network"
  BY DEF Network, Place
<1>2. todo[Updater] = <<"network">>
  BY <1>1, UpdaterMoves DEF Inv, Typed, Shapes, UpdaterMove
<1>3. NoApp(<<"network">>)
  BY DEF NoApp, AppRequests
<1> QED
  BY <1>1, <1>2, <1>3 DEF Inv, Typed, LockOK, Place

LEMMA TransferInv ==
    ASSUME Inv, Network, Transfer
    PROVE  Inv'
<1>1. UNCHANGED <<channel, buttons, state, game, ran, defied, value, known, conn, asked, connects>>
  BY DEF Network, Transfer
<1>2. /\ todo[Updater] # <<>> /\ NoApp(todo[Updater]) /\ Place(Updater) # "callback"
      /\ holder = Updater /\ holder' = Nobody
      /\ todo' = [todo EXCEPT ![Updater] = <<>>]
  BY NetworkBegins DEF Transfer, NoCallback
<1>3. <<>> \in UpdaterTodos /\ NoApp(<<>>)
  BY DEF UpdaterTodos, NoApp
<1>4. Shapes' /\ todo'[Updater] = <<>> /\ Others(Updater)
  BY <1>2, <1>3, UpdaterSet DEF Inv, Typed
<1>5. /\ todo'[Window] = todo[Window] /\ todo'[Preparer] = todo[Preparer]
      /\ Place(Updater)' # "callback"
  BY <1>4, PlaceOfWindow DEF Place
<1>6. /\ received' \in Seq(Requests) /\ wire' \in Seq(Requests)
      /\ received' # <<>> => received # <<>> \/ wire # <<>>
      /\ wire' # <<>> => wire # <<>>
      /\ last' \in AppRequests \cup {"none"}
      /\ \/ /\ last' = last /\ (NoApp(received') <=> NoApp(received))
            /\ \A r : EndsWith(received, r) => EndsWith(received', r)
         \/ ~NoApp(received') /\ EndsWith(received', last')
  <2>1. wire \in Seq(Requests) /\ received \in Seq(Requests) /\ last \in AppRequests \cup {"none"}
    BY DEF Inv, Typed, NetOK
  <2>2. PICK n \in 0 .. Len(wire) :
           /\ received' = received \o SubSeq(wire, 1, n)
           /\ wire' = SubSeq(wire, n + 1, Len(wire))
           /\ IF {i \in 1 .. n : wire[i] \in AppRequests} = {} THEN last' = last
              ELSE \E i \in {i \in 1 .. n : wire[i] \in AppRequests} :
                      /\ last' = wire[i]
                      /\ \A j \in {i2 \in 1 .. n : wire[i2] \in AppRequests} : j <= i
    BY DEF Transfer
  <2> DEFINE A == {i \in 1 .. n : wire[i] \in AppRequests}
  <2>3. \/ A = {} /\ last' = last
        \/ \E i \in A : last' = wire[i] /\ \A j \in A : j <= i
    BY <2>2, Zenon
  <2>4. /\ received' \in Seq(Requests) /\ wire' \in Seq(Requests)
        /\ received' # <<>> => received # <<>> \/ wire # <<>>
        /\ A = {} => /\ NoApp(received') <=> NoApp(received)
                     /\ \A r : EndsWith(received, r) => EndsWith(received', r)
        /\ \A i \in A : (\A j \in A : j <= i) =>
              /\ wire[i] \in AppRequests /\ ~NoApp(received') /\ EndsWith(received', wire[i])
    BY <2>1, <2>2, AppOfArrived, Zenon
  <2>5. wire' # <<>> => wire # <<>>
    <3> SUFFICES ASSUME wire = <<>>
                 PROVE  wire' = <<>>
      OBVIOUS
    <3>1. Len(wire) = 0 /\ n = 0
      BY <2>1, EmptySeq
    <3>2. Len(SubSeq(wire, 1, 0)) = 0 /\ SubSeq(wire, 1, 0) \in Seq(Requests)
      BY <2>1, <3>1, SubSeqProperties
    <3> QED
      BY <2>2, <3>1, <3>2, EmptySeq
  <2> HIDE DEF A
  <2> QED
    BY <2>1, <2>3, <2>4, <2>5
<1>7. /\ updates' \in Seq(RunStatus) /\ changed' \in BOOLEAN /\ ~changed'
      /\ Range(updates') \subseteq Range(updates) \cup {value}
      /\ conn # "up" => updates' = updates
  <2>1. updates \in Seq(RunStatus) /\ value \in RunStatus /\ (conn # "up" => ~changed)
    BY DEF Inv, Typed, NetOK
  <2>2. changed' \in BOOLEAN /\ ~changed'
    BY Zenon DEF Transfer
  <2>3. (changed /\ updates' = Append(updates, value)) \/ (~changed /\ updates' = updates)
    BY Zenon DEF Transfer
  <2>4. CASE changed /\ updates' = Append(updates, value)
    BY <2>1, <2>2, <2>4, RangeOfAppend, AppendProperties
  <2>5. CASE ~changed /\ updates' = updates
    BY <2>1, <2>2, <2>5
  <2> QED
    BY <2>3, <2>4, <2>5
<1>8. NetOK'
  BY <1>1, <1>6, <1>7 DEF Inv, Typed, NetOK
<1>9. LockOK'
  BY <1>2, <1>4, <1>5, ThreadsAssumption DEF Inv, Typed, LockOK
<1>10. Typed'
  BY <1>1, <1>4, <1>8, <1>9 DEF Inv, Typed, ChannelOK, GameOK
<1>11. PreparedInv'
  <2>1. wire # <<>> => conn # "down"
    BY DEF Inv, Typed, NetOK
  <2> QED
    BY <1>1, <1>3, <1>4, <1>5, <1>6, <2>1 DEF Inv, PreparedInv
<1>12. ButtonsInv'
  BY <1>1, <1>2, <1>5 DEF Inv, ButtonsInv, EnabledButton
<1>13. PhantomInv'
  BY <1>1, <1>5, <1>7 DEF Inv, PhantomInv
<1>14. HeededInv'
  <2>1. CASE /\ last' = last /\ (NoApp(received') <=> NoApp(received))
             /\ \A r : EndsWith(received, r) => EndsWith(received', r)
    BY <1>1, <1>2, <1>3, <1>4, <2>1 DEF Inv, HeededInv
  <2>2. CASE ~NoApp(received') /\ EndsWith(received', last')
    BY <2>2 DEF HeededInv
  <2> QED
    BY <1>6, <2>1, <2>2
<1> QED
  BY <1>10, <1>11, <1>12, <1>13, <1>14 DEF Inv

\* The connection is established, refused or closed: the callback follows.
LEMMA CallbackInv ==
    ASSUME Inv, Network, Callback,
           UNCHANGED <<channel, buttons, state, game, defied, received, last>>,
           ran' \in {"none", "nothing", "game"}, NetOK', conn = "down" => conn' = "down", PhantomInv'
    PROVE  Inv'
<1>1. /\ todo[Updater] # <<>> /\ NoApp(todo[Updater])
      /\ holder' = holder
      /\ todo' = [todo EXCEPT ![Updater] = <<"callback", "unlock">>]
  BY NetworkBegins DEF Callback
<1>2. /\ <<"callback", "unlock">> \in UpdaterTodos /\ NoApp(<<"callback", "unlock">>)
      /\ <<"callback", "unlock">> # <<>> /\ Head(<<"callback", "unlock">>) = "callback"
  BY DEF UpdaterTodos, NoApp, AppRequests
<1>3. Shapes' /\ todo'[Updater] = <<"callback", "unlock">> /\ Others(Updater)
  BY <1>1, <1>2, UpdaterSet, Zenon DEF Inv, Typed
<1>4. /\ todo'[Window] = todo[Window] /\ todo'[Preparer] = todo[Preparer]
      /\ Place(Updater)' = "callback"
  BY <1>2, <1>3, PlaceOfWindow DEF Place
<1>5. Typed'
  <2>1. LockOK'
    BY <1>1, <1>2, <1>3, <1>4 DEF Inv, Typed, LockOK
  <2>2. ChannelOK' /\ GameOK'
    BY DEF Inv, Typed, ChannelOK, GameOK
  <2> QED
    BY <1>3, <2>1, <2>2 DEF Typed
<1>6. PreparedInv'
  BY <1>2, <1>3, <1>4 DEF Inv, PreparedInv
<1>7. ButtonsInv'
  BY <1>4 DEF ButtonsInv
<1>8. HeededInv'
  BY <1>1, <1>2, <1>3 DEF Inv, HeededInv
<1> QED
  BY <1>5, <1>6, <1>7, <1>8 DEF Inv

LEMMA NetworkInv ==
    ASSUME Inv, Network
    PROVE  Inv'
<1>1. UNCHANGED <<channel, buttons, state, game, defied>>
  BY DEF Network
<1>2. CASE Accepted
  <2>1. /\ Callback /\ conn = "connecting" /\ conn' = "up"
        /\ value' = "stopped" /\ known' = "stopped"
        /\ UNCHANGED <<changed, updates, wire, received, last, asked, connects>>
    BY <1>2 DEF Accepted
  <2>2. NetOK'
    BY <2>1 DEF Inv, Typed, NetOK, RunStatus
  <2>3. updates = <<>> /\ Range(updates) = {}
    BY <2>1 DEF Inv, Typed, NetOK, Range
  <2>4. todo'[Window] = todo[Window]
    BY <2>1, ThreadsAssumption DEF Callback, Inv, Typed, Shapes, Threads
  <2>5. todo[Window] \in RunningTodos \/ state = "running" => ran' # "none"
    BY <1>2, WindowItems DEF Accepted
  <2>7. ran' \in {"none", "nothing", "game"}
    BY <1>2, Zenon DEF Accepted
  <2>6. PhantomInv'
    BY <1>1, <2>1, <2>3, <2>4, <2>5 DEF PhantomInv
  <2> QED
    BY <1>1, <2>1, <2>2, <2>6, <2>7, CallbackInv
<1>3. CASE Refused
  <2>1. /\ Callback /\ conn = "connecting" /\ conn' = "down"
        /\ UNCHANGED <<value, changed, updates, known, wire, received, last, asked, connects>>
    BY <1>3 DEF Refused, FailedCallback, linkVars
  <2>2. NetOK' /\ PhantomInv'
    BY <2>1 DEF Inv, Typed, NetOK, PhantomInv
  <2>3. ran' \in {"none", "nothing", "game"}
    BY <1>3 DEF Refused, Inv, Typed, GameOK
  <2> QED
    BY <1>1, <2>1, <2>2, <2>3, CallbackInv
<1>4. CASE Closed
  <2>1. /\ Callback /\ conn' = "down" /\ wire' = <<>> /\ updates' = <<>>
        /\ UNCHANGED <<value, known, received, last, asked, connects>>
    BY <1>4 DEF Closed, Dropped
  <2>2. changed' \in BOOLEAN /\ ~changed'
    BY <1>4, Zenon DEF Closed, Dropped
  <2>3. <<>> \in Seq(Requests) /\ <<>> \in Seq(RunStatus)
    BY EmptySeq
  <2>4. NetOK' /\ PhantomInv'
    BY <2>1, <2>2, <2>3 DEF Inv, Typed, NetOK, PhantomInv
  <2>5. ran' \in {"none", "nothing", "game"}
    BY <1>4 DEF Closed, Dropped, Inv, Typed, GameOK
  <2> QED
    BY <1>1, <2>1, <2>4, <2>5, CallbackInv
<1> QED
  BY <1>2, <1>3, <1>4, TransferInv DEF Network

-------------------------------------------------------------------------------
(* The preparing thread *)

LEMMA PostMessagePreparerInv ==
    ASSUME Inv, PostMessage(Preparer)
    PROVE  Inv'
<1>1. PICK m \in Messages :
         /\ Does(Preparer, m) /\ Message(m)
         /\ UNCHANGED <<holder, buttons, state, game, ran, defied, value, changed, updates, known,
                        conn, wire, received, last, asked, connects>>
  BY DEF PostMessage, gameVars, linkVars, netVars
<1>2. m # "idle" /\ m \notin {"log", "prepare"}
  BY DEF Messages, Requests, AppRequests
<1>3. /\ todo[Preparer] # <<>> /\ Head(todo[Preparer]) = m /\ PreparerMove(todo[Preparer])
      /\ Shapes' /\ todo'[Preparer] = Tail(todo[Preparer]) /\ Others(Preparer)
  BY <1>1, <1>2, PreparerDoes DEF Inv, Typed
<1>4. /\ todo'[Window] = todo[Window] /\ todo'[Updater] = todo[Updater]
      /\ Place(Updater)' = Place(Updater)
  BY <1>3, PlaceOfWindow
<1>5. /\ m \in {"logs", "updateui"} /\ m \notin AppRequests
      /\ todo'[Preparer] = <<>> => m = "updateui"
      /\ todo'[Preparer] \notin {<<>>, <<"updateui">>} =>
            todo[Preparer] \notin {<<>>, <<"updateui">>}
  <2>1. Head(<<"updateui">>) = "updateui"
    OBVIOUS
  <2> QED
    BY <1>2, <1>3, <2>1 DEF PreparerMove, AppRequests
<1>6. /\ ChannelOK'
      /\ Range(channel') = Range(channel) \cup {m}
      /\ NoApp(channel') <=> NoApp(channel)
      /\ \A r : EndsWith(channel, r) => EndsWith(channel', r)
  BY <1>1, <1>5, MessagePosted
<1>7. Typed'
  BY <1>1, <1>3, <1>4, <1>6 DEF Inv, Typed, LockOK, GameOK, NetOK
<1>8. PreparedInv'
  BY <1>1, <1>4, <1>5, <1>6 DEF Inv, PreparedInv
<1>9. ButtonsInv'
  BY <1>1, <1>3, <1>4, <1>5, <1>6 DEF Inv, ButtonsInv, EnabledButton
<1>10. PhantomInv'
  BY <1>1, <1>4 DEF Inv, PhantomInv
<1>11. HeededInv'
  BY <1>1, <1>4, <1>6 DEF Inv, HeededInv
<1> QED
  BY <1>7, <1>8, <1>9, <1>10, <1>11 DEF Inv

LEMMA SendLogPreparerInv ==
    ASSUME Inv, SendLog(Preparer)
    PROVE  Inv'
<1>1. /\ Does(Preparer, "log")
      /\ UNCHANGED <<holder, channel, buttons, state, game, ran, defied, value, changed, updates, known,
                     conn, wire, received, last, asked, connects>>
  BY DEF SendLog, gameVars, linkVars, netVars
<1>2. /\ todo[Preparer] # <<>> /\ Head(todo[Preparer]) = "log" /\ PreparerMove(todo[Preparer])
      /\ Shapes' /\ todo'[Preparer] = Tail(todo[Preparer]) /\ Others(Preparer)
  BY <1>1, PreparerDoes DEF Inv, Typed
<1>3. /\ todo'[Window] = todo[Window] /\ todo'[Updater] = todo[Updater]
      /\ Place(Updater)' = Place(Updater)
  BY <1>2, PlaceOfWindow
<1>4. todo'[Preparer] # <<>> /\ todo[Preparer] \notin {<<>>, <<"updateui">>}
  <2>1. Head(<<"updateui">>) = "updateui"
    OBVIOUS
  <2> QED
    BY <1>2, <2>1 DEF PreparerMove
<1>5. Typed'
  BY <1>1, <1>2, <1>3 DEF Inv, Typed, LockOK, ChannelOK, GameOK, NetOK
<1>6. PreparedInv'
  BY <1>1, <1>3, <1>4 DEF Inv, PreparedInv
<1>7. ButtonsInv'
  BY <1>4 DEF ButtonsInv
<1>8. PhantomInv'
  BY <1>1, <1>3 DEF Inv, PhantomInv
<1> QED
  BY <1>1, <1>3, <1>5, <1>6, <1>7, <1>8, RequestsKept DEF Inv

LEMMA PrepareInv ==
    ASSUME Inv, Prepare
    PROVE  Inv'
<1>1. /\ Does(Preparer, "prepare")
      /\ state' \in {"ready", "prepareFailed"}
      /\ UNCHANGED <<holder, channel, buttons, game, ran, defied, value, changed, updates, known,
                     conn, wire, received, last, asked, connects>>
  BY DEF Prepare, linkVars, netVars
<1>2. /\ todo[Preparer] # <<>> /\ Head(todo[Preparer]) = "prepare"
      /\ PreparerMove(todo[Preparer])
      /\ Shapes' /\ todo'[Preparer] = Tail(todo[Preparer]) /\ Others(Preparer)
  BY <1>1, PreparerDoes DEF Inv, Typed
<1>3. /\ todo'[Window] = todo[Window] /\ todo'[Updater] = todo[Updater]
      /\ Place(Updater)' = Place(Updater)
  BY <1>2, PlaceOfWindow
<1>4. state = "preparing"
  <2>1. Head(<<"updateui">>) = "updateui"
    OBVIOUS
  <2> QED
    BY <1>2, <2>1 DEF Inv, PreparedInv
<1>5. todo'[Preparer] # <<>> /\ todo'[Preparer] \in {<<>>, <<"updateui">>}
  BY <1>2 DEF PreparerMove
<1>6. Typed'
  BY <1>1, <1>2, <1>3, <1>4 DEF Inv, Typed, LockOK, ChannelOK, GameOK, NetOK
<1>7. PreparedInv'
  BY <1>1, <1>3, <1>4, <1>5 DEF Inv, PreparedInv
<1>8. ButtonsInv'
  BY <1>5 DEF ButtonsInv
<1>9. PhantomInv'
  BY <1>1, <1>3 DEF Inv, PhantomInv
<1> QED
  BY <1>1, <1>3, <1>6, <1>7, <1>8, <1>9, RequestsKept DEF Inv

-------------------------------------------------------------------------------
(* The server, the game, and steps of others *)

\* Neither a thread nor what the window knows of takes part.
LEMMA OutsideInv ==
    ASSUME Inv, UNCHANGED <<todo, holder, channel, buttons, state, ran, defied, conn, value, received, last>>,
           GameOK', NetOK', Range(updates') \subseteq Range(updates),
           known' \in Range(updates) \cup {known}
    PROVE  Inv'
<1>1. Typed'
  BY DEF Inv, Typed, Shapes, LockOK, ChannelOK
<1>2. PreparedInv' /\ ButtonsInv' /\ HeededInv'
  BY DEF Inv, PreparedInv, ButtonsInv, HeededInv, EnabledButton, Place
<1>3. PhantomInv'
  BY DEF Inv, PhantomInv
<1> QED
  BY <1>1, <1>2, <1>3 DEF Inv

LEMMA AskInv ==
    ASSUME Inv, Ask
    PROVE  Inv'
<1>1. PICK r \in Requests : wire' = Append(wire, r)
  BY DEF Ask
<1>2. /\ conn = "up" /\ asked < MaxRequests /\ asked' = asked + 1
      /\ UNCHANGED <<todo, holder, channel, buttons, state, game, ran, defied, value, changed, updates,
                     known, conn, received, last, connects>>
  BY DEF Ask, gameVars, linkVars
<1>3. wire' \in Seq(Requests)
  BY <1>1, AppendProperties DEF Inv, Typed, NetOK
<1>4. NetOK' /\ GameOK'
  BY <1>2, <1>3, BoundsAssumption DEF Inv, Typed, NetOK, GameOK
<1> QED
  BY <1>2, <1>4, OutsideInv

LEMMA RemoteValueChangedInv ==
    ASSUME Inv, RemoteValueChanged
    PROVE  Inv'
<1>1. /\ updates # <<>> /\ known' = Head(updates) /\ updates' = Tail(updates)
      /\ UNCHANGED <<todo, holder, channel, buttons, state, game, ran, defied, value, changed,
                     conn, wire, received, last, asked, connects>>
  BY DEF RemoteValueChanged, gameVars, netVars
<1>2. /\ updates' \in Seq(RunStatus) /\ known' \in RunStatus
      /\ Range(updates) = {known'} \cup Range(updates')
  <2>1. updates \in Seq(RunStatus) /\ RunStatus \subseteq Items
    BY DEF Inv, Typed, NetOK, Items
  <2>2. updates \in Seq(Items)
    BY <2>1, SeqMonotonic
  <2> QED
    BY <1>1, <2>1, <2>2, AppOfTail, HeadTailProperties
<1>3. NetOK' /\ GameOK'
  BY <1>1, <1>2 DEF Inv, Typed, NetOK, GameOK
<1> QED
  BY <1>1, <1>2, <1>3, OutsideInv

LEMMA GameExitsInv ==
    ASSUME Inv, GameExits
    PROVE  Inv'
<1>1. UNCHANGED <<todo, holder, channel, buttons, state, ran, defied, value, changed, updates, known,
                  conn, wire, received, last, asked, connects>>
  BY DEF GameExits, linkVars, netVars
<1>2. game' \in BOOLEAN /\ ~game'
  BY Zenon DEF GameExits
<1>3. NetOK' /\ GameOK'
  BY <1>1, <1>2 DEF Inv, Typed, NetOK, GameOK
<1> QED
  BY <1>1, <1>3, OutsideInv

LEMMA StutterInv ==
    ASSUME Inv, UNCHANGED vars
    PROVE  Inv'
<1>1. UNCHANGED <<todo, holder, channel, buttons, state, game, ran, defied, value, changed, updates,
                  known, conn, wire, received, last, asked, connects>>
  BY DEF vars, gameVars, linkVars, netVars
<1>2. NetOK' /\ GameOK'
  BY <1>1 DEF Inv, Typed, NetOK, GameOK
<1> QED
  BY <1>1, <1>2, OutsideInv

LEMMA NextInv == Inv /\ [Next]_vars => Inv'
<1> SUFFICES ASSUME Inv, [Next]_vars
             PROVE  Inv'
  OBVIOUS
<1>1. CASE UpdaterStep
  BY <1>1, FrameUpdateInv, ProcessReceivedMessagesInv, PostMessageUpdaterInv, NetworkInv,
     RequestUpdateUIStatesInv, UnlockUpdaterInv DEF UpdaterStep
<1>2. CASE PreparerStep
  BY <1>2, PostMessagePreparerInv, SendLogPreparerInv, PrepareInv DEF PreparerStep
<1>3. CASE TakeMessage
  BY <1>3, TakeMessageInv
<1>4. CASE TimerPulse
  BY <1>4, TimerPulseInv
<1>5. CASE WindowGoesOn
  BY <1>5, ConnectToHostInv, DisconnectFromHostInv, UpdateUIStatesInv, SetRunStatusInv,
     SendLogWindowInv, RequestUpdateUIStatesInv, UnlockWindowInv DEF WindowGoesOn
<1>6. CASE BtnConnect
  BY <1>6, BtnConnectInv
<1>7. CASE BtnDisconnect
  BY <1>7, BtnDisconnectInv
<1>8. CASE Ask
  BY <1>8, AskInv
<1>9. CASE RemoteValueChanged
  BY <1>9, RemoteValueChangedInv
<1>10. CASE GameExits
  BY <1>10, GameExitsInv
<1>11. CASE UNCHANGED vars
  BY <1>11, StutterInv
<1> QED
  BY <1>1, <1>2, <1>3, <1>4, <1>5, <1>6, <1>7, <1>8, <1>9, <1>10, <1>11 DEF Next

LEMMA InvHolds == Spec => []Inv
BY InitInv, NextInv, PTL DEF Spec

-------------------------------------------------------------------------------
(* Theorems *)

\* The variables have their types; pMutexClient belongs to the thread that is in a
\* section under it, and to no other; without a connection nothing is under way.
THEOREM TypeCorrect == Spec => []TypeOK
BY InvHolds, InvImplies, PTL

\* Once all requests that reached the launcher are handled and the last one was to
\* stop or to kill, no application runs, or it runs on because StopGame() or KillGame()
\* threw when the window handled the last request: the queue of messages received, the
\* thread handling them and the channel to the window keep the requests in order, so that
\* a start overtaken by a stop does not come back (StartApp(), StopApp(), KillApp()).
THEOREM LastWordHeeded == Spec => []LastRequestHeeded
BY InvHolds, InvImplies, PTL

\* The server is told "running" only when RunGame() returned since the launcher
\* connected, with a game or, the profile not being valid, without one, or a game
\* started before still ran: neither a RunGame() that threw nor a value of an earlier
\* connection makes it so (onMsgStartApp(), onTimerPulse()).
THEOREM NoPhantomRuns == Spec => []NoPhantomRun
BY InvHolds, InvImplies, PTL

\* When no update of the user interface is due, the button that fits the connection
\* and the state of the launcher is enabled, and no other: every change of either is
\* followed by an update or a request for one (RequestUpdateUIStates()).
THEOREM ButtonsAlwaysFit == Spec => []ButtonsFit
BY InvHolds, InvImplies, PTL

\* No request to run the application is on its way before the launcher is prepared,
\* on the network, among the messages received or in the channel: RunGame() is never
\* reached while Prepare() works (UpdateUIStates(), Launcher::RunGame()).
THEOREM PreparedWhenRequested == Spec => []PreparedWhenAsked
BY InvHolds, InvImplies, PTL

=================================================================================
