------------------------- MODULE ClientLifecycleProofs -------------------------
(***************************************************************************)
(* Proofs about ClientLifecycle, for any number of users, calls and        *)
(* sessions.                                                               *)
(*                                                                         *)
(* Whoever dials, logs on, registers or shuts a session holds fixMu, so    *)
(* there is one at a time and it knows whether there is a session.  A      *)
(* session the client keeps has a closer: about to be registered,          *)
(* registered, or taken by a root Close that has yet to run it.            *)
(***************************************************************************)
EXTENDS ClientLifecycle, TLAPS

\* Where a user holds fixMu, and what it may rely on there.
Holding ==
  \A u \in Users :
    /\ pc[u] \in {"dial", "logon", "register", "shut"} => fixMu = {u}
    /\ pc[u] \in {"dial", "logon"} => session = None
    /\ pc[u] \in {"register", "shut"} => session # None
    /\ pc[u] \in {"logon", "register"} => closers < Dialled

\* A closer of a root Close that has yet to be run.
ToRun(u) == todo[u] > 0 /\ pc[u] \in {"close", "shut"}

\* The client's session will be closed by the root client, sooner or later.
SessionHasCloser ==
  session # None => closers > 0 \/ \E u \in Users : pc[u] = "register" \/ ToRun(u)

\* The client's session, and one that is at its Logon, have not been closed.
Alive ==
  /\ session # None => sessions[session] # "closed"
  /\ \A u \in Users : pc[u] = "logon" => sessions[Dialled] # "closed"

IInv == TypeOK /\ Holding /\ NoneLeftBehind /\ SessionHasCloser /\ Alive

-----------------------------------------------------------------------------
\* The parts of the type invariant that arithmetic needs.
LEMMA Types ==
  ASSUME TypeOK
  PROVE  /\ sessions \in Seq(States) /\ Dialled \in Nat
         /\ session \in 0..Dialled /\ closers \in 0..Dialled
         /\ todo \in [Users -> 0..Dialled] /\ \A u \in Users : todo[u] \in Nat
         /\ held \in [Users -> 0..Dialled]
<1>1. sessions \in Seq(States)
  BY DEF TypeOK
<1>2. Dialled \in Nat
  BY <1>1 DEF Dialled
<1>3. /\ session \in 0..Dialled /\ closers \in 0..Dialled
      /\ todo \in [Users -> 0..Dialled] /\ held \in [Users -> 0..Dialled]
  BY DEF TypeOK
<1> QED
  BY <1>1, <1>2, <1>3

\* Closing one of the sessions, or losing it.
LEMMA Changed ==
  ASSUME sessions \in Seq(States), NEW n \in 1..Dialled, NEW to \in States,
         sessions' = [sessions EXCEPT ![n] = to]
  PROVE  /\ sessions' \in Seq(States) /\ Dialled' = Dialled
         /\ sessions'[n] = to
         /\ \A m \in 1..Dialled : m # n => sessions'[m] = sessions[m]
  BY DEF Dialled, States

\* Dialling another one.
LEMMA Appended ==
  ASSUME sessions \in Seq(States), sessions' = Append(sessions, "open")
  PROVE  /\ sessions' \in Seq(States) /\ Dialled \in Nat /\ Dialled' = Dialled + 1
         /\ sessions'[Dialled + 1] = "open"
         /\ \A m \in 1..Dialled : sessions'[m] = sessions[m]
  BY DEF Dialled, States

-----------------------------------------------------------------------------
LEMMA Initially == Init => IInv
<1> SUFFICES ASSUME Init PROVE IInv
  OBVIOUS
<1>1. Dialled = 0 /\ sessions \in Seq(States)
  BY DEF Init, Dialled
<1>2. TypeOK /\ Holding
  BY <1>1, BoundsAreNatural DEF Init, TypeOK, Holding, None
<1>3. NoneLeftBehind /\ SessionHasCloser /\ Alive
  BY <1>1 DEF Init, NoneLeftBehind, SessionHasCloser, Alive
<1> QED
  BY <1>2, <1>3 DEF IInv

\* The steps that change no session, and the place of one user only.
Quiet(u) == \/ Begin(u) \/ AskForts(u) \/ Forts(u) \/ Build(u)
            \/ Connect(u) \/ CannotDial(u) \/ Use(u) \/ SendApp(u)

LEMMA QuietCounts ==
  ASSUME TypeOK, NEW u \in Users, Quiet(u)
  PROVE  /\ calls' \in [Users -> 0..MaxCalls] /\ held' \in [Users -> 0..Dialled]
         /\ once' \in {"new", "running", "done"}
<1>1. calls \in [Users -> 0..MaxCalls] /\ held \in [Users -> 0..Dialled]
  BY DEF TypeOK
<1>2. CASE Begin(u)
  <2>1. calls[u] \in 0..MaxCalls /\ calls[u] < MaxCalls /\ calls' = [calls EXCEPT ![u] = @ + 1]
    BY <1>1, <1>2 DEF Begin
  <2>2. calls[u] + 1 \in 0..MaxCalls
    BY <2>1, BoundsAreNatural
  <2> QED
    BY <1>1, <1>2, <2>1, <2>2 DEF Begin, TypeOK
<1>3. CASE AskForts(u) \/ Forts(u) \/ Build(u) \/ Connect(u) \/ CannotDial(u)
  BY <1>1, <1>3 DEF AskForts, Forts, Build, Connect, CannotDial, mine, TypeOK
<1>4. CASE Use(u) \/ SendApp(u)
  <2>1. session \in 0..Dialled /\ None \in 0..Dialled
    BY Types DEF None
  <2> QED
    BY <1>1, <1>4, <2>1 DEF Use, SendApp, mine, TypeOK
<1> QED
  BY <1>2, <1>3, <1>4 DEF Quiet

LEMMA QuietSteps ==
  ASSUME IInv, NEW u \in Users, Quiet(u)
  PROVE  IInv'
<1> USE DEF IInv
<1>1. /\ Dialled' = Dialled /\ UNCHANGED <<sessions, session, closers, closersMu, todo>>
      /\ pc[u] \in {"idle", "use", "connect", "dial", "forts", "build", "send"}
      /\ pc' = [pc EXCEPT ![u] = pc'[u]]
      /\ pc'[u] \in {"idle", "connect", "close", "close all", "use", "dial", "forts",
                     "build", "send"}
      /\ pc'[u] = "dial" => session = None /\ fixMu = {} /\ fixMu' = {u}
      /\ fixMu' = fixMu \/ (pc[u] = "dial" /\ fixMu' = {}) \/ (fixMu = {} /\ fixMu' = {u})
  BY DEF Quiet, Begin, AskForts, Forts, Build, Connect, CannotDial, Use, SendApp,
         Connected, Goto, locks, mine, TypeOK, Dialled
<1>2. TypeOK'
  BY <1>1, QuietCounts DEF TypeOK
<1>3. Holding'
  BY <1>1 DEF TypeOK, Holding
<1>4. NoneLeftBehind'
  <2>1. \A v \in Users : pc[v] = "logon" => pc'[v] = "logon"
    BY <1>1 DEF TypeOK
  <2> QED
    BY <1>1, <2>1 DEF NoneLeftBehind
<1>5. SessionHasCloser'
  BY <1>1 DEF TypeOK, SessionHasCloser, ToRun
<1>6. Alive'
  BY <1>1 DEF TypeOK, Alive
<1> QED
  BY <1>2, <1>3, <1>4, <1>5, <1>6

\* Whoever is between dialling and registering, or shuts, is the only one.
LEMMA OneAtATime ==
  ASSUME Holding, NEW u \in Users, pc[u] \in {"dial", "logon", "register", "shut"}
  PROVE  \A v \in Users : v # u => pc[v] \notin {"dial", "logon", "register", "shut"}
  BY DEF Holding

LEMMA DialStep ==
  ASSUME IInv, NEW u \in Users, Dial(u)
  PROVE  IInv'
<1> USE DEF IInv
<1>1. /\ pc[u] = "dial" /\ session = None /\ fixMu = {u}
      /\ UNCHANGED <<once, locks, session, closers, held, todo, calls>>
      /\ pc' = [pc EXCEPT ![u] = "logon"]
  BY DEF Dial, Holding, Goto, mine
<1>2. \A v \in Users : v # u => pc[v] \notin {"dial", "logon", "register", "shut"}
  BY <1>1, OneAtATime
<1>3. /\ Dialled \in Nat /\ Dialled' = Dialled + 1 /\ sessions' \in Seq(States)
      /\ sessions'[Dialled + 1] = "open"
      /\ \A m \in 1..Dialled : sessions'[m] = sessions[m]
  BY Types, Appended DEF Dial
<1>4. TypeOK'
  <2>1. /\ session' \in 0..Dialled' /\ closers' \in 0..Dialled'
        /\ todo' \in [Users -> 0..Dialled'] /\ held' \in [Users -> 0..Dialled']
    BY <1>1, <1>3, Types
  <2> QED
    BY <1>1, <1>3, <2>1 DEF locks, TypeOK
<1>5. Holding'
  <2>1. closers < Dialled + 1
    BY <1>3, Types
  <2> QED
    BY <1>1, <1>2, <1>3, <2>1 DEF locks, TypeOK, Holding
<1>6. NoneLeftBehind'
  <2> SUFFICES ASSUME NEW n \in 1..Dialled + 1, sessions'[n] # "closed"
               PROVE  n = Dialled + 1
    BY <1>1, <1>3 DEF TypeOK, NoneLeftBehind
  <2>1. ~ n <= Dialled
    BY <1>1, <1>2, <1>3 DEF NoneLeftBehind, None
  <2> QED
    BY <1>3, <2>1
<1>7. SessionHasCloser' /\ Alive'
  BY <1>1, <1>3 DEF SessionHasCloser, Alive
<1> QED
  BY <1>4, <1>5, <1>6, <1>7

LEMMA LogonStep ==
  ASSUME IInv, NEW u \in Users, Logon(u)
  PROVE  IInv'
<1> USE DEF IInv
<1>1. /\ pc[u] = "logon" /\ session = None /\ fixMu = {u} /\ closers < Dialled
      /\ UNCHANGED <<once, closersMu, closers, held, todo, calls>>
  BY DEF Logon, Holding, mine
<1>2. \A v \in Users : v # u => pc[v] \notin {"dial", "logon", "register", "shut"}
  BY <1>1, OneAtATime
<1>3. Dialled \in Nat /\ Dialled > 0 /\ closers \in Nat
  BY <1>1, Types
<1>4. CASE session' = Dialled /\ Goto(u, "register") /\ UNCHANGED <<fixMu, sessions>>
  <2>1. Dialled' = Dialled
    BY <1>4 DEF Dialled
  <2>2. session' \in 0..Dialled /\ session' # None
    BY <1>3, <1>4 DEF None
  <2>3. TypeOK'
    BY <1>1, <1>4, <2>1, <2>2 DEF Goto, TypeOK
  <2>6. Holding'
    BY <1>1, <1>2, <1>4, <2>1, <2>2 DEF Goto, TypeOK, Holding
  <2>4. NoneLeftBehind'
    BY <1>1, <1>2, <1>3, <1>4, <2>1 DEF NoneLeftBehind, None
  <2>5. SessionHasCloser' /\ Alive'
    BY <1>1, <1>2, <1>4, <2>1 DEF Goto, TypeOK, SessionHasCloser, Alive
  <2> QED
    BY <2>3, <2>4, <2>5, <2>6
<1>5. CASE sessions' = Shut(Dialled) /\ fixMu' = {} /\ Goto(u, "idle") /\ UNCHANGED session
  <2>1. /\ Dialled' = Dialled /\ sessions' \in Seq(States) /\ sessions'[Dialled] = "closed"
        /\ \A m \in 1..Dialled : m # Dialled => sessions'[m] = sessions[m]
    <3>1. Dialled \in 1..Dialled /\ "closed" \in States
      BY <1>3 DEF States
    <3> QED
      BY <1>5, <3>1, Types, Changed DEF Shut
  <2>2. TypeOK'
    BY <1>1, <1>5, <2>1 DEF Goto, TypeOK
  <2>3. Holding'
    BY <1>1, <1>2, <1>5, <2>1 DEF Goto, TypeOK, Holding
  <2>4. NoneLeftBehind'
    BY <1>1, <1>2, <1>3, <1>5, <2>1 DEF NoneLeftBehind, None
  <2>5. SessionHasCloser' /\ Alive'
    BY <1>1, <1>2, <1>5 DEF Goto, TypeOK, SessionHasCloser, Alive
  <2> QED
    BY <2>2, <2>3, <2>4, <2>5
<1> QED
  BY <1>4, <1>5 DEF Logon

LEMMA RegisterStep ==
  ASSUME IInv, NEW u \in Users, Register(u)
  PROVE  IInv'
<1> USE DEF IInv
<1>1. /\ pc[u] = "register" /\ closers < Dialled /\ Dialled' = Dialled
      /\ closers' = closers + 1 /\ fixMu' = {} /\ pc' = [pc EXCEPT ![u] = "idle"]
      /\ UNCHANGED <<once, closersMu, session, sessions, held, todo, calls>>
  BY DEF Register, OneMore, Goto, Holding, Dialled, mine
<1>2. \A v \in Users : v # u => pc[v] \notin {"dial", "logon", "register", "shut"}
  BY <1>1, OneAtATime
<1>3. Dialled \in Nat /\ closers \in Nat
  BY Types
<1>4. TypeOK'
  <2>1. closers' \in 0..Dialled'
    BY <1>1, <1>3
  <2> QED
    BY <1>1, <2>1 DEF TypeOK
<1>5. Holding'
  BY <1>1, <1>2 DEF TypeOK, Holding
<1>6. NoneLeftBehind'
  BY <1>1 DEF TypeOK, NoneLeftBehind
<1>7. SessionHasCloser'
  BY <1>1, <1>3 DEF SessionHasCloser
<1>8. Alive'
  BY <1>1 DEF TypeOK, Alive
<1> QED
  BY <1>4, <1>5, <1>6, <1>7, <1>8

LEMMA CloseStep ==
  ASSUME IInv, NEW u \in Users, Close(u)
  PROVE  IInv'
<1> USE DEF IInv
<1>1. /\ pc[u] = "close" /\ fixMu = {} /\ Dialled' = Dialled
      /\ \A v \in Users : pc[v] \notin {"dial", "logon", "register", "shut"}
      /\ UNCHANGED <<once, closersMu, session, sessions, closers, held, calls>>
  BY DEF Close, Holding, Dialled
<1>2. Dialled \in Nat /\ todo[u] \in 0..Dialled /\ todo \in [Users -> 0..Dialled]
  BY Types
<1>3. CASE session = None /\ NextCloser(u) /\ UNCHANGED fixMu
  <2>1. todo' \in [Users -> 0..Dialled]
    BY <1>2, <1>3 DEF NextCloser
  <2>2. TypeOK'
    BY <1>1, <1>3, <2>1 DEF NextCloser, Goto, TypeOK
  <2>3. Holding' /\ NoneLeftBehind' /\ SessionHasCloser' /\ Alive'
    BY <1>1, <1>3
    DEF NextCloser, Goto, TypeOK, Holding, NoneLeftBehind, SessionHasCloser, Alive
  <2> QED
    BY <2>2, <2>3
<1>4. CASE session # None /\ Goto(u, "shut") /\ fixMu' = {u} /\ UNCHANGED todo
  <2>1. TypeOK' /\ Holding'
    BY <1>1, <1>4 DEF Goto, TypeOK, Holding
  <2>2. NoneLeftBehind' /\ SessionHasCloser' /\ Alive'
    BY <1>1, <1>4 DEF Goto, TypeOK, NoneLeftBehind, SessionHasCloser, ToRun, Alive
  <2> QED
    BY <2>1, <2>2
<1> QED
  BY <1>3, <1>4 DEF Close, Connected

LEMMA ShutStep ==
  ASSUME IInv, NEW u \in Users, ShutSession(u)
  PROVE  IInv'
<1> USE DEF IInv
<1>1. /\ pc[u] = "shut" /\ session # None /\ sessions' = Shut(session) /\ session' = None
      /\ fixMu' = {} /\ NextCloser(u) /\ UNCHANGED <<once, closersMu, closers, held, calls>>
  BY DEF ShutSession, Forgotten, Holding
<1>2. \A v \in Users : v # u => pc[v] \notin {"dial", "logon", "register", "shut"}
  BY <1>1, OneAtATime
<1>3. /\ Dialled \in Nat /\ session \in 1..Dialled
      /\ todo[u] \in 0..Dialled /\ todo \in [Users -> 0..Dialled]
  BY <1>1, Types DEF None
<1>4. /\ Dialled' = Dialled /\ sessions' \in Seq(States) /\ sessions'[session] = "closed"
      /\ \A m \in 1..Dialled : m # session => sessions'[m] = sessions[m]
  BY <1>1, <1>3, Types, Changed DEF Shut, States
<1>5. todo' \in [Users -> 0..Dialled]
  BY <1>1, <1>3 DEF NextCloser
<1>6. TypeOK'
  <2>1. session' \in 0..Dialled'
    BY <1>1, <1>3, <1>4 DEF None
  <2> QED
    BY <1>1, <1>4, <1>5, <2>1 DEF NextCloser, Goto, TypeOK
<1>7. Holding'
  BY <1>1, <1>2, <1>4 DEF NextCloser, Goto, TypeOK, Holding
<1>8. NoneLeftBehind'
  BY <1>1, <1>2, <1>4 DEF NoneLeftBehind
<1>9. SessionHasCloser' /\ Alive'
  BY <1>1, <1>2 DEF NextCloser, Goto, TypeOK, SessionHasCloser, Alive
<1> QED
  BY <1>6, <1>7, <1>8, <1>9

LEMMA CloseAllStep ==
  ASSUME IInv, NEW u \in Users, CloseAll(u)
  PROVE  IInv'
<1> USE DEF IInv
<1>1. /\ pc[u] = "close all" /\ Dialled' = Dialled /\ closersMu' = {} /\ closers' = 0
      /\ todo' = [todo EXCEPT ![u] = closers]
      /\ pc' = [pc EXCEPT ![u] = IF closers > 0 THEN "close" ELSE "idle"]
      /\ UNCHANGED <<once, fixMu, session, sessions, held, calls>>
  BY DEF CloseAll, Goto, Released, Dialled
<1>2. Dialled \in Nat /\ closers \in 0..Dialled /\ todo \in [Users -> 0..Dialled]
  BY Types
<1>3. TypeOK'
  <2>1. 0 \in 0..Dialled
    BY <1>2
  <2>2. todo' \in [Users -> 0..Dialled]
    BY <1>1, <1>2
  <2> QED
    BY <1>1, <2>1, <2>2 DEF TypeOK
<1>4. Holding'
  <2>1. closers < Dialled => 0 < Dialled
    BY <1>2
  <2> QED
    BY <1>1, <2>1 DEF TypeOK, Holding
<1>5. NoneLeftBehind' /\ Alive'
  BY <1>1 DEF TypeOK, NoneLeftBehind, Alive
<1>6. SessionHasCloser'
  <2>1. CASE closers > 0
    <3>1. ToRun(u)'
      BY <1>1, <1>2, <2>1 DEF TypeOK, ToRun
    <3> QED
      BY <3>1 DEF SessionHasCloser
  <2>2. CASE closers = 0
    <3>1. ASSUME NEW v \in Users, pc[v] = "register" \/ ToRun(v)
          PROVE  (pc[v] = "register" \/ ToRun(v))'
      BY <1>1, <3>1 DEF TypeOK, ToRun
    <3> QED
      BY <1>1, <2>2, <3>1 DEF SessionHasCloser
  <2> QED
    BY <1>2, <2>1, <2>2
<1> QED
  BY <1>3, <1>4, <1>5, <1>6

LEMMA BreakStep ==
  ASSUME IInv, NEW n \in 1..Dialled, Break(n)
  PROVE  IInv'
<1> USE DEF IInv
<1>1. /\ Dialled' = Dialled /\ sessions' \in Seq(States)
      /\ \A m \in 1..Dialled : sessions[m] = "closed" => sessions'[m] = "closed"
  <2>1. "broken" \in States /\ sessions[n] = "open"
    BY DEF Break, States
  <2> QED
    BY <2>1, Types, Changed DEF Break
<1>2. TypeOK' /\ Holding'
  BY <1>1 DEF Break, locks, mine, TypeOK, Holding
<1>3. NoneLeftBehind' /\ SessionHasCloser'
  BY <1>1 DEF Break, mine, NoneLeftBehind, SessionHasCloser, ToRun
<1>4. Alive'
  <2>1. \A m \in 1..Dialled : sessions[m] # "closed" => sessions'[m] # "closed"
    BY Types, Changed DEF Break, States
  <2> QED
    BY <1>1, <2>1, Types DEF Break, Alive, Holding, None
<1> QED
  BY <1>2, <1>3, <1>4

LEMMA Preserved == IInv /\ [Next]_vars => IInv'
<1> SUFFICES ASSUME IInv, [Next]_vars PROVE IInv'
  OBVIOUS
<1>1. ASSUME NEW u \in Users, Begin(u) \/ AskForts(u) \/ Proceed(u) PROVE IInv'
  BY <1>1, QuietSteps, DialStep, LogonStep, RegisterStep, CloseStep, ShutStep,
     CloseAllStep
  DEF Proceed, Quiet
<1>2. ASSUME NEW n \in 1..Dialled, Break(n) PROVE IInv'
  BY <1>2, BreakStep
<1>3. CASE UNCHANGED vars
  BY <1>3
  DEF vars, locks, mine, IInv, TypeOK, Holding, NoneLeftBehind, SessionHasCloser, ToRun,
      Alive, Dialled
<1> QED
  BY <1>1, <1>2, <1>3 DEF Next

\* fixMu and the registration of closers keep their invariant over any calls.
THEOREM LifecycleInvariance == Spec => []IInv
  BY Initially, Preserved, PTL DEF Spec

\* What the calls share keeps its type: there are never more closers registered, or
\* taken by a root Close, than sessions were dialled.
THEOREM LifecycleTypes == Spec => []TypeOK
  BY LifecycleInvariance, PTL DEF IInv

\* A trading call is handed out a session that has not been closed, however many
\* users connect and close meanwhile.
THEOREM HandedOutIsOpen == Spec => HandedOutOpen
<1>1. ASSUME IInv, [Next]_vars, NEW u \in Users, held'[u] # held[u], held'[u] # None
      PROVE  sessions[held'[u]] # "closed"
  <2>1. ASSUME NEW v \in Users, held' # held, Begin(v) \/ AskForts(v) \/ Proceed(v)
        PROVE  Use(v) \/ SendApp(v)
    BY <2>1 DEF Begin, AskForts, Proceed, Forts, Build, Connect, CannotDial, Dial, Logon,
                Register, Close, ShutSession, CloseAll
  <2>2. PICK v \in Users : Use(v) \/ SendApp(v)
    BY <1>1, <2>1 DEF Next, Break, vars
  <2>3. held \in [Users -> 0..Dialled]
    BY <1>1, Types DEF IInv
  <2>4. held' = [held EXCEPT ![v] = session] /\ session # None
    BY <1>1, <2>2, <2>3 DEF Use, SendApp, Connected
  <2> QED
    BY <1>1, <2>3, <2>4 DEF IInv, Alive
<1>2. IInv /\ [Next]_vars =>
        [\A u \in Users : held'[u] # held[u] /\ held'[u] # None =>
                             sessions[held'[u]] # "closed"]_vars
  BY <1>1
<1> QED
  BY <1>2, LifecycleInvariance, PTL DEF Spec, HandedOutOpen

\* No session is left open that the client does not know, however Connect and
\* Close overlap.
THEOREM NoSessionLeftBehind == Spec => []NoneLeftBehind
  BY LifecycleInvariance, PTL DEF IInv

\* Once everybody has returned, a root Close that left no closer left no FIX session
\* open (client.go:84-101, forts/client.go:137-186).
THEOREM RootCloseEndsSessions == Spec => []CloseEndsSessions
<1>1. IInv => CloseEndsSessions
  <2> SUFFICES ASSUME IInv, closers = 0, \A u \in Users : pc[u] = "idle",
                      NEW n \in 1..Dialled
               PROVE  sessions[n] = "closed"
    BY DEF CloseEndsSessions
  <2>1. session = None
    BY DEF IInv, SessionHasCloser, ToRun
  <2> QED
    BY <2>1 DEF IInv, NoneLeftBehind, None
<1> QED
  BY <1>1, LifecycleInvariance, PTL
=============================================================================
