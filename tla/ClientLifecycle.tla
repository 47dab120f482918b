---------------------------- MODULE ClientLifecycle ----------------------------
(***************************************************************************)
(* Connecting and closing: Connect, Close and session of forts/client.go   *)
(* with Forts, RegisterCloser and Close of the root client, client.go.     *)
(*                                                                         *)
(* The first call of Forts builds the FORTS client, under a sync.Once for  *)
(* which the others wait; before it there is none to call.                 *)
(*                                                                         *)
(* Goroutines call them in any order and at the same time.  Connect holds  *)
(* fixMu from the first check to the registration of its closer, across    *)
(* the dialling and the whole Logon; the root client collects the closers  *)
(* under closersMu and runs them after it has released it.  fixMu is an    *)
(* RWMutex: session() only reads, and waits for a Connect as they all do.  *)
(*                                                                         *)
(* What goes on inside a session is FixSession; here it is open, has lost  *)
(* its connection, or was closed by the client.                            *)
(***************************************************************************)
EXTENDS Naturals, Sequences

CONSTANTS Users,        \* the goroutines that use the clients
          MaxCalls,     \* bound on the calls each of them makes
          MaxSessions   \* bound on the sessions that are dialled

ASSUME BoundsAreNatural == MaxCalls \in Nat /\ MaxSessions \in Nat

VARIABLES once,        \* fortsOnce, and with it whether there is a FORTS client
          fixMu,       \* who holds forts.Client.fixMu for writing: {} or one user
          session,     \* fixSession: the number of a session, 0 for nil
          sessions,    \* what has become of each session that was dialled
          closersMu,   \* who holds moex.Client.closersMu
          closers,     \* the closers registered; each is forts.Client.Close
          pc,          \* where each user is
          held,        \* the session that each user was handed out, None if it has none
          todo,        \* the closers a root Close has yet to run
          calls        \* how often each user has called

locks == <<fixMu, closersMu>>
mine  == <<todo, calls>>
vars  == <<once, locks, session, sessions, closers, pc, held, mine>>

None == 0

Goto(u, to) == pc' = [pc EXCEPT ![u] = to]

Dialled == Len(sessions)

States == {"open", "broken", "closed"}

-----------------------------------------------------------------------------
Begin(u) ==
  /\ pc[u] = "idle" /\ calls[u] < MaxCalls
  /\ calls' = [calls EXCEPT ![u] = @ + 1]
  /\ \/ Goto(u, "close all")
     \/ once = "done" /\ \E call \in {"connect", "close", "use"} : Goto(u, call)
  /\ UNCHANGED <<once, locks, session, sessions, closers, held, todo>>

-----------------------------------------------------------------------------
(* Forts                                                                    *)

AskForts(u) ==
  /\ pc[u] = "idle" /\ once # "done"
  /\ Goto(u, "forts")
  /\ UNCHANGED <<once, locks, session, sessions, closers, held, mine>>

\* fortsOnce.Do: the first one runs the factory, the others wait for it.
Forts(u) ==
  /\ pc[u] = "forts"
  /\ \/ once = "new" /\ once' = "running" /\ Goto(u, "build")
     \/ once = "done" /\ Goto(u, "idle") /\ UNCHANGED once
  /\ UNCHANGED <<locks, session, sessions, closers, held, mine>>

\* NewClient of the FORTS client.
Build(u) ==
  /\ pc[u] = "build"
  /\ once' = "done" /\ Goto(u, "idle")
  /\ UNCHANGED <<locks, session, sessions, closers, held, mine>>

-----------------------------------------------------------------------------
(* Connect                                                                  *)

\* Mutant: Connect does not look whether there is a session.
NeverConnected == FALSE

Connected == session # None

Connect(u) ==
  /\ pc[u] = "connect" /\ fixMu = {}
  /\ \/ Connected /\ Goto(u, "idle") /\ UNCHANGED fixMu
     \/ ~Connected /\ Goto(u, "dial") /\ fixMu' = {u}
  /\ UNCHANGED <<once, closersMu, session, sessions, closers, held, mine>>

\* SenderCompID is missing, or the Gate cannot be dialled.
CannotDial(u) ==
  /\ pc[u] = "dial"
  /\ fixMu' = {} /\ Goto(u, "idle")
  /\ UNCHANGED <<once, closersMu, session, sessions, closers, held, mine>>

Dial(u) ==
  /\ pc[u] = "dial" /\ Dialled < MaxSessions
  /\ sessions' = Append(sessions, "open") /\ Goto(u, "logon")
  /\ UNCHANGED <<once, locks, session, closers, held, mine>>

\* session.Close().
Shut(n) == [sessions EXCEPT ![n] = "closed"]

Logon(u) ==
  /\ pc[u] = "logon"
  /\ \/ session' = Dialled /\ Goto(u, "register") /\ UNCHANGED <<fixMu, sessions>>
     \/ /\ sessions' = Shut(Dialled)
        /\ fixMu' = {} /\ Goto(u, "idle") /\ UNCHANGED session
  /\ UNCHANGED <<once, closersMu, closers, held, mine>>

\* Mutant: only the first session registers a closer.
FirstOnly == IF Dialled = 1 THEN closers + 1 ELSE closers

\* Mutant: the closer is registered when the session is dialled, and again here.
Twice == closers + 2

OneMore == closers + 1

\* RegisterCloser, while Connect still holds fixMu.
Register(u) ==
  /\ pc[u] = "register" /\ closersMu = {}
  /\ closers' = OneMore
  /\ fixMu' = {} /\ Goto(u, "idle")
  /\ UNCHANGED <<once, closersMu, session, sessions, held, mine>>

-----------------------------------------------------------------------------
(* Close of the FORTS client, on its own or as a closer of the root client  *)

\* A root Close goes on with its next closer.
NextCloser(u) == /\ Goto(u, IF todo[u] > 1 THEN "close" ELSE "idle")
                 /\ todo' = [todo EXCEPT ![u] = IF @ > 0 THEN @ - 1 ELSE 0]

Close(u) ==
  /\ pc[u] = "close" /\ fixMu = {}
  /\ \/ ~Connected /\ NextCloser(u) /\ UNCHANGED fixMu
     \/ Connected /\ Goto(u, "shut") /\ fixMu' = {u} /\ UNCHANGED todo
  /\ UNCHANGED <<once, closersMu, session, sessions, closers, held, calls>>

\* Mutant: the session that was closed is kept.
Kept == session

Forgotten == None

ShutSession(u) ==
  /\ pc[u] = "shut"
  /\ sessions' = Shut(session) /\ session' = Forgotten
  /\ fixMu' = {} /\ NextCloser(u)
  /\ UNCHANGED <<once, closersMu, closers, held, calls>>

\* Mutant: closersMu is not released.
StillHeld(u) == {u}

Released(u) == {}

\* Close of the root client: it takes the closers away and runs what it took.
CloseAll(u) ==
  /\ pc[u] = "close all" /\ closersMu = {}
  /\ closersMu' = Released(u)
  /\ todo' = [todo EXCEPT ![u] = closers] /\ closers' = 0
  /\ Goto(u, IF closers > 0 THEN "close" ELSE "idle")
  /\ UNCHANGED <<once, fixMu, session, sessions, held, calls>>

-----------------------------------------------------------------------------
(* A trading call                                                           *)

\* session(): the call is handed out the session, and keeps it.
Use(u) ==
  /\ pc[u] = "use" /\ fixMu = {}
  /\ \/ ~Connected /\ Goto(u, "idle") /\ UNCHANGED held
     \/ Connected /\ Goto(u, "send") /\ held' = [held EXCEPT ![u] = session]
  /\ UNCHANGED <<once, locks, session, sessions, closers, mine>>

\* SendApp, on the session it holds, whatever has become of that by now.
SendApp(u) ==
  /\ pc[u] = "send"
  /\ held' = [held EXCEPT ![u] = None] /\ Goto(u, "idle")
  /\ UNCHANGED <<once, locks, session, sessions, closers, mine>>

\* The connection of a session is lost; nothing here is told.
Break(n) ==
  /\ sessions[n] = "open"
  /\ sessions' = [sessions EXCEPT ![n] = "broken"]
  /\ UNCHANGED <<once, locks, session, closers, pc, held, mine>>

-----------------------------------------------------------------------------
Init ==
  /\ once = "new" /\ fixMu = {} /\ closersMu = {}
  /\ session = None /\ sessions = <<>> /\ closers = 0
  /\ pc = [u \in Users |-> "idle"] /\ held = [u \in Users |-> None]
  /\ todo = [u \in Users |-> 0] /\ calls = [u \in Users |-> 0]

\* What a user does once it has called.
Proceed(u) == \/ Forts(u) \/ Build(u)
              \/ Connect(u) \/ CannotDial(u) \/ Dial(u) \/ Logon(u) \/ Register(u)
              \/ Close(u) \/ ShutSession(u) \/ CloseAll(u)
              \/ Use(u) \/ SendApp(u)

Next == \/ \E u \in Users : Begin(u) \/ AskForts(u) \/ Proceed(u)
        \/ \E n \in 1..Dialled : Break(n)

Spec == Init /\ [][Next]_vars

\* Dialling and Logon have timeouts, and a Go mutex that is free is given to
\* somebody who waits for it; the factory and SendApp end, and so does the Logout of a
\* session's Close, as long as the connection takes what is written (see FixSession).
FairSpec == Spec /\ \A u \in Users : WF_vars(Proceed(u))

-----------------------------------------------------------------------------
(* Properties                                                               *)

TypeOK ==
  /\ once \in {"new", "running", "done"}
  /\ fixMu \in SUBSET Users /\ closersMu \in SUBSET Users
  /\ sessions \in Seq(States) /\ session \in 0..Dialled
  /\ closers \in 0..Dialled
  /\ pc \in [Users -> {"idle", "connect", "dial", "logon", "register", "close", "shut",
                       "close all", "use", "send", "forts", "build"}]
  /\ held \in [Users -> 0..Dialled]
  /\ todo \in [Users -> 0..Dialled]
  /\ calls \in [Users -> 0..MaxCalls]

\* Connect is "safe to call once; subsequent calls return nil if already
\* connected" (forts/client.go:137-138): a session that is not closed is the
\* client's, or that of the one Connect that is at its Logon; none is left behind
\* with its two goroutines and its connection.
NoneLeftBehind ==
  \A n \in 1..Dialled :
    sessions[n] # "closed" =>
      n = session \/ \E u \in Users : pc[u] = "logon" /\ n = Dialled

\* A trading call is handed out a session that nobody has closed (forts/client.go:
\* 187-188, 192-199), although Connect and Close replace it at any time; what
\* becomes of it afterwards the call finds out when it sends.
HandedOutOpen ==
  [][\A u \in Users : held'[u] # held[u] /\ held'[u] # None =>
                         sessions[held'[u]] # "closed"]_vars

\* The root client's Close "gracefully shuts down every background transport created by
\* any section sub-client (FIX sessions, SIMBA listeners, idle HTTP connections). Safe
\* to call multiple times" (client.go:80-82).  Of the three this holds for the FIX
\* sessions, also while others connect and close: when all calls have returned and no
\* closer is left, every session has been closed.  The other two are never closed here:
\* the one closer that is ever registered is that of Connect, forts.Client.Close, which
\* says itself that listeners are not stopped by it (forts/client.go:170, 174-176).
CloseEndsSessions ==
  (closers = 0 /\ \A u \in Users : pc[u] = "idle") =>
    \A n \in 1..Dialled : sessions[n] = "closed"

\* The two mutexes and the sync.Once never lock each other out (client.go:89-92, 128,
\* forts/client.go:174): every call returns.
CallsReturn == \A u \in Users : pc[u] # "idle" ~> pc[u] = "idle"
=============================================================================
