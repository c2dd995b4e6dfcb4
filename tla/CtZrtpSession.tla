---------------------------- MODULE CtZrtpSession ----------------------------
(***************************************************************************)
(* The Tivi client's session: an audio stream (Master) that runs the key    *)
(* agreement, and a video stream (Slave) that can start only with the       *)
(* multi-stream parameters of the Master.  The application calls start() for *)
(* the video stream while the thread that receives audio packets may be in   *)
(* masterStreamSecure(); the two share multiStreamParameter and the flags of *)
(* the video stream, and no lock.  The same session object serves one call   *)
(* after the other: init, ..., release, init.                                *)
(***************************************************************************)
EXTENDS Naturals

CONSTANT MaxCalls          \* bound: calls of init

ASSUME SessionConstants == MaxCalls \in Nat \ {0}

VARIABLES
    calls,                 \* calls of init so far, the number of the current call
    audio,                 \* engine of the Master: "none", "Initial", "Running", "Secure"
    video,                 \* the Slave stream
    multiStreamParameter,  \* the call whose Master they are from, 0: empty
    app,                   \* where the application is in start(VideoStream)
    copy,                  \* its copy of multiStreamParameter
    master                 \* where the audio thread is in masterStreamSecure

sessionVars == <<calls, audio, video, multiStreamParameter, app, copy, master>>

\* engine: state of the Slave's engine; params: the call whose Master's keys it has.
NoSlave == [engine |-> "none", enableZrtp |-> FALSE, started |-> FALSE, params |-> 0]

SessionInit ==
    /\ calls = 0 /\ audio = "none" /\ video = NoSlave
    /\ multiStreamParameter = 0 /\ app = "idle" /\ copy = 0 /\ master = "idle"

\* init(true, true).
InitStreams ==
    /\ audio = "none" /\ app = "idle" /\ calls < MaxCalls
    /\ calls' = calls + 1 /\ audio' = "Initial"
    /\ video' = [NoSlave EXCEPT !.engine = "Initial"]
    /\ UNCHANGED <<multiStreamParameter, app, copy, master>>

\* start(AudioStream).
StartMaster ==
    /\ audio = "Initial" /\ app = "idle" /\ audio' = "Running"
    /\ UNCHANGED <<calls, video, multiStreamParameter, app, copy, master>>

\* setMultiStrParams and startZrtpEngine, which does nothing unless in Initial.
SetAndStart(p) == video' = [video EXCEPT !.params = p, !.engine = "Running"]

\* start(VideoStream), also by startIfNotStarted and more than once: announce the
\* stream, ...
StartSlave ==
    /\ video.engine # "none" /\ app = "idle"
    /\ video' = [video EXCEPT !.enableZrtp = TRUE] /\ app' = "look"
    /\ UNCHANGED <<calls, audio, multiStreamParameter, copy, master>>

\* Mutant of LookForParameters: start without the test for an empty string.
LookUnchecked ==
    /\ app = "look" /\ app' = "start" /\ copy' = multiStreamParameter
    /\ UNCHANGED <<calls, audio, video, multiStreamParameter, master>>

\* Mutant of LookForParameters: leave it to masterStreamSecure to start the Slave.
LeaveToMaster ==
    /\ app = "look" /\ app' = "idle"
    /\ UNCHANGED <<calls, audio, video, multiStreamParameter, copy, master>>

\* ... look for parameters, which are passed by value, ...
LookForParameters ==
    /\ app = "look"
    /\ IF multiStreamParameter = 0 THEN app' = "idle" /\ UNCHANGED copy
       ELSE app' = "start" /\ copy' = multiStreamParameter
    /\ UNCHANGED <<calls, audio, video, multiStreamParameter, master>>

\* ... start the engine, ...
StartWithCopy ==
    /\ app = "start" /\ SetAndStart(copy) /\ app' = "flag" /\ copy' = 0
    /\ UNCHANGED <<calls, audio, multiStreamParameter, master>>

\* ... and set the flag that lets packets through to it.
SetStarted ==
    /\ app = "flag" /\ video' = [video EXCEPT !.started = TRUE] /\ app' = "idle"
    /\ UNCHANGED <<calls, audio, multiStreamParameter, copy, master>>

\* The Master's engine is in SecureState and reports InfoSecureStateOn.
MasterSecure ==
    /\ audio = "Running" /\ audio' = "Secure" /\ master' = "store"
    /\ UNCHANGED <<calls, video, multiStreamParameter, app, copy>>

\* masterStreamSecure: store the parameters, ...
StoreParameters ==
    /\ master = "store" /\ multiStreamParameter' = calls /\ master' = "look"
    /\ UNCHANGED <<calls, audio, video, app, copy>>

\* Mutant of StartWaiting: start the engine, forget the flag.
StartWaitingUnflagged ==
    /\ master = "look" /\ master' = "idle"
    /\ IF video.enableZrtp THEN SetAndStart(multiStreamParameter) ELSE UNCHANGED video
    /\ UNCHANGED <<calls, audio, multiStreamParameter, app, copy>>

\* ... start a Slave that waits for them, ...
StartWaiting ==
    /\ master = "look"
    /\ IF video.enableZrtp THEN SetAndStart(multiStreamParameter) /\ master' = "flag"
       ELSE master' = "idle" /\ UNCHANGED video
    /\ UNCHANGED <<calls, audio, multiStreamParameter, app, copy>>

\* ... and set its flag.
MasterSetsStarted ==
    /\ master = "flag" /\ video' = [video EXCEPT !.started = TRUE] /\ master' = "idle"
    /\ UNCHANGED <<calls, audio, multiStreamParameter, app, copy>>

\* release(), which the application does not call while a callback runs; it resets
\* both streams and keeps multiStreamParameter.
Release ==
    /\ audio # "none" /\ app = "idle" /\ master = "idle"
    /\ audio' = "none" /\ video' = NoSlave
    /\ UNCHANGED <<calls, multiStreamParameter, app, copy, master>>

-----------------------------------------------------------------------------

\* The rest of a call of start(VideoStream), and of the callback.
RestOfStart == LookForParameters \/ StartWithCopy \/ SetStarted
RestOfCallback == StoreParameters \/ StartWaiting \/ MasterSetsStarted

SessionNext ==
    \/ InitStreams \/ StartMaster \/ StartSlave \/ RestOfStart \/ Release
    \/ MasterSecure \/ RestOfCallback

SessionSpec == SessionInit /\ [][SessionNext]_sessionVars

\* A call that has begun comes to its end; nobody has to begin one.
FairSessionSpec == SessionSpec /\ WF_sessionVars(RestOfStart) /\ WF_sessionVars(RestOfCallback)

-----------------------------------------------------------------------------
(* Properties.                                                               *)

Quiet == app = "idle" /\ master = "idle"

\* However start(VideoStream) and masterStreamSecure interleave, a Slave that the
\* application started runs, and its packets get through, once both are over and
\* the Master is secure: one of the two always sees what the other has written.
SlaveStarted ==
    (Quiet /\ audio = "Secure" /\ video.enableZrtp) => video.started /\ video.engine = "Running"

\* In the first call of a session a Slave's engine runs only with the keys of the
\* Master, which is secure.  In a later call multiStreamParameter still holds the
\* former Master's, and start() starts the Slave with those at once.
MasterFirst ==
    video.engine = "Running" => /\ video.params \in 1 .. calls
                                /\ calls = 1 => audio = "Secure"

\* The Slave is not left waiting: when the Master is secure it starts, whichever of
\* the two came first, in every call of the session.
SlaveStarts ==
    (video.enableZrtp /\ audio = "Secure") ~> (video.started \/ audio = "none")
=============================================================================
