-------------------------- MODULE TimeoutProvider --------------------------
(***************************************************************************)
(* The timeout provider that all streams of a client share: class          *)
(* TimeoutProvider of clients/ccrtp/CcrtpTimeoutProvider.h, a list of       *)
(* requests behind a mutex and one thread that sleeps until the first of    *)
(* them is due and delivers it without the mutex.  (The provider of         *)
(* clients/tivi differs in its event class only.)                           *)
(*                                                                         *)
(* ZrtpStateClass counts the requests of one stream in "pending" and takes  *)
(* for granted that activateTimer queues one and that it is delivered; what  *)
(* the provider makes of that is checked here.                              *)
(***************************************************************************)
EXTENDS Integers, Sequences

CONSTANTS
    Subscribers,   \* the streams
    Delays,        \* time_ms arguments of requestTimeout
    LongWait,      \* the sleep of an idle thread (3600000 ms)
    None,          \* no subscriber
    Horizon,       \* bound: no request is made after this time
    MaxTime,       \* bound: an idle clock stops here
    MaxRequests    \* bound: length of the list

ASSUME ProviderConstants ==
    /\ Delays \subseteq Nat /\ LongWait \in Nat \ {0} /\ None \notin Subscribers
    /\ Horizon \in Nat /\ MaxTime \in Nat /\ MaxRequests \in Nat

VARIABLES
    requests,      \* the list, nearest expiry first
    now,           \* gettimeofday, in ms
    stop,          \* the thread is told to terminate
    signalled,     \* the event the thread sleeps on
    pc,            \* where the thread is in run()
    time,          \* its local: how long to sleep
    wakeAt,        \* when the sleep ends
    serving,       \* the subscriber whose handleTimeout is about to be called
    owed           \* requests made, and neither delivered nor cancelled

vars == <<requests, now, stop, signalled, pc, time, wakeAt, serving, owed>>

Init ==
    /\ requests = <<>> /\ now = 0 /\ stop = FALSE /\ signalled = FALSE
    /\ pc = "check" /\ time = 0 /\ wakeAt = 0 /\ serving = None
    /\ owed = [s \in Subscribers |-> 0]

-----------------------------------------------------------------------------
(* The list.                                                                 *)

Positions == 1..Len(requests)

\* Positions before which a request for time t may go (happensBefore).
Later(t) == {i \in Positions : t < requests[i].when}

First(S) == CHOOSE i \in S : \A j \in S : i <= j

\* Mutant of Inserted: the list is not searched for the right place.
Appended(req) == Append(requests, req)

\* requestTimeout: before the front, behind the back, or before the first
\* entry that expires later; where there is none, the request goes nowhere.
Inserted(req) ==
    CASE requests = <<>>                          -> <<req>>
      [] requests # <<>> /\ requests[Len(requests)].when < req.when
                                                  -> Append(requests, req)
      [] OTHER -> IF Later(req.when) = {} THEN requests
                  ELSE LET k == First(Later(req.when))
                       IN  SubSeq(requests, 1, k - 1) \o <<req>>
                             \o SubSeq(requests, k, Len(requests))

Of(s) == {i \in Positions : requests[i].sub = s}

\* The positions in K one after the other (there is one such sequence): what an
\* iteration over the list that erases all others leaves.
InOrder(K) ==
    {p \in UNION {[1..n -> K] : n \in 0..Len(requests)} :
        /\ \A i, j \in DOMAIN p : i < j => p[i] < p[j]
        /\ \A k \in K : \E i \in DOMAIN p : p[i] = k}

-----------------------------------------------------------------------------
(* The streams, each call under the mutex.                                   *)

RequestTimeout(s, ms) ==
    /\ now <= Horizon /\ Len(requests) < MaxRequests /\ owed[s] < MaxRequests
    /\ requests' = Inserted([sub |-> s, when |-> now + ms])
    /\ signalled' = TRUE /\ owed' = [owed EXCEPT ![s] = @ + 1]
    /\ UNCHANGED <<now, stop, pc, time, wakeAt, serving>>

\* cancelRequest: all of the subscriber's requests, whatever their time.
CancelRequest(s) ==
    /\ \E p \in InOrder(Positions \ Of(s)) :
          requests' = [i \in DOMAIN p |-> requests[p[i]]]
    /\ owed' = [owed EXCEPT ![s] = 0]
    /\ UNCHANGED <<now, stop, signalled, pc, time, wakeAt, serving>>

\* stopThread, without the mutex.
StopThread ==
    /\ ~stop /\ stop' = TRUE /\ signalled' = TRUE
    /\ UNCHANGED <<requests, now, pc, time, wakeAt, serving, owed>>

-----------------------------------------------------------------------------
(* The thread.                                                               *)

\* getMsToTimeout() = 0
Due == requests # <<>> /\ requests[1].when <= now

MsToSleep == IF requests = <<>> THEN LongWait ELSE requests[1].when - now

\* Under the mutex: take the first request if it is due ...
TakeDue ==
    /\ pc = "check" /\ Due
    /\ IF stop THEN pc' = "done" /\ UNCHANGED <<requests, serving, owed>>
       ELSE /\ pc' = "deliver" /\ serving' = requests[1].sub
            /\ requests' = Tail(requests)
            /\ owed' = [owed EXCEPT ![requests[1].sub] = @ - 1]
    /\ UNCHANGED <<now, stop, signalled, time, wakeAt>>

\* ... or find out how long to sleep.
NothingDue ==
    /\ pc = "check" /\ ~Due
    /\ time' = MsToSleep /\ pc' = "reset"
    /\ UNCHANGED <<requests, now, stop, signalled, wakeAt, serving, owed>>

\* handleTimeout returns; the stream may have made a request meanwhile.
Delivered ==
    /\ pc = "deliver" /\ pc' = "check" /\ serving' = None
    /\ UNCHANGED <<requests, now, stop, signalled, time, wakeAt, owed>>

\* After the mutex is released: reset() the event and wait(time).
ResetAndWait ==
    /\ pc = "reset"
    /\ IF stop THEN pc' = "done" /\ UNCHANGED <<signalled, wakeAt>>
       ELSE pc' = "wait" /\ signalled' = FALSE /\ wakeAt' = now + time
    /\ UNCHANGED <<requests, now, stop, time, serving, owed>>

\* Mutant of WakeUp: the sleep has no time limit.
WakeOnSignal ==
    /\ pc = "wait" /\ signalled
    /\ pc' = IF stop THEN "done" ELSE "check"
    /\ UNCHANGED <<requests, now, stop, signalled, time, wakeAt, serving, owed>>

WakeUp ==
    /\ pc = "wait" /\ (signalled \/ now >= wakeAt)
    /\ pc' = IF stop THEN "done" ELSE "check"
    /\ UNCHANGED <<requests, now, stop, signalled, time, wakeAt, serving, owed>>

\* Once the list is empty the clock stops at MaxTime.
Tick ==
    /\ now < MaxTime \/ (requests # <<>> /\ now < wakeAt)
    /\ now' = now + 1
    /\ UNCHANGED <<requests, stop, signalled, pc, time, wakeAt, serving, owed>>

-----------------------------------------------------------------------------

Run == TakeDue \/ NothingDue \/ Delivered \/ ResetAndWait \/ WakeUp

Next ==
    \/ \E s \in Subscribers, ms \in Delays : RequestTimeout(s, ms)
    \/ \E s \in Subscribers : CancelRequest(s)
    \/ StopThread \/ Run \/ Tick

Spec == Init /\ [][Next]_vars

\* Time passes, the thread is scheduled, and handleTimeout returns.
FairSpec == Spec /\ WF_vars(Run) /\ WF_vars(Tick)

-----------------------------------------------------------------------------
(* Properties.                                                               *)

\* The variables have their types; nothing is taken off the list that was not
\* asked for since the last cancel, so owed never becomes negative.
TypeOK ==
    /\ requests \in Seq([sub : Subscribers, when : Nat])
    /\ now \in Nat /\ stop \in BOOLEAN /\ signalled \in BOOLEAN
    /\ pc \in {"check", "deliver", "reset", "wait", "done"}
    /\ time \in Nat /\ wakeAt \in Nat /\ serving \in Subscribers \cup {None}
    /\ owed \in [Subscribers -> Nat]

\* "Nearest in future is first in list": however requests and cancellations of
\* several streams interleave, the first entry is the next to expire, so looking
\* at it alone (run) is enough.
Sorted == \A i, j \in Positions : i < j => requests[i].when <= requests[j].when

\* A request on the list is taken off it in the end, even one whose signal the
\* thread missed; the thread never sleeps for ever.
Served ==
    \A s \in Subscribers : (Of(s) # {}) ~> (Of(s) = {} \/ serving = s \/ stop)
=============================================================================
